------------------------------ MODULE FPGAClock ------------------------------
(***************************************************************************)
(* cpp/HAL.cpp: HAL_GetFPGATime puts a 64-bit time together from two       *)
(* 32-bit registers that go on counting between its reads, and             *)
(* HAL_ExpandFPGATime finds the upper half of a 32-bit hardware timestamp. *)
(* A 64-bit time is the pair <<upper, lower>>, (upper << 32) + lower.      *)
(***************************************************************************)
EXTENDS ThreadConstants, Integers

CONSTANTS
  Half,          \* values of one register, 2^32
  MaxUpper,      \* the clock's bound: the largest upper half
  ReadsFail      \* whether NiFpga_ReadU32 may return an error

ASSUME ClockAssumption == Half \in Nat \ {0} /\ MaxUpper \in Nat /\ ReadsFail \in BOOLEAN

VARIABLES
  upper, lower,              \* the FPGA's two registers
  clockPc,
  upper1, low, upper2,       \* locals of HAL_GetFPGATime
  error,                     \* NiFpga_IsError(*status)
  expanding,                 \* called by HAL_ExpandFPGATime
  since,                     \* ghost: when the timestamp, or the call, was made
  lost                       \* ghost: a failed read whose status was overwritten

clockRegisters == <<upper, lower>>
clockGhosts == <<expanding, since, lost>>
clockVars == <<clockRegisters, clockPc, upper1, low, upper2, error, clockGhosts>>

Halves == 0 .. Half - 1
Uppers == 0 .. MaxUpper
Clock == Uppers \X Halves
ClockSteps == {"idle", "stamped", "upper1", "lower", "upper2", "reread", "return", "expanded"}

ClockTypeOK ==
  /\ upper \in Uppers /\ lower \in Halves
  /\ clockPc \in [Threads -> ClockSteps]
  /\ upper1 \in [Threads -> Uppers]
  /\ low \in [Threads -> Halves]
  /\ upper2 \in [Threads -> -1 .. MaxUpper]
  /\ error \in [Threads -> BOOLEAN]
  /\ expanding \in [Threads -> BOOLEAN]
  /\ since \in [Threads -> Clock]
  /\ lost \in [Threads -> BOOLEAN]

\* The order of 64-bit times, and less than one wrap of the lower half apart.
AtMost(s, t) == s[1] < t[1] \/ (s[1] = t[1] /\ s[2] <= t[2])
WithinWrap(s, t) == s[1] = t[1] \/ (s[1] + 1 = t[1] /\ t[2] < s[2])

ClockInit ==
  /\ upper \in Uppers /\ lower \in Halves
  /\ clockPc = [t \in Threads |-> "idle"]
  /\ upper1 = [t \in Threads |-> 0]
  /\ low = [t \in Threads |-> 0]
  /\ upper2 = [t \in Threads |-> 0]
  /\ error = [t \in Threads |-> FALSE]
  /\ expanding = [t \in Threads |-> FALSE]
  /\ since = [t \in Threads |-> <<0, 0>>]
  /\ lost = [t \in Threads |-> FALSE]

Carry == lower + 1 = Half

\* The registers count.  No call, and no timestamp, is a whole wrap old (71
\* minutes) when its call ends: the code relies on it, and so does Tick.
Tick ==
  /\ lower' = IF Carry THEN 0 ELSE lower + 1
  /\ upper' = IF Carry THEN upper + 1 ELSE upper
  /\ upper' <= MaxUpper
  /\ \A t \in Threads : clockPc[t] # "idle" => WithinWrap(since[t], <<upper', lower'>>)
  /\ UNCHANGED <<clockPc, upper1, low, upper2, error, clockGhosts>>

ClockGoto(t, step) == clockPc' = [clockPc EXCEPT ![t] = step]

\* A hardware timestamp is latched, whose lower half HAL_ExpandFPGATime gets.
Stamp(t) ==
  /\ clockPc[t] = "idle" /\ ClockGoto(t, "stamped")
  /\ since' = [since EXCEPT ![t] = <<upper, lower>>]
  /\ UNCHANGED <<clockRegisters, upper1, low, upper2, error, expanding, lost>>

\* upper1 = 0, lower = 0, upper2 = 0
ClockBegin(t) ==
  /\ clockPc[t] \in {"idle", "stamped"} /\ ClockGoto(t, "upper1")
  /\ expanding' = [expanding EXCEPT ![t] = clockPc[t] = "stamped"]
  /\ since' = [since EXCEPT ![t] = IF clockPc[t] = "stamped" THEN @ ELSE <<upper, lower>>]
  /\ upper1' = [upper1 EXCEPT ![t] = 0]
  /\ low' = [low EXCEPT ![t] = 0]
  /\ upper2' = [upper2 EXCEPT ![t] = 0]
  /\ error' = [error EXCEPT ![t] = FALSE]
  /\ lost' = [lost EXCEPT ![t] = FALSE]
  /\ UNCHANGED clockRegisters

\* NiFpga_ReadU32: the register goes to the local, or an error leaves it alone.
ReadU32(t, local, register) ==
  \/ local' = [local EXCEPT ![t] = register] /\ error' = [error EXCEPT ![t] = FALSE]
  \/ ReadsFail /\ error' = [error EXCEPT ![t] = TRUE] /\ UNCHANGED local

ReadUpper1(t) ==
  /\ clockPc[t] = "upper1" /\ ClockGoto(t, "lower")
  /\ ReadU32(t, upper1, upper)
  /\ UNCHANGED <<clockRegisters, low, upper2, clockGhosts>>

ReadLower(t) ==
  /\ clockPc[t] = "lower" /\ ClockGoto(t, "upper2")
  /\ ReadU32(t, low, lower)
  /\ lost' = [lost EXCEPT ![t] = IF error[t] THEN TRUE ELSE @]
  /\ UNCHANGED <<clockRegisters, upper1, upper2, expanding, since>>

\* Mutated form: the lower half is never read again.
NoReread(t) == IF error'[t] THEN "idle" ELSE "return"

\* The status of the first two reads is overwritten, never looked at.
AfterUpper2(t) ==
  IF error'[t] THEN "idle" ELSE IF upper1[t] # upper2'[t] THEN "reread" ELSE "return"

ReadUpper2(t) ==
  /\ clockPc[t] = "upper2"
  /\ ReadU32(t, upper2, upper)
  /\ ClockGoto(t, AfterUpper2(t))
  /\ lost' = [lost EXCEPT ![t] = IF error[t] THEN TRUE ELSE @]
  /\ UNCHANGED <<clockRegisters, upper1, low, expanding, since>>

RereadLower(t) ==
  /\ clockPc[t] = "reread"
  /\ ReadU32(t, low, lower)
  /\ ClockGoto(t, IF error'[t] THEN "idle" ELSE "return")
  /\ UNCHANGED <<clockRegisters, upper1, upper2, clockGhosts>>

\* Mutated form: off by one.
RolledBackIfEqual(t) == low[t] <= since[t][2]

\* Roll the upper half back if the lower bits wrapped after the timestamp.  A
\* lost read can roll 0 back: -1 is the uint64_t 2^64 - 1.
RolledBack(t) == low[t] < since[t][2]

ClockReturn(t) ==
  /\ clockPc[t] = "return"
  /\ IF expanding[t]
       THEN /\ ClockGoto(t, "expanded")
            /\ upper2' = [upper2 EXCEPT ![t] = IF RolledBack(t) THEN @ - 1 ELSE @]
            /\ low' = [low EXCEPT ![t] = since[t][2]]
       ELSE ClockGoto(t, "idle") /\ UNCHANGED <<upper2, low>>
  /\ UNCHANGED <<clockRegisters, upper1, error, clockGhosts>>

ExpandReturn(t) ==
  /\ clockPc[t] = "expanded" /\ ClockGoto(t, "idle")
  /\ UNCHANGED <<clockRegisters, upper1, low, upper2, error, clockGhosts>>

ClockCall(t) ==
  \/ Stamp(t) \/ ClockBegin(t) \/ ReadUpper1(t) \/ ReadLower(t) \/ ReadUpper2(t)
  \/ RereadLower(t) \/ ClockReturn(t) \/ ExpandReturn(t)

ClockNext == Tick \/ \E t \in Threads : ClockCall(t)

ClockSpec == ClockInit /\ [][ClockNext]_clockVars

-----------------------------------------------------------------------------
Result(t) == <<upper2[t], low[t]>>

\* The time HAL_GetFPGATime returns is one the clock showed during the call,
\* no earlier than its beginning and no later than its end, wherever the
\* registers wrap between the reads: so calls that do not overlap, on any
\* threads, return times in order.
TimeIsOfTheCall ==
  \A t \in Threads : clockPc[t] = "return" /\ ~lost[t] =>
    AtMost(since[t], Result(t)) /\ AtMost(Result(t), <<upper, lower>>)

\* HAL_ExpandFPGATime returns the full time at which the timestamp was latched,
\* whether or not the lower half wrapped between the latch and the call's reads.
ExpandIsExact ==
  \A t \in Threads : clockPc[t] = "expanded" /\ ~lost[t] => Result(t) = since[t]
=============================================================================
