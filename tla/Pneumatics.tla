----------------------------- MODULE Pneumatics -----------------------------
(***************************************************************************)
(* Solenoids and compressor on one pneumatics module: cpphalbackup's       *)
(* Solenoid.cpp, Compressor.cpp, PCMInternal.cpp and the control frame of  *)
(* ctre/PCM.cpp.  Nothing takes a lock: every call reads bit-fields of the *)
(* one control frame, writes them back in place and hands the whole frame  *)
(* to the session, which repeats it every 20 ms.                           *)
(***************************************************************************)
EXTENDS ThreadConstants, Naturals, FiniteSets, TLC

CONSTANTS
  Channels,
  MaxModules,         \* bound on the objects constructed
  SolenoidWorkloads   \* sets of fields: the calls of a behaviour edit those of one of them

VARIABLES
  objects,   \* PCM_modules[m]: 0 is null, n the n-th object constructed
  tx,        \* the bytes of the object's CONTROL_1 job
  sent,      \* the last CONTROL_1 frame the session took
  durations, \* the channels set in the CONTROL_3 job, {} while there is none
  solenoids, \* the channels with a handle
  airPc, airArg,   \* the calls under way
  airWorkload,
  refused    \* ghost: the session refused the last frame

airVars == <<objects, tx, sent, durations, solenoids, airPc, airArg, airWorkload, refused>>

Off == [c \in Channels |-> FALSE]
Frame == [bits |-> Off, loop |-> FALSE, shots |-> [c \in Channels |-> 0]]
NoArg == [field |-> "none", channels |-> {}, new |-> Off, rest |-> <<>>]

\* PcmControl_t: the solenoids and the closed loop share the first four bytes, which is
\* the unit the bit-fields are declared in; a build may write all of it for any of them.
UnitOf(f) == IF f = "shots" THEN {"shots"} ELSE {"bits", "loop"}

AirInit ==
  /\ objects = 0 /\ tx = Frame /\ sent = Frame
  /\ durations = {} /\ solenoids = {} /\ refused = FALSE
  /\ airWorkload \in SolenoidWorkloads
  /\ airPc = [t \in Threads |-> "idle"] /\ airArg = [t \in Threads |-> NoArg]

AirGoto(t, step, a) == airPc' = [airPc EXCEPT ![t] = step] /\ airArg' = [airArg EXCEPT ![t] = a]

\* HAL_InitializeSolenoidPort and HAL_InitializeCompressor: initializePCM looks ...
InitializePCM(t, c) ==
  /\ airPc[t] = "idle"
  /\ AirGoto(t, IF objects = 0 THEN "construct" ELSE "allocate", [NoArg EXCEPT !.channels = {c}])
  /\ UNCHANGED <<objects, tx, sent, durations, solenoids, airWorkload, refused>>

\* ... and constructs: a zeroed frame is registered, then closed loop control set; the
\* session may refuse either.  A second object replaces, and deletes, the one other
\* threads may be using.
Construct(t) ==
  /\ airPc[t] = "construct" /\ objects < MaxModules
  /\ objects' = objects + 1
  /\ tx' = [Frame EXCEPT !.loop = TRUE]
  /\ \/ sent' = tx' /\ refused' = FALSE
     \/ sent' \in {Frame, sent} /\ refused' = TRUE
  /\ durations' = {}
  /\ AirGoto(t, "allocate", airArg[t])
  /\ UNCHANGED <<solenoids, airWorkload>>

\* The solenoid's handle; a compressor's is only its number, as is that of a channel
\* in use, which is refused.
Allocate(t) ==
  /\ airPc[t] = "allocate" /\ AirGoto(t, "idle", NoArg)
  /\ solenoids' \in {solenoids, solenoids \cup airArg[t].channels}
  /\ UNCHANGED <<objects, tx, sent, durations, airWorkload, refused>>

HAL_FreeSolenoidPort(c) ==
  /\ c \in solenoids /\ solenoids' = solenoids \ {c}
  /\ UNCHANGED <<objects, tx, sent, durations, airPc, airArg, airWorkload, refused>>

\* A call reads the unit its field is in, and makes the field's new value of it ...
ReadUnit(t, f, new) ==
  /\ airPc[t] = "idle" /\ objects # 0 /\ f \in airWorkload
  /\ AirGoto(t, "write", [NoArg EXCEPT !.field = f, !.new = new,
                         !.rest = [g \in UnitOf(f) \ {f} |-> tx[g]]])
  /\ UNCHANGED <<objects, tx, sent, durations, solenoids, airWorkload, refused>>

\* Two bits per channel that go 1, 2, 3, 1: the module fires on every change.
NextShot(s) == (s % 3) + 1

HAL_SetSolenoid(t, c, v) == c \in solenoids /\ ReadUnit(t, "bits", [tx.bits EXCEPT ![c] = v])
HAL_FireOneShot(t, c) ==
  c \in solenoids /\ ReadUnit(t, "shots", [tx.shots EXCEPT ![c] = NextShot(@)])
HAL_SetAllSolenoids(t, state) == ReadUnit(t, "bits", [c \in Channels |-> c \in state])
HAL_SetCompressorClosedLoopControl(t, v) == ReadUnit(t, "loop", v)

\* The write puts back the field, or with it the rest of the unit as it was read.
Written(a) == {[tx EXCEPT ![a.field] = a.new], a.rest @@ [tx EXCEPT ![a.field] = a.new]}

\* Mutated form: a field that has the new value already is not flushed.
WriteChanged(t) ==
  /\ airPc[t] = "write" /\ tx' \in Written(airArg[t])
  /\ AirGoto(t, IF tx[airArg[t].field] = airArg[t].new THEN "idle" ELSE "flush", NoArg)
  /\ UNCHANGED <<objects, sent, durations, solenoids, airWorkload, refused>>

WriteUnit(t) ==
  /\ airPc[t] = "write" /\ tx' \in Written(airArg[t])
  /\ AirGoto(t, "flush", NoArg)
  /\ UNCHANGED <<objects, sent, durations, solenoids, airWorkload, refused>>

\* FlushTx: whatever the frame holds now is sent; a refusal is not reported.  That the
\* session takes a frame in one step is taken from the vendor's library.
FlushTx(t) ==
  /\ airPc[t] = "flush" /\ AirGoto(t, "idle", NoArg)
  /\ \/ sent' = tx /\ refused' = FALSE
     \/ refused' = TRUE /\ UNCHANGED sent
  /\ UNCHANGED <<objects, tx, durations, solenoids, airWorkload>>

\* The job of the pulse widths is registered by the first call that sets one.
HAL_SetOneShotDuration(t, c) ==
  /\ airPc[t] = "idle" /\ c \in solenoids /\ "durations" \in airWorkload
  /\ durations' = durations \cup {c}
  /\ UNCHANGED <<objects, tx, sent, solenoids, airPc, airArg, airWorkload, refused>>

AirCall(t) ==
  \/ \E c \in Channels : InitializePCM(t, c) \/ HAL_FireOneShot(t, c) \/ HAL_SetOneShotDuration(t, c)
  \/ \E c \in Channels, v \in BOOLEAN : HAL_SetSolenoid(t, c, v)
  \/ \E state \in SUBSET Channels : HAL_SetAllSolenoids(t, state)
  \/ \E v \in BOOLEAN : HAL_SetCompressorClosedLoopControl(t, v)
  \/ Construct(t) \/ Allocate(t) \/ WriteUnit(t) \/ FlushTx(t)

AirNext == (\E t \in Threads : AirCall(t)) \/ \E c \in Channels : HAL_FreeSolenoidPort(c)

-----------------------------------------------------------------------------
\* When no call is under way and the session took the last frame it was handed, it
\* repeats the frame as it is in memory: whatever edits overlapped and undid each other,
\* none is left in memory only, and freed handles change nothing.  Excepted is a module
\* that two threads constructed at once.
SentIsCurrent == objects <= 1 /\ (\A t \in Threads : airPc[t] = "idle") /\ ~refused => sent = tx
=============================================================================
