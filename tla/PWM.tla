-------------------------------- MODULE PWM --------------------------------
(***************************************************************************)
(* cpp/PWM.cpp: a port's configuration is written field by field without a *)
(* lock, and read field by field by the calls that scale a speed or a      *)
(* position to a raw value.  Both race, so the fields are written and read *)
(* in any order.  A speed or a position is a multiple of 1/Unit.           *)
(***************************************************************************)
EXTENDS Integers, Sequences, Functions

CONSTANTS
  Unit,   \* speeds go from -Unit to Unit, positions from 0 to Unit
  Times,  \* what HAL_SetPWMConfig is called with: fields in microseconds
  Raws,   \* what HAL_SetPWMConfigRaw is called with, which checks nothing
  Short   \* the times whose steps the division puts just below an integer

Fields == {"maxPwm", "deadbandMaxPwm", "centerPwm", "deadbandMinPwm", "minPwm"}

\* The bounds: pulses no shorter than half a millisecond, and raw limits whose differences
\* an int32_t holds.
ASSUME PWMAssumption ==
  /\ Unit \in Nat \ {0}
  /\ Times \subseteq [Fields -> Nat] /\ \A t \in Times : \A f \in Fields : t[f] > 500
  /\ Raws \subseteq [Fields -> Int]
  /\ \A c \in Raws : \A f \in Fields : -1073741823 <= c[f] /\ c[f] <= 1073741823
  /\ Short \subseteq Nat

\* 2.0, 1.501, 1.5, 1.499 and 1.0 milliseconds
DefaultTimes == [maxPwm |-> 2000, deadbandMaxPwm |-> 1501, centerPwm |-> 1500,
                 deadbandMinPwm |-> 1499, minPwm |-> 1000]

\* (time - kDefaultPwmCenter) / loopTime + kDefaultPwmStepsDown - 1, where a loop takes a
\* microsecond, in floating point and truncated
StepOf(us) == us - 1500 + 1000 - 1 - (IF us \in Short THEN 1 ELSE 0)
Converted(t) == [f \in Fields |-> StepOf(t[f])]

Default == Converted(DefaultTimes)
Configs == {Default} \cup {Converted(t) : t \in Times} \cup Raws

\* A configuration that leaves speeds on both sides of its neutral zone, like the default
\* one, where deadbandMaxPwm may be the center.
Valid(c) ==
  /\ 0 < c.minPwm /\ c.maxPwm <= 65535
  /\ c.minPwm < c.deadbandMinPwm /\ c.deadbandMinPwm <= c.centerPwm
  /\ c.centerPwm <= c.deadbandMaxPwm /\ c.deadbandMaxPwm < c.maxPwm
  /\ c.minPwm + 1 < c.centerPwm /\ c.centerPwm + 1 < c.maxPwm

kPwmDisabled == 0

VARIABLES
  config,              \* the fields of the DigitalPort
  eliminateDeadband,
  pending,             \* what HAL_SetPWMConfig has still to write: field -> value
  call,                \* the scaling call that runs: its reads, its argument
  got,                 \* what it has read: position in reads -> value
  value,               \* the FPGA's PWM value of the channel
  stable,              \* ghost: the call has seen one whole configuration
  asked                \* ghost: the call that led to value, if it was stable

portState == <<config, eliminateDeadband, pending>>
pwmVars == <<portState, call, got, value, stable, asked>>

NoScaling == [reads |-> <<>>, arg |-> 0, position |-> FALSE]
Empty == <<>>

PWMInit ==
  /\ config = Default
  /\ eliminateDeadband = FALSE
  /\ pending = Empty
  /\ call = NoScaling /\ got = Empty
  /\ value = kPwmDisabled
  /\ stable = FALSE
  /\ asked = NoScaling

-----------------------------------------------------------------------------
(* Configuring *)

\* Every change of the port spoils the call that runs and what was asked before.
Spoil == stable' = FALSE /\ asked' = NoScaling

Reconfigure(c) ==
  /\ pending = Empty
  /\ pending' = c
  /\ Spoil
  /\ UNCHANGED <<config, eliminateDeadband, call, got, value>>

\* Everything is converted before a field is written.
SetPWMConfig == \E t \in Times : Reconfigure(Converted(t))

SetPWMConfigRaw == \E c \in Raws : Reconfigure(c)

WriteField(f) ==
  /\ f \in DOMAIN pending
  /\ config' = [config EXCEPT ![f] = pending[f]]
  /\ pending' = Restrict(pending, DOMAIN pending \ {f})
  /\ Spoil
  /\ UNCHANGED <<eliminateDeadband, call, got, value>>

SetPWMEliminateDeadband ==
  /\ eliminateDeadband' \in BOOLEAN
  /\ Spoil
  /\ UNCHANGED <<config, pending, call, got, value>>

-----------------------------------------------------------------------------
(* Scaling *)

GetMinPositivePwm == IF eliminateDeadband THEN config.deadbandMaxPwm ELSE config.centerPwm + 1
GetMaxNegativePwm == IF eliminateDeadband THEN config.deadbandMinPwm ELSE config.centerPwm - 1

ReadOf == [max |-> config.maxPwm, minPositive |-> GetMinPositivePwm,
           center |-> config.centerPwm, maxNegative |-> GetMaxNegativePwm,
           min |-> config.minPwm]

\* Mutated form: positive speeds start at the center.
ReadsFromCenter(speed) ==
  CASE speed = 0 -> <<"center", "min", "max">>
    [] speed > 0 -> <<"min", "max", "max", "minPositive", "center">>
    [] speed < 0 -> <<"min", "max", "maxNegative", "min", "maxNegative">>

\* What HAL_SetPWMSpeed reads to scale a speed, and then to check the range
SpeedReads(speed) ==
  CASE speed = 0 -> <<"center", "min", "max">>
    [] speed > 0 -> <<"min", "max", "max", "minPositive", "minPositive">>
    [] speed < 0 -> <<"min", "max", "maxNegative", "min", "maxNegative">>

PositionReads == <<"max", "min", "min">>

Begin(reads, arg, position) ==
  /\ call = NoScaling
  /\ call' = [reads |-> reads, arg |-> arg, position |-> position]
  /\ stable' = (pending = Empty)
  /\ UNCHANGED <<portState, got, value, asked>>

\* std::clamp, and 0 for what is not finite, leave a speed of the range.
SetPWMSpeed == \E speed \in -Unit .. Unit : Begin(SpeedReads(speed), speed, FALSE)

SetPWMPosition == \E pos \in 0 .. Unit : Begin(PositionReads, pos, TRUE)

Read(k) ==
  /\ k \in DOMAIN call.reads \ DOMAIN got
  /\ got' = [j \in DOMAIN got \cup {k} |->
               IF j = k THEN ReadOf[call.reads[k]] ELSE got[j]]
  /\ UNCHANGED <<portState, call, value, stable, asked>>

\* static_cast<int32_t>(n / d)
Truncate(n, d) == IF n >= 0 THEN n \div d ELSE -((-n) \div d)

\* speed * scale + base + 0.5
Round(arg, scale, base) == Truncate(2 * (arg * scale + Unit * base) + Unit, 2 * Unit)

SpeedRaw == IF call.arg = 0 THEN got[1]
                            ELSE Round(call.arg, got[3] - got[4], got[5])

PositionRaw == Truncate(call.arg * (got[1] - got[2]) + Unit * got[3], Unit)

\* Mutated form: no check.
AnyValue(raw, min, max) == raw # kPwmDisabled

\* Mutated form: the lower end is left out.
AboveMin(raw, min, max) == min < raw /\ raw <= max

InRange(raw, min, max) == min <= raw /\ raw <= max /\ raw # kPwmDisabled

\* HAL_PWM_SCALE_ERROR, or a value to write
SpeedAccepted == IF call.arg = 0 THEN InRange(SpeedRaw, got[2], got[3])
                                 ELSE InRange(SpeedRaw, got[1], got[2])
Accepted == IF call.position THEN PositionRaw # kPwmDisabled ELSE SpeedAccepted

\* What HAL_SetPWMRaw puts into sixteen bits
Clamp(raw) == IF raw > 65535 THEN 65535 ELSE IF raw < 0 THEN 0 ELSE raw
SetPWMRaw(raw) == value' = Clamp(raw)

Finish ==
  /\ call # NoScaling /\ DOMAIN got = DOMAIN call.reads
  /\ Accepted
  /\ SetPWMRaw(IF call.position THEN PositionRaw ELSE SpeedRaw)
  /\ asked' = IF stable THEN call ELSE NoScaling
  /\ call' = NoScaling /\ got' = Empty /\ stable' = FALSE
  /\ UNCHANGED portState

ScaleError ==
  /\ call # NoScaling /\ DOMAIN got = DOMAIN call.reads
  /\ ~Accepted
  /\ call' = NoScaling /\ got' = Empty /\ stable' = FALSE
  /\ UNCHANGED <<portState, value, asked>>

PWMNext ==
  \/ SetPWMConfig \/ SetPWMConfigRaw \/ (\E f \in Fields : WriteField(f))
  \/ SetPWMEliminateDeadband \/ SetPWMSpeed \/ SetPWMPosition
  \/ (\E k \in 1 .. 5 : Read(k)) \/ Finish \/ ScaleError

PWMSpec == PWMInit /\ [][PWMNext]_pwmVars

-----------------------------------------------------------------------------
(* Reading back *)

\* HAL_GetPWMSpeed as a fraction: what is at least a step from its neutral zone counts.
GetPWMSpeed ==
  IF value = kPwmDisabled THEN <<0, 1>>
  ELSE IF value > config.maxPwm THEN <<1, 1>>
  ELSE IF value < config.minPwm THEN <<-1, 1>>
  ELSE IF value > GetMinPositivePwm
    THEN <<value - GetMinPositivePwm, config.maxPwm - GetMinPositivePwm>>
  ELSE IF value < GetMaxNegativePwm
    THEN <<value - GetMaxNegativePwm, GetMaxNegativePwm - config.minPwm>>
  ELSE <<0, 1>>

GetPWMPosition ==
  IF value < config.minPwm THEN <<0, 1>>
  ELSE IF value > config.maxPwm THEN <<1, 1>>
  ELSE <<value - config.minPwm, config.maxPwm - config.minPwm>>

-----------------------------------------------------------------------------
PWMTypes ==
  /\ config \in [Fields -> Int]
  /\ eliminateDeadband \in BOOLEAN
  /\ DOMAIN pending \subseteq Fields /\ \A f \in DOMAIN pending : pending[f] \in Int
  /\ call.position \in BOOLEAN /\ call.arg \in -Unit .. Unit
  /\ DOMAIN got \subseteq DOMAIN call.reads /\ \A k \in DOMAIN got : got[k] \in Int
  /\ value \in Nat /\ value <= 65535
  /\ stable \in BOOLEAN

\* A speed that is set while the configuration changes may be scaled with the fields of
\* two of them, in or out of order, but never drives the output beyond what some
\* configuration allows.
WithinConfigured ==
  [][value' # value /\ ~call.position =>
       \E c, d \in Configs : Clamp(c.minPwm) <= value' /\ value' <= Clamp(d.maxPwm)]_pwmVars

\* With one valid configuration from start to end no speed, the ends of the range
\* included, is refused with HAL_PWM_SCALE_ERROR.
StableNeverFails == [][stable /\ Valid(config) /\ call' # call => asked' = call]_pwmVars

Distance(n, d, arg) == LET e == n * Unit - arg * d IN IF e < 0 THEN -e ELSE e

SpeedReadBack ==
  asked # NoScaling /\ ~asked.position =>
    LET speed == GetPWMSpeed
        scale == IF asked.arg > 0 THEN config.maxPwm - GetMinPositivePwm
                                  ELSE GetMaxNegativePwm - config.minPwm
    IN 2 * Distance(speed[1], speed[2], asked.arg) * scale <= Unit * speed[2]

PositionReadBack ==
  asked # NoScaling /\ asked.position =>
    LET pos == GetPWMPosition
        scale == config.maxPwm - config.minPwm
    IN Distance(pos[1], pos[2], asked.arg) * scale < Unit * pos[2]

\* With a valid configuration HAL_GetPWMSpeed gives back the speed that was set to within
\* half a step of the output, on both sides, with the deadband and without; and
\* HAL_GetPWMPosition gives back the position that was set to within a step.
ReadBack == Valid(config) => SpeedReadBack /\ PositionReadBack
=============================================================================
