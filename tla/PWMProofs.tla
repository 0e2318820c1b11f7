------------------------------ MODULE PWMProofs ------------------------------
(***************************************************************************)
(* The properties of PWM, for any range of speeds and any configurations.  *)
(***************************************************************************)
EXTENDS PWM, TLAPS

\* Every field that is there or pending is one of some configuration.
ConfigInv ==
  /\ config \in [Fields -> Int] /\ eliminateDeadband \in BOOLEAN
  /\ \A f \in Fields : \E c \in Configs : config[f] = c[f]
  /\ DOMAIN pending \subseteq Fields
  /\ \A f \in DOMAIN pending : \E c \in Configs : pending[f] = c[f]

\* A call of HAL_SetPWMSpeed or HAL_SetPWMPosition.
IsCall(c) ==
  /\ c.position \in BOOLEAN
  /\ c.arg \in -Unit .. Unit /\ (c.position => c.arg >= 0)
  /\ c.reads = IF c.position THEN PositionReads ELSE SpeedReads(c.arg)

\* What a read gives, whatever is configured meanwhile.
ReadFrom(name, v) ==
  /\ v \in Int
  /\ name = "max" => \E c \in Configs : v = c.maxPwm
  /\ name = "min" => \E c \in Configs : v = c.minPwm

CallInv ==
  /\ call = NoScaling => got = Empty /\ stable = FALSE
  /\ call # NoScaling => IsCall(call)
  /\ DOMAIN got \subseteq DOMAIN call.reads
  /\ \A k \in DOMAIN got : ReadFrom(call.reads[k], got[k])

\* A call that saw no change has read the one configuration there is.
StableInv ==
  /\ stable \in BOOLEAN
  /\ stable => pending = Empty /\ \A k \in DOMAIN got : got[k] = ReadOf[call.reads[k]]

\* What a call writes that sees no change.
RawOf(c) ==
  IF c.position
    THEN Truncate(c.arg * (config.maxPwm - config.minPwm) + Unit * config.minPwm, Unit)
  ELSE IF c.arg = 0 THEN config.centerPwm
  ELSE IF c.arg > 0 THEN Round(c.arg, config.maxPwm - GetMinPositivePwm, GetMinPositivePwm)
  ELSE Round(c.arg, GetMaxNegativePwm - config.minPwm, GetMaxNegativePwm)

AskedInv == asked # NoScaling => IsCall(asked) /\ (Valid(config) => value = RawOf(asked))

IInv ==
  /\ ConfigInv /\ CallInv /\ StableInv /\ AskedInv
  /\ value \in Nat /\ value <= 65535

-----------------------------------------------------------------------------
(* Arithmetic *)

LEMMA UnitIs == Unit \in Nat \ {0}
BY PWMAssumption

LEMMA TruncateIs ==
  ASSUME NEW n \in Int, NEW d \in Nat \ {0}
  PROVE  /\ Truncate(n, d) \in Int
         /\ n >= 0 => /\ Truncate(n, d) >= 0
                     /\ d * Truncate(n, d) <= n /\ n < d * Truncate(n, d) + d
<1>1. CASE n >= 0
  <2>1. n \div d \in Nat /\ d * (n \div d) <= n /\ n < d * (n \div d) + d
    BY <1>1
  <2> QED BY <1>1, <2>1 DEF Truncate
<1>2. CASE n < 0
  <2>1. -n \in Nat /\ ~(n >= 0)
    BY <1>2
  <2>2. (-n) \div d \in Int
    BY <2>1
  <2> QED BY <2>1, <2>2 DEF Truncate
<1> QED BY <1>1, <1>2

LEMMA ScaledIs ==
  ASSUME NEW arg \in -Unit .. Unit, NEW scale \in Nat
  PROVE  /\ arg * scale \in Int
         /\ arg >= 0 => 0 <= arg * scale /\ arg * scale <= Unit * scale
         /\ arg <= 0 => -(Unit * scale) <= arg * scale /\ arg * scale <= 0
BY UnitIs

\* Factors are compared like their products with Unit, rounded or not.
LEMMA CompareScaled ==
  ASSUME NEW r \in Int, NEW b \in Int
  PROVE  /\ Unit * r < Unit * b + Unit => r <= b
         /\ Unit * r + Unit > Unit * b => r >= b
<1>1. ASSUME r >= b + 1 PROVE Unit * r >= Unit * b + Unit
  BY <1>1, UnitIs
<1>2. ASSUME r + 1 <= b PROVE Unit * r + Unit <= Unit * b
  BY <1>2, UnitIs
<1> QED
  <2>1. Unit * r \in Int /\ Unit * b \in Int
    BY UnitIs
  <2> QED BY <1>1, <1>2, <2>1, UnitIs

\* Rounding is exact to half a step, ...
LEMMA RoundIs ==
  ASSUME NEW arg \in Int, NEW scale \in Int, NEW base \in Int,
         arg * scale + Unit * base >= 0
  PROVE  LET r == Round(arg, scale, base)
         IN  /\ r \in Nat
             /\ 2 * (Unit * r) <= 2 * (arg * scale) + 2 * (Unit * base) + Unit
             /\ 2 * (arg * scale) + 2 * (Unit * base) + Unit < 2 * (Unit * r) + 2 * Unit
<1> DEFINE m == arg * scale + Unit * base
           n == 2 * m + Unit
           d == 2 * Unit
           r == Round(arg, scale, base)
<1>1. arg * scale \in Int /\ Unit * base \in Int /\ m \in Int /\ n \in Nat /\ d \in Nat \ {0}
  BY UnitIs
<1>2. r = Truncate(n, d)
  BY DEF Round
<1>3. r \in Nat /\ d * r <= n /\ n < d * r + d
  <2> HIDE DEF n, d, r
  <2>1. n \in Int /\ n >= 0
    BY <1>1
  <2> QED BY <1>1, <1>2, <2>1, TruncateIs
<1>4. (2 * Unit) * r = 2 * (Unit * r) /\ Unit * r \in Int
  BY <1>3, UnitIs
<1> QED BY <1>1, <1>3, <1>4

\* ... and stays between the ends.
LEMMA RoundStays ==
  ASSUME NEW arg \in -Unit .. Unit, NEW low \in Nat, NEW high \in Nat, low <= high
  PROVE  /\ arg >= 0 => LET r == Round(arg, high - low, low) IN low <= r /\ r <= high
         /\ arg <= 0 => LET r == Round(arg, high - low, high) IN low <= r /\ r <= high
<1> DEFINE scale == high - low
<1>1. scale \in Nat /\ arg \in Int /\ high = low + scale
  OBVIOUS
<1>2. Unit * high = Unit * low + Unit * scale /\ Unit * low \in Nat /\ Unit * scale \in Nat
  BY <1>1, UnitIs
<1> HIDE DEF scale
<1>3. ASSUME arg >= 0 PROVE low <= Round(arg, scale, low) /\ Round(arg, scale, low) <= high
  <2> DEFINE r == Round(arg, scale, low)
  <2>1. arg * scale >= 0 /\ arg * scale <= Unit * scale /\ arg * scale \in Int
    BY <1>1, <1>3, ScaledIs
  <2>2. /\ r \in Nat
        /\ 2 * (Unit * r) <= 2 * (arg * scale) + 2 * (Unit * low) + Unit
        /\ 2 * (arg * scale) + 2 * (Unit * low) + Unit < 2 * (Unit * r) + 2 * Unit
    <3>1. arg * scale + Unit * low >= 0 /\ scale \in Int /\ arg \in Int /\ low \in Int
      BY <1>1, <1>2, <2>1
    <3> QED BY <3>1, RoundIs, Zenon
  <2> HIDE DEF r
  <2>3. Unit * r \in Int
    BY <2>2, UnitIs
  <2>4. Unit * r < Unit * high + Unit /\ Unit * r + Unit > Unit * low
    BY <1>2, <2>1, <2>2, <2>3, UnitIs
  <2>5. low <= r /\ r <= high
    BY <2>2, <2>4, CompareScaled
  <2> QED BY <2>5 DEF r
<1>4. ASSUME arg <= 0 PROVE low <= Round(arg, scale, high) /\ Round(arg, scale, high) <= high
  <2> DEFINE r == Round(arg, scale, high)
  <2>1. arg * scale <= 0 /\ -(Unit * scale) <= arg * scale /\ arg * scale \in Int
    BY <1>1, <1>4, ScaledIs
  <2>2. /\ r \in Nat
        /\ 2 * (Unit * r) <= 2 * (arg * scale) + 2 * (Unit * high) + Unit
        /\ 2 * (arg * scale) + 2 * (Unit * high) + Unit < 2 * (Unit * r) + 2 * Unit
    <3>1. arg * scale + Unit * high >= 0 /\ scale \in Int /\ arg \in Int /\ high \in Int
      BY <1>1, <1>2, <2>1
    <3> QED BY <3>1, RoundIs, Zenon
  <2> HIDE DEF r
  <2>3. Unit * r \in Int /\ Unit * high \in Int
    BY <2>2, UnitIs
  <2>4. Unit * r < Unit * high + Unit /\ Unit * r + Unit > Unit * low
    BY <1>2, <2>1, <2>2, <2>3, UnitIs
  <2>5. low <= r /\ r <= high
    BY <2>2, <2>4, CompareScaled
  <2> QED BY <2>5 DEF r
<1> QED BY <1>3, <1>4 DEF scale

-----------------------------------------------------------------------------
(* The configurations *)

LEMMA ConfigsAre ==
  /\ Default \in Configs /\ Raws \subseteq Configs
  /\ \A t \in Times : Converted(t) \in Configs
  /\ \A c \in Configs : c \in [Fields -> Int]
<1>1. ASSUME NEW us \in Int PROVE StepOf(us) \in Int
  BY DEF StepOf
<1>2. \A t \in [Fields -> Nat] : Converted(t) \in [Fields -> Int]
  BY <1>1 DEF Converted
<1>3. DefaultTimes \in [Fields -> Nat]
  BY DEF DefaultTimes, Fields
<1> QED BY <1>2, <1>3, PWMAssumption DEF Configs, Default

LEMMA FieldNames == /\ "maxPwm" \in Fields /\ "minPwm" \in Fields /\ "centerPwm" \in Fields
                    /\ "deadbandMaxPwm" \in Fields /\ "deadbandMinPwm" \in Fields
BY DEF Fields

\* Any field that is there is one of some configuration.
LEMMA FieldsAre ==
  ASSUME ConfigInv
  PROVE  /\ config.maxPwm \in Int /\ \E c \in Configs : config.maxPwm = c.maxPwm
         /\ config.minPwm \in Int /\ \E c \in Configs : config.minPwm = c.minPwm
         /\ config.centerPwm \in Int
         /\ GetMinPositivePwm \in Int /\ GetMaxNegativePwm \in Int
<1>1. \A f \in Fields : config[f] \in Int
  BY DEF ConfigInv
<1>2. GetMinPositivePwm \in Int /\ GetMaxNegativePwm \in Int
  BY <1>1, FieldNames DEF GetMinPositivePwm, GetMaxNegativePwm, ConfigInv
<1> QED BY <1>1, <1>2, FieldNames DEF ConfigInv

\* In a valid configuration the neutral zone lies between the ends.
LEMMA ValidIs ==
  ASSUME ConfigInv, Valid(config)
  PROVE  /\ config.minPwm \in Nat /\ config.maxPwm \in Nat /\ config.centerPwm \in Nat
         /\ GetMinPositivePwm \in Nat /\ GetMaxNegativePwm \in Nat
         /\ config.minPwm >= 1 /\ config.maxPwm <= 65535
         /\ config.minPwm < GetMaxNegativePwm /\ GetMinPositivePwm < config.maxPwm
         /\ GetMaxNegativePwm <= config.centerPwm /\ config.centerPwm <= GetMinPositivePwm
<1>1. \A f \in Fields : config[f] \in Int
  BY DEF ConfigInv
<1> QED BY <1>1, FieldNames DEF Valid, GetMinPositivePwm, GetMaxNegativePwm

-----------------------------------------------------------------------------
(* The calls *)

LEMMA ReadsAre ==
  ASSUME NEW c, IsCall(c)
  PROVE  /\ c.arg \in -Unit .. Unit
         /\ c.position \in BOOLEAN /\ (c.position => c.arg >= 0)
         /\ DOMAIN c.reads \subseteq 1 .. 5
         /\ c.position =>
              /\ DOMAIN c.reads = 1 .. 3
              /\ c.reads[1] = "max" /\ c.reads[2] = "min" /\ c.reads[3] = "min"
         /\ ~c.position /\ c.arg = 0 =>
              /\ DOMAIN c.reads = 1 .. 3
              /\ c.reads[1] = "center" /\ c.reads[2] = "min" /\ c.reads[3] = "max"
         /\ ~c.position /\ c.arg > 0 =>
              /\ DOMAIN c.reads = 1 .. 5
              /\ c.reads[1] = "min" /\ c.reads[2] = "max" /\ c.reads[3] = "max"
              /\ c.reads[4] = "minPositive" /\ c.reads[5] = "minPositive"
         /\ ~c.position /\ c.arg < 0 =>
              /\ DOMAIN c.reads = 1 .. 5
              /\ c.reads[1] = "min" /\ c.reads[2] = "max" /\ c.reads[3] = "maxNegative"
              /\ c.reads[4] = "min" /\ c.reads[5] = "maxNegative"
         /\ \A k \in DOMAIN c.reads :
              c.reads[k] \in {"max", "min", "center", "minPositive", "maxNegative"}
<1>1. CASE c.position
  BY <1>1, UnitIs DEF IsCall, PositionReads
<1>2. CASE ~c.position /\ c.arg = 0
  <2>1. c.reads = <<"center", "min", "max">>
    BY <1>2 DEF IsCall, SpeedReads
  <2> QED BY <1>2, <2>1, UnitIs DEF IsCall
<1>3. CASE ~c.position /\ c.arg > 0
  <2>1. c.reads = <<"min", "max", "max", "minPositive", "minPositive">>
    <3>1. c.arg # 0
      BY <1>3
    <3> QED BY <1>3, <3>1, UnitIs DEF IsCall, SpeedReads
  <2> QED BY <1>3, <2>1, UnitIs DEF IsCall
<1>4. CASE ~c.position /\ c.arg < 0
  <2>1. c.reads = <<"min", "max", "maxNegative", "min", "maxNegative">>
    <3>1. c.arg # 0 /\ ~(c.arg > 0)
      BY <1>4, UnitIs DEF IsCall
    <3> QED BY <1>4, <3>1 DEF IsCall, SpeedReads
  <2> QED BY <1>4, <2>1, UnitIs DEF IsCall
<1> QED BY <1>1, <1>2, <1>3, <1>4, UnitIs DEF IsCall

LEMMA NoCallIs == ~IsCall(NoScaling)
<1>1. DOMAIN NoScaling.reads = {}
  BY DEF NoScaling
<1> SUFFICES ASSUME IsCall(NoScaling) PROVE FALSE
  OBVIOUS
<1>2. 1 \in DOMAIN NoScaling.reads
  BY ReadsAre, UnitIs
<1> QED BY <1>1, <1>2

\* What is read is an integer, the ends of the range are those of configurations.
LEMMA ReadOfIs ==
  ASSUME ConfigInv, NEW c, IsCall(c), NEW k \in DOMAIN c.reads
  PROVE  ReadFrom(c.reads[k], ReadOf[c.reads[k]])
<1>1. c.reads[k] \in {"max", "min", "center", "minPositive", "maxNegative"}
  BY ReadsAre
<1>2. /\ ReadOf["max"] = config.maxPwm /\ ReadOf["min"] = config.minPwm
      /\ ReadOf["center"] = config.centerPwm /\ ReadOf["minPositive"] = GetMinPositivePwm
      /\ ReadOf["maxNegative"] = GetMaxNegativePwm
  BY DEF ReadOf
<1> HIDE DEF ReadOf
<1> QED BY <1>1, <1>2, FieldsAre DEF ReadFrom

\* A call that saw no change computes from the configuration.
LEMMA StableComputes ==
  ASSUME ConfigInv, CallInv, StableInv, stable, call # NoScaling, DOMAIN got = DOMAIN call.reads
  PROVE  /\ call.position => PositionRaw = RawOf(call)
         /\ ~call.position => SpeedRaw = RawOf(call)
         /\ ~call.position /\ call.arg = 0 => got[2] = config.minPwm /\ got[3] = config.maxPwm
         /\ ~call.position /\ call.arg # 0 => got[1] = config.minPwm /\ got[2] = config.maxPwm
<1>a. IsCall(call)
  BY DEF CallInv
<1>b. \A k \in DOMAIN got : got[k] = ReadOf[call.reads[k]]
  BY Zenon DEF StableInv
<1>1. IsCall(call) /\ \A k \in DOMAIN call.reads : got[k] = ReadOf[call.reads[k]]
  BY <1>a, <1>b
<1>2. /\ ReadOf["max"] = config.maxPwm /\ ReadOf["min"] = config.minPwm
      /\ ReadOf["center"] = config.centerPwm /\ ReadOf["minPositive"] = GetMinPositivePwm
      /\ ReadOf["maxNegative"] = GetMaxNegativePwm
  BY DEF ReadOf
<1> HIDE DEF ReadOf
<1>3. CASE call.position
  <2>1. got[1] = config.maxPwm /\ got[2] = config.minPwm /\ got[3] = config.minPwm
    BY <1>1, <1>2, <1>3, ReadsAre
  <2> QED BY <1>3, <2>1 DEF PositionRaw, RawOf
<1>4. CASE ~call.position /\ call.arg = 0
  <2>1. got[1] = config.centerPwm /\ got[2] = config.minPwm /\ got[3] = config.maxPwm
    BY <1>1, <1>2, <1>4, ReadsAre
  <2> QED BY <1>4, <2>1 DEF SpeedRaw, RawOf
<1>5. CASE ~call.position /\ call.arg > 0
  <2>1. /\ got[1] = config.minPwm /\ got[2] = config.maxPwm /\ got[3] = config.maxPwm
        /\ got[4] = GetMinPositivePwm /\ got[5] = GetMinPositivePwm
    BY <1>1, <1>2, <1>5, ReadsAre
  <2>2. call.arg # 0
    BY <1>5
  <2> QED BY <1>5, <2>1, <2>2 DEF SpeedRaw, RawOf
<1>6. CASE ~call.position /\ call.arg < 0
  <2>1. /\ got[1] = config.minPwm /\ got[2] = config.maxPwm /\ got[3] = GetMaxNegativePwm
        /\ got[4] = config.minPwm /\ got[5] = GetMaxNegativePwm
    BY <1>1, <1>2, <1>6, ReadsAre
  <2>2. call.arg # 0 /\ ~(call.arg > 0)
    BY <1>1, <1>6, ReadsAre, UnitIs
  <2> QED BY <1>6, <2>1, <2>2 DEF SpeedRaw, RawOf
<1> QED BY <1>1, <1>3, <1>4, <1>5, <1>6, ReadsAre, UnitIs

\* What a call computes without a change stays between the ends, so it is accepted.
LEMMA RawOfStays ==
  ASSUME ConfigInv, Valid(config), NEW c, IsCall(c)
  PROVE  /\ RawOf(c) \in Int
         /\ config.minPwm <= RawOf(c) /\ RawOf(c) <= config.maxPwm
<1> DEFINE low == config.minPwm
           high == config.maxPwm
           negative == GetMaxNegativePwm
           positive == GetMinPositivePwm
<1>1. /\ low \in Nat /\ high \in Nat /\ negative \in Nat /\ positive \in Nat
      /\ config.centerPwm \in Nat
      /\ low <= negative /\ positive <= high /\ low <= high
      /\ low <= config.centerPwm /\ config.centerPwm <= high
      /\ negative <= high /\ low <= positive
  BY ValidIs
<1> HIDE DEF low, high, negative, positive
<1>2. c.arg \in -Unit .. Unit /\ c.arg \in Int /\ (c.position => c.arg >= 0) /\ c.position \in BOOLEAN
  BY ReadsAre, UnitIs
<1>3. CASE c.position
  <2> DEFINE scale == high - low
             n == c.arg * scale + Unit * low
             r == Truncate(n, Unit)
  <2>1. scale \in Nat /\ high = low + scale
    BY <1>1
  <2>2. /\ c.arg * scale \in Int /\ c.arg * scale >= 0 /\ c.arg * scale <= Unit * scale
        /\ Unit * low \in Nat /\ Unit * high = Unit * low + Unit * scale /\ Unit * scale \in Nat
    <3> HIDE DEF scale
    <3> QED BY <1>1, <1>2, <1>3, <2>1, ScaledIs, UnitIs
  <2>3. n \in Int /\ n >= 0 /\ n >= Unit * low /\ n <= Unit * high
    BY <2>2
  <2>4. r \in Int /\ Unit * r <= n /\ n < Unit * r + Unit
    <3> HIDE DEF n
    <3> QED BY <2>3, TruncateIs, UnitIs
  <2>5. RawOf(c) = r
    BY <1>3 DEF RawOf, low, high
  <2> HIDE DEF n, r, scale
  <2>6. Unit * r < Unit * high + Unit /\ Unit * r + Unit > Unit * low
    <3>1. Unit * r \in Int /\ Unit * high \in Int /\ Unit * low \in Int
      BY <1>1, <2>4, UnitIs
    <3> QED BY <2>3, <2>4, <3>1, UnitIs
  <2>7. low <= r /\ r <= high
    BY <1>1, <2>4, <2>6, CompareScaled
  <2> QED BY <2>4, <2>5, <2>7 DEF low, high
<1>4. CASE ~c.position /\ c.arg = 0
  BY <1>1, <1>4 DEF RawOf, low, high
<1>5. CASE ~c.position /\ c.arg > 0
  <2>1. RawOf(c) = Round(c.arg, high - positive, positive)
    <3>1. c.arg # 0
      BY <1>5
    <3> QED BY <1>5, <3>1 DEF RawOf, high, positive
  <2>2. positive <= RawOf(c) /\ RawOf(c) <= high
    BY <1>1, <1>2, <1>5, <2>1, RoundStays
  <2>3. RawOf(c) \in Int
    <3>1. high - positive \in Nat /\ positive \in Int /\ high - positive \in Int
      BY <1>1
    <3>2. c.arg * (high - positive) + Unit * positive >= 0
      <4>1. c.arg * (high - positive) >= 0 /\ c.arg * (high - positive) \in Int
        BY <1>2, <1>5, <3>1, ScaledIs
      <4>2. Unit * positive \in Nat
        BY <1>1, UnitIs
      <4> QED BY <4>1, <4>2
    <3> QED BY <1>2, <2>1, <3>1, <3>2, RoundIs
  <2> QED BY <1>1, <2>2, <2>3 DEF low, high
<1>6. CASE ~c.position /\ c.arg < 0
  <2>1. RawOf(c) = Round(c.arg, negative - low, negative)
    <3>1. c.arg # 0 /\ ~(c.arg > 0)
      BY <1>2, <1>6
    <3> QED BY <1>6, <3>1 DEF RawOf, low, negative
  <2>2. low <= RawOf(c) /\ RawOf(c) <= negative
    BY <1>1, <1>2, <1>6, <2>1, RoundStays
  <2>3. RawOf(c) \in Int
    <3>1. negative - low \in Nat /\ negative \in Int /\ negative - low \in Int
      BY <1>1
    <3>2. c.arg * (negative - low) + Unit * negative >= 0
      <4>1. c.arg * (negative - low) >= -(Unit * (negative - low)) /\ c.arg * (negative - low) \in Int
        BY <1>2, <1>6, <3>1, ScaledIs
      <4>2. Unit * (negative - low) = Unit * negative - Unit * low /\ Unit * low \in Nat /\ Unit * negative \in Nat
        BY <1>1, UnitIs
      <4> QED BY <4>1, <4>2
    <3> QED BY <1>2, <2>1, <3>1, <3>2, RoundIs
  <2> QED BY <1>1, <2>2, <2>3 DEF low, high
<1> QED BY <1>2, <1>3, <1>4, <1>5, <1>6

-----------------------------------------------------------------------------
(* The invariant *)

LEMMA InitEstablishes == PWMInit => IInv
<1> SUFFICES ASSUME PWMInit PROVE IInv
  OBVIOUS
<1>1. config = Default /\ DOMAIN pending = {} /\ DOMAIN got = {} /\ DOMAIN call.reads = {}
  BY DEF PWMInit, Empty, NoScaling
<1>2. ConfigInv
  BY <1>1, ConfigsAre DEF PWMInit, ConfigInv
<1>3. CallInv
  BY <1>1 DEF PWMInit, CallInv
<1>4. StableInv /\ AskedInv
  BY DEF PWMInit, StableInv, AskedInv
<1> QED BY <1>2, <1>3, <1>4 DEF PWMInit, IInv, kPwmDisabled

\* A change of the port spoils the call and what was asked: the rest is to see that the
\* fields are still those of configurations.
LEMMA SpoilStep ==
  ASSUME IInv, ConfigInv', Spoil, UNCHANGED <<call, got, value>>
  PROVE  IInv'
<1>1. CallInv'
  BY DEF IInv, CallInv, Spoil, IsCall
<1>2. StableInv' /\ AskedInv'
  BY DEF Spoil, StableInv, AskedInv
<1> QED BY <1>1, <1>2 DEF IInv

LEMMA ConfigureStep ==
  ASSUME IInv, NEW c \in Configs, Reconfigure(c)
  PROVE  IInv'
<1>1. pending' = c /\ config' = config /\ eliminateDeadband' = eliminateDeadband
  BY DEF Reconfigure
<1>2. DOMAIN pending' = Fields
  BY <1>1, ConfigsAre
<1>3. ConfigInv'
  BY <1>1, <1>2 DEF IInv, ConfigInv
<1> QED BY <1>3, SpoilStep DEF Reconfigure

LEMMA ConfigStep ==
  ASSUME IInv, \/ SetPWMConfig \/ SetPWMConfigRaw \/ SetPWMEliminateDeadband
               \/ \E f \in Fields : WriteField(f)
  PROVE  IInv'
<1>1. ASSUME NEW t \in Times, Reconfigure(Converted(t)) PROVE IInv'
  BY <1>1, ConfigureStep, ConfigsAre
<1>4. ASSUME NEW c \in Raws, Reconfigure(c) PROVE IInv'
  BY <1>4, ConfigureStep, ConfigsAre
<1>2. ASSUME NEW f \in Fields, WriteField(f) PROVE IInv'
  <2>1. /\ f \in DOMAIN pending /\ config' = [config EXCEPT ![f] = pending[f]]
        /\ pending' = Restrict(pending, DOMAIN pending \ {f})
        /\ eliminateDeadband' = eliminateDeadband
    BY <1>2 DEF WriteField
  <2>2. /\ DOMAIN pending' = DOMAIN pending \ {f}
        /\ \A g \in DOMAIN pending \ {f} : pending'[g] = pending[g]
    BY <2>1 DEF Restrict
  <2>3. PICK c \in Configs : pending[f] = c[f]
    BY <2>1 DEF IInv, ConfigInv
  <2>4. pending[f] \in Int
    BY <2>3, ConfigsAre
  <2>5. /\ config' \in [Fields -> Int] /\ config'[f] = pending[f]
        /\ \A g \in Fields \ {f} : config'[g] = config[g]
    BY <2>1, <2>4 DEF IInv, ConfigInv
  <2>6. \A g \in Fields : \E d \in Configs : config'[g] = d[g]
    BY <2>3, <2>5 DEF IInv, ConfigInv
  <2>7. \A g \in DOMAIN pending' : \E d \in Configs : pending'[g] = d[g]
    BY <2>2 DEF IInv, ConfigInv
  <2>8. DOMAIN pending' \subseteq Fields /\ eliminateDeadband' \in BOOLEAN
    BY <2>1, <2>2 DEF IInv, ConfigInv
  <2>9. ConfigInv'
    BY <2>5, <2>6, <2>7, <2>8 DEF ConfigInv
  <2> QED BY <1>2, <2>9, SpoilStep DEF WriteField
<1>3. CASE SetPWMEliminateDeadband
  <2>1. ConfigInv'
    BY <1>3 DEF SetPWMEliminateDeadband, IInv, ConfigInv
  <2> QED BY <1>3, <2>1, SpoilStep DEF SetPWMEliminateDeadband
<1> QED BY <1>1, <1>2, <1>3, <1>4 DEF SetPWMConfig, SetPWMConfigRaw

\* The port is as it was.
LEMMA PortUnchanged ==
  ASSUME ConfigInv, UNCHANGED portState
  PROVE  /\ ConfigInv' /\ pending' = pending /\ config' = config
         /\ ReadOf' = ReadOf /\ \A c : RawOf(c)' = RawOf(c)
<1> USE DEF portState
<1>1. ConfigInv'
  BY DEF ConfigInv
<1>2. GetMinPositivePwm' = GetMinPositivePwm /\ GetMaxNegativePwm' = GetMaxNegativePwm
  BY DEF GetMinPositivePwm, GetMaxNegativePwm
<1>3. ReadOf' = ReadOf
  BY <1>2 DEF ReadOf
<1>4. ASSUME NEW c PROVE RawOf(c)' = RawOf(c)
  BY <1>2 DEF RawOf
<1> QED BY <1>1, <1>3, <1>4

LEMMA BeginStep ==
  ASSUME IInv, SetPWMSpeed \/ SetPWMPosition
  PROVE  IInv'
<1>1. /\ call = NoScaling /\ UNCHANGED <<portState, got, value, asked>>
      /\ stable' = (pending = Empty) /\ IsCall(call')
  <2>1. ASSUME NEW speed \in -Unit .. Unit, Begin(SpeedReads(speed), speed, FALSE)
        PROVE  IsCall(call')
    BY <2>1 DEF Begin, IsCall
  <2>2. ASSUME NEW pos \in 0 .. Unit, Begin(PositionReads, pos, TRUE)
        PROVE  IsCall(call')
    BY <2>2, UnitIs DEF Begin, IsCall
  <2> QED BY <2>1, <2>2 DEF SetPWMSpeed, SetPWMPosition, Begin
<1>2. DOMAIN got = {} /\ got' = got
  BY <1>1 DEF IInv, CallInv, Empty
<1>3. ConfigInv' /\ pending' = pending
  BY <1>1, PortUnchanged DEF IInv
<1>4. CallInv'
  BY <1>1, <1>2, NoCallIs DEF CallInv
<1>5. StableInv'
  BY <1>1, <1>2, <1>3 DEF StableInv
<1>6. AskedInv'
  BY <1>1, <1>3, PortUnchanged DEF IInv, AskedInv
<1> QED BY <1>1, <1>3, <1>4, <1>5, <1>6 DEF IInv

LEMMA ReadStep ==
  ASSUME IInv, NEW k \in 1 .. 5, Read(k)
  PROVE  IInv'
<1>1. /\ k \in DOMAIN call.reads /\ k \notin DOMAIN got
      /\ UNCHANGED <<portState, call, value, stable, asked>>
      /\ DOMAIN got' = DOMAIN got \cup {k} /\ got'[k] = ReadOf[call.reads[k]]
      /\ \A j \in DOMAIN got : got'[j] = got[j]
  BY DEF Read
<1>2. call # NoScaling /\ IsCall(call)
  <2>1. DOMAIN NoScaling.reads = {}
    BY DEF NoScaling
  <2> QED BY <1>1, <2>1 DEF IInv, CallInv
<1>3. ConfigInv' /\ pending' = pending /\ ReadOf' = ReadOf
  BY <1>1, PortUnchanged DEF IInv
<1>4. CallInv'
  <2>1. ReadFrom(call.reads[k], got'[k])
    BY <1>1, <1>2, ReadOfIs DEF IInv
  <2>2. \A j \in DOMAIN got' : ReadFrom(call.reads[j], got'[j])
    BY <1>1, <2>1 DEF IInv, CallInv
  <2> QED BY <1>1, <1>2, <2>2 DEF IInv, CallInv, IsCall, ReadFrom
<1>5. StableInv'
  BY <1>1, <1>3 DEF IInv, StableInv
<1>6. AskedInv'
  BY <1>1, <1>3, PortUnchanged DEF IInv, AskedInv
<1> QED BY <1>1, <1>3, <1>4, <1>5, <1>6 DEF IInv

\* A stable call is accepted; any call that is accepted writes what it computed.
LEMMA StableAccepted ==
  ASSUME IInv, Valid(config), stable, call # NoScaling, DOMAIN got = DOMAIN call.reads
  PROVE  /\ Accepted
         /\ (IF call.position THEN PositionRaw ELSE SpeedRaw) = RawOf(call)
<1>1. ConfigInv /\ CallInv /\ StableInv /\ IsCall(call)
  BY DEF IInv, CallInv
<1>2. /\ RawOf(call) \in Int
      /\ config.minPwm <= RawOf(call) /\ RawOf(call) <= config.maxPwm
  BY <1>1, RawOfStays
<1>3. config.minPwm >= 1 /\ config.minPwm \in Nat
  BY <1>1, ValidIs
<1>4. RawOf(call) # kPwmDisabled
  BY <1>2, <1>3 DEF kPwmDisabled
<1> HIDE DEF RawOf
<1>5. CASE call.position
  BY <1>1, <1>4, <1>5, StableComputes DEF Accepted
<1>6. CASE ~call.position
  <2>1. SpeedRaw = RawOf(call)
    BY <1>1, <1>6, StableComputes
  <2>2. SpeedAccepted
    BY <1>1, <1>2, <1>4, <1>6, <2>1, StableComputes DEF SpeedAccepted, InRange
  <2> QED BY <1>6, <2>1, <2>2 DEF Accepted
<1> QED BY <1>1, <1>5, <1>6, ReadsAre

\* Every value that is computed is an integer.
LEMMA RawIsInt ==
  ASSUME CallInv, call # NoScaling, DOMAIN got = DOMAIN call.reads
  PROVE  (IF call.position THEN PositionRaw ELSE SpeedRaw) \in Int
<1>1. IsCall(call) /\ \A k \in DOMAIN call.reads : got[k] \in Int
  BY DEF CallInv, ReadFrom
<1>2. call.arg \in Int
  BY <1>1, ReadsAre, UnitIs
<1>3. CASE call.position
  <2>1. got[1] \in Int /\ got[2] \in Int /\ got[3] \in Int
    BY <1>1, <1>3, ReadsAre
  <2>2. call.arg * (got[1] - got[2]) + Unit * got[3] \in Int
    BY <1>2, <2>1, UnitIs
  <2> QED BY <1>3, <2>2, TruncateIs, UnitIs DEF PositionRaw
<1>4. CASE ~call.position /\ call.arg = 0
  BY <1>1, <1>4, ReadsAre DEF SpeedRaw
<1>5. CASE ~call.position /\ call.arg # 0
  <2>1. got[3] \in Int /\ got[4] \in Int /\ got[5] \in Int
    BY <1>1, <1>2, <1>5, ReadsAre
  <2> DEFINE n == 2 * (call.arg * (got[3] - got[4]) + Unit * got[5]) + Unit
             d == 2 * Unit
  <2>2. n \in Int /\ d \in Nat \ {0}
    BY <1>2, <2>1, UnitIs
  <2>3. SpeedRaw = Truncate(n, d)
    BY <1>5 DEF SpeedRaw, Round
  <2> HIDE DEF n, d
  <2> QED BY <1>5, <2>2, <2>3, TruncateIs
<1> QED BY <1>1, <1>3, <1>4, <1>5, ReadsAre

LEMMA FinishStep ==
  ASSUME IInv, Finish
  PROVE  IInv'
<1>1. /\ call # NoScaling /\ DOMAIN got = DOMAIN call.reads
      /\ asked' = (IF stable THEN call ELSE NoScaling)
      /\ call' = NoScaling /\ got' = Empty /\ stable' = FALSE /\ UNCHANGED portState
  BY DEF Finish
<1>2. ConfigInv' /\ pending' = pending
  BY <1>1, PortUnchanged DEF IInv
<1>3. CallInv'
  BY <1>1 DEF CallInv, Empty, NoScaling
<1>4. StableInv'
  BY <1>1 DEF StableInv
<1> DEFINE raw == IF call.position THEN PositionRaw ELSE SpeedRaw
<1>5. raw \in Int
  BY <1>1, RawIsInt DEF IInv
<1>6. SetPWMRaw(raw)
  BY DEF Finish
<1>7. value' \in Nat /\ value' <= 65535 /\ (0 <= raw /\ raw <= 65535 => value' = raw)
  <2> HIDE DEF raw
  <2> QED BY <1>5, <1>6 DEF SetPWMRaw, Clamp
<1>8. AskedInv'
  <2>a. IsCall(call)
    BY <1>1 DEF IInv, CallInv
  <2>b. config' = config
    BY <1>1 DEF portState
  <2>c. \A c : RawOf(c)' = RawOf(c)
    BY <1>1, PortUnchanged DEF IInv
  <2> SUFFICES ASSUME stable, Valid(config) PROVE value' = RawOf(call)
    <3>1. CASE ~stable
      BY <1>1, <3>1 DEF AskedInv
    <3>2. CASE stable
      <4>1. asked' = call
        BY <1>1, <3>2
      <4>2. Valid(config)' => Valid(config)
        BY <2>b DEF Valid
      <4>3. IsCall(call) => IsCall(asked')
        BY <4>1
      <4> QED BY <2>a, <2>c, <3>2, <4>1, <4>2, <4>3 DEF AskedInv, IsCall
    <3> QED BY <3>1, <3>2
  <2>1. ConfigInv /\ IsCall(call)
    BY <2>a DEF IInv
  <2>2. raw = RawOf(call)
    BY <1>1, StableAccepted
  <2>3. 0 <= raw /\ raw <= 65535
    <3> HIDE DEF raw
    <3>1. config.minPwm >= 1 /\ config.minPwm \in Nat /\ config.maxPwm <= 65535 /\ config.maxPwm \in Nat
      BY <2>1, ValidIs
    <3>2. config.minPwm <= raw /\ raw <= config.maxPwm
      BY <2>1, <2>2, RawOfStays
    <3> QED BY <1>5, <3>1, <3>2
  <2>5. value' = RawOf(call)
    BY <1>7, <2>2, <2>3
  <2> QED BY <2>5
<1> QED BY <1>2, <1>3, <1>4, <1>7, <1>8 DEF IInv

LEMMA ScaleErrorStep ==
  ASSUME IInv, ScaleError
  PROVE  IInv'
<1>1. /\ call' = NoScaling /\ got' = Empty /\ stable' = FALSE
      /\ UNCHANGED <<portState, value, asked>>
  BY DEF ScaleError
<1>2. ConfigInv' /\ pending' = pending
  BY <1>1, PortUnchanged DEF IInv
<1>3. CallInv'
  BY <1>1 DEF CallInv, Empty, NoScaling
<1>4. StableInv'
  BY <1>1 DEF StableInv
<1>5. AskedInv'
  BY <1>1, <1>2, PortUnchanged DEF IInv, AskedInv
<1> QED BY <1>1, <1>2, <1>3, <1>4, <1>5 DEF IInv

LEMMA StepKeeps == IInv /\ [PWMNext]_pwmVars => IInv'
<1> SUFFICES ASSUME IInv, [PWMNext]_pwmVars PROVE IInv'
  OBVIOUS
<1>1. CASE UNCHANGED pwmVars
  <2>1. ConfigInv' /\ pending' = pending /\ ReadOf' = ReadOf /\ \A c : RawOf(c)' = RawOf(c)
    BY <1>1, PortUnchanged DEF pwmVars, IInv
  <2>2. CallInv' /\ StableInv'
    BY <1>1, <2>1 DEF pwmVars, IInv, CallInv, StableInv, IsCall
  <2>3. AskedInv'
    BY <1>1, <2>1, PortUnchanged DEF pwmVars, portState, IInv, AskedInv, IsCall
  <2> QED BY <1>1, <2>1, <2>2, <2>3 DEF pwmVars, IInv
<1>2. CASE PWMNext
  BY <1>2, ConfigStep, BeginStep, ReadStep, FinishStep, ScaleErrorStep DEF PWMNext
<1> QED BY <1>1, <1>2

\* In every state of PWM the invariant holds.
THEOREM Invariance == PWMSpec => []IInv
<1> QED BY InitEstablishes, StepKeeps, PTL DEF PWMSpec

-----------------------------------------------------------------------------
(* The properties *)

\* WithinConfigured: a speed that is scaled while the limits change is still checked
\* against a lower end and an upper end that were configured, and clamped like them, whatever
\* HAL_SetPWMConfigRaw was given.
THEOREM OutputsStayWithin == PWMSpec => WithinConfigured
<1> DEFINE A == value' # value /\ ~call.position =>
                  \E c, d \in Configs : Clamp(c.minPwm) <= value' /\ value' <= Clamp(d.maxPwm)
<1>1. ASSUME IInv, Finish, ~call.position
      PROVE  \E c, d \in Configs : Clamp(c.minPwm) <= value' /\ value' <= Clamp(d.maxPwm)
  <2>1. /\ call # NoScaling /\ DOMAIN got = DOMAIN call.reads /\ CallInv /\ IsCall(call)
        /\ SpeedAccepted /\ SetPWMRaw(SpeedRaw)
    BY <1>1 DEF IInv, CallInv, Finish, Accepted
  <2>2. SpeedRaw \in Int
    BY <1>1, <2>1, RawIsInt
  <2>3. PICK low \in Int, high \in Int :
          /\ low <= SpeedRaw /\ SpeedRaw <= high
          /\ \E c \in Configs : low = c.minPwm
          /\ \E d \in Configs : high = d.maxPwm
    <3>1. CASE call.arg = 0
      <4>1. ReadFrom("min", got[2]) /\ ReadFrom("max", got[3])
        BY <1>1, <2>1, <3>1, ReadsAre DEF CallInv
      <4> QED BY <2>1, <3>1, <4>1 DEF ReadFrom, SpeedAccepted, InRange
    <3>2. CASE call.arg # 0
      <4>1. ReadFrom("min", got[1]) /\ ReadFrom("max", got[2])
        BY <1>1, <2>1, <3>2, ReadsAre, UnitIs DEF CallInv
      <4> QED BY <2>1, <3>2, <4>1 DEF ReadFrom, SpeedAccepted, InRange
    <3> QED BY <3>1, <3>2
  <2>4. Clamp(low) <= Clamp(SpeedRaw) /\ Clamp(SpeedRaw) <= Clamp(high)
    BY <2>2, <2>3 DEF Clamp
  <2>5. value' = Clamp(SpeedRaw)
    BY <2>1 DEF SetPWMRaw
  <2> QED BY <2>3, <2>4, <2>5
<1>2. IInv /\ [PWMNext]_pwmVars => A
  <2> SUFFICES ASSUME IInv, [PWMNext]_pwmVars, value' # value, ~call.position
               PROVE  \E c, d \in Configs : Clamp(c.minPwm) <= value' /\ value' <= Clamp(d.maxPwm)
    OBVIOUS
  <2>1. Finish
    BY DEF PWMNext, pwmVars, SetPWMConfig, SetPWMConfigRaw, Reconfigure, WriteField, SetPWMEliminateDeadband,
           SetPWMSpeed, SetPWMPosition, Begin, Read, ScaleError
  <2> QED BY <1>1, <2>1
<1> HIDE DEF A
<1>3. PWMSpec => [][A]_pwmVars
  BY Invariance, <1>2, PTL DEF PWMSpec
<1> QED BY <1>3 DEF A, WithinConfigured

\* StableNeverFails: a call that sees one valid configuration computes a value between
\* its ends, which is never refused.
THEOREM StableCallsSucceed == PWMSpec => StableNeverFails
<1> DEFINE A == stable /\ Valid(config) /\ call' # call => asked' = call
<1>1. IInv /\ [PWMNext]_pwmVars => A
  <2> SUFFICES ASSUME IInv, [PWMNext]_pwmVars, stable, Valid(config), call' # call
               PROVE  asked' = call
    OBVIOUS
  <2>1. call # NoScaling
    BY DEF IInv, CallInv
  <2>2. Finish \/ ScaleError
    BY <2>1 DEF PWMNext, pwmVars, SetPWMConfig, SetPWMConfigRaw, Reconfigure, WriteField, SetPWMEliminateDeadband,
           SetPWMSpeed, SetPWMPosition, Begin, Read
  <2>3. ~ScaleError
    BY StableAccepted DEF ScaleError
  <2> QED BY <2>2, <2>3 DEF Finish
<1> HIDE DEF A
<1>2. PWMSpec => [][A]_pwmVars
  BY Invariance, <1>1, PTL DEF PWMSpec
<1> QED BY <1>2 DEF A, StableNeverFails

\* What the value is to the configuration it was computed from, without a division.
LEMMA AskedFacts ==
  ASSUME IInv, Valid(config), asked # NoScaling
  PROVE  /\ ConfigInv /\ IsCall(asked) /\ value = RawOf(asked)
         /\ asked.arg \in -Unit .. Unit /\ asked.arg \in Int
         /\ value \in Int /\ config.minPwm <= value /\ value <= config.maxPwm
         /\ config.minPwm \in Nat /\ config.maxPwm \in Nat /\ config.centerPwm \in Nat
         /\ GetMinPositivePwm \in Nat /\ GetMaxNegativePwm \in Nat
         /\ value # kPwmDisabled
<1>1. ConfigInv /\ IsCall(asked) /\ value = RawOf(asked)
  BY DEF IInv, AskedInv
<1>2. value \in Int /\ config.minPwm <= value /\ value <= config.maxPwm
  BY <1>1, RawOfStays
<1>3. asked.arg \in -Unit .. Unit /\ asked.arg \in Int
  BY <1>1, ReadsAre, UnitIs
<1>4. value # kPwmDisabled
  BY <1>1, <1>2, ValidIs DEF kPwmDisabled
<1> QED BY <1>1, <1>2, <1>3, <1>4, ValidIs

\* A speed is given back to within half a step: the value is rounded from scale steps.
LEMMA HalfStep ==
  ASSUME NEW arg \in Int, NEW scale \in Nat \ {0}, NEW base \in Nat, NEW v \in Int,
         2 * (Unit * v) <= 2 * (arg * scale) + 2 * (Unit * base) + Unit,
         2 * (arg * scale) + 2 * (Unit * base) + Unit < 2 * (Unit * v) + 2 * Unit
  PROVE  /\ 2 * Distance(v - base, scale, arg) <= Unit
         /\ 2 * Distance(v - base, scale, arg) * scale <= Unit * scale
<1> DEFINE e == (v - base) * Unit - arg * scale
           d == Distance(v - base, scale, arg)
<1>1. arg * scale \in Int /\ Unit * v \in Int /\ Unit * base \in Int
  BY UnitIs
<1>2. (v - base) * Unit = Unit * v - Unit * base
  BY UnitIs
<1>3. e \in Int /\ e = Unit * v - Unit * base - arg * scale
  BY <1>1, <1>2
<1>4. 2 * e <= Unit /\ -(2 * e) < Unit + 1 /\ 2 * e > -Unit - 1
  <2> HIDE DEF e
  <2> QED BY <1>1, <1>3, UnitIs
<1>5. d = IF e < 0 THEN -e ELSE e
  BY DEF Distance
<1> HIDE DEF d, e
<1>6. d \in Nat /\ 2 * d <= Unit
  BY <1>3, <1>4, <1>5, UnitIs
<1>7. (2 * d) * scale <= Unit * scale
  BY <1>6, UnitIs
<1> QED BY <1>6, <1>7 DEF d

\* The same where the neutral zone was asked for: a speed of 0 comes back.
LEMMA NoStep ==
  ASSUME NEW arg \in Int, NEW scale \in Nat \ {0},
         2 * Distance(0, scale, arg) <= Unit
  PROVE  2 * Distance(0, 1, arg) * scale <= Unit * 1
<1>1. 0 * Unit = 0 /\ arg * scale \in Int /\ arg * 1 = arg
  BY UnitIs
<1>2. Distance(0, scale, arg) = (IF -(arg * scale) < 0 THEN arg * scale ELSE -(arg * scale))
  BY <1>1 DEF Distance
<1>3. Distance(0, 1, arg) = IF -arg < 0 THEN arg ELSE -arg
  BY <1>1 DEF Distance
<1>4. CASE arg > 0
  <2>1. arg * scale > 0 /\ Distance(0, 1, arg) = arg /\ Distance(0, scale, arg) = arg * scale
    BY <1>1, <1>2, <1>3, <1>4
  <2>2. 2 * arg * scale = 2 * (arg * scale)
    OBVIOUS
  <2> QED BY <2>1, <2>2, UnitIs
<1>5. CASE arg <= 0
  <2>1. -(arg * scale) >= 0 /\ Distance(0, 1, arg) = -arg /\ Distance(0, scale, arg) = -(arg * scale)
    BY <1>1, <1>2, <1>3, <1>5
  <2>2. 2 * (-arg) * scale = 2 * (-(arg * scale))
    OBVIOUS
  <2> QED BY <2>1, <2>2, UnitIs
<1> QED BY <1>4, <1>5

LEMMA SpeedsReadBack == IInv /\ Valid(config) => SpeedReadBack
<1> SUFFICES ASSUME IInv, Valid(config), asked # NoScaling, ~asked.position PROVE SpeedReadBack
  BY DEF SpeedReadBack
<1> DEFINE low == config.minPwm
           high == config.maxPwm
           negative == GetMaxNegativePwm
           positive == GetMinPositivePwm
           arg == asked.arg
<1>1. /\ arg \in -Unit .. Unit /\ arg \in Int
      /\ value \in Int /\ low <= value /\ value <= high /\ value # kPwmDisabled
      /\ low \in Nat /\ high \in Nat /\ config.centerPwm \in Nat
      /\ positive \in Nat /\ negative \in Nat
      /\ value = RawOf(asked)
  BY AskedFacts
<1>2. /\ low < negative /\ negative <= positive /\ positive < high
      /\ negative <= config.centerPwm /\ config.centerPwm <= positive
  BY AskedFacts, ValidIs
<1>3. GetPWMSpeed = IF value > positive THEN <<value - positive, high - positive>>
                    ELSE IF value < negative THEN <<value - negative, negative - low>>
                    ELSE <<0, 1>>
  BY <1>1 DEF GetPWMSpeed
<1> HIDE DEF low, high, negative, positive, arg
<1>4. CASE arg > 0
  <2> DEFINE scale == high - positive
  <2>1. scale \in Nat \ {0}
    BY <1>1, <1>2
  <2>2. value = Round(arg, scale, positive)
    <3>1. arg # 0
      BY <1>4
    <3> QED BY <1>1, <1>4, <3>1 DEF RawOf, arg, high, positive
  <2>3. positive <= value
    <3>1. positive <= high /\ arg >= 0
      BY <1>1, <1>2, <1>4
    <3> QED BY <1>1, <2>2, <3>1, RoundStays
  <2>4. /\ 2 * (Unit * value) <= 2 * (arg * scale) + 2 * (Unit * positive) + Unit
        /\ 2 * (arg * scale) + 2 * (Unit * positive) + Unit < 2 * (Unit * value) + 2 * Unit
    <3> HIDE DEF scale
    <3>1. arg * scale >= 0 /\ arg * scale \in Int /\ Unit * positive \in Nat
      BY <1>1, <1>4, <2>1, ScaledIs, UnitIs
    <3>2. arg * scale + Unit * positive >= 0 /\ scale \in Int /\ positive \in Int
      BY <1>1, <2>1, <3>1
    <3> QED BY <1>1, <2>2, <3>2, RoundIs
  <2> HIDE DEF scale
  <2>5. 2 * Distance(value - positive, scale, arg) <= Unit
        /\ 2 * Distance(value - positive, scale, arg) * scale <= Unit * scale
    BY <1>1, <2>1, <2>4, HalfStep
  <2>6. CASE value > positive
    <3>1. GetPWMSpeed = <<value - positive, scale>>
      BY <1>3, <2>6 DEF scale
    <3>2. GetPWMSpeed[1] = value - positive /\ GetPWMSpeed[2] = scale
      BY <3>1
    <3> QED BY <1>4, <2>5, <3>2 DEF SpeedReadBack, scale, arg, high, positive
  <2>7. CASE value = positive
    <3>1. GetPWMSpeed = <<0, 1>>
      <4>1. ~(value > positive) /\ ~(value < negative)
        BY <1>1, <1>2, <2>7
      <4> QED BY <1>3, <4>1
    <3>2. GetPWMSpeed[1] = 0 /\ GetPWMSpeed[2] = 1
      BY <3>1
    <3>3. value - positive = 0
      BY <1>1, <2>7
    <3>4. 2 * Distance(0, 1, arg) * scale <= Unit * 1
      BY <1>1, <2>1, <2>5, <3>3, NoStep
    <3> QED BY <1>4, <3>2, <3>4 DEF SpeedReadBack, scale, arg, high, positive
  <2> QED BY <1>1, <2>3, <2>6, <2>7
<1>5. CASE arg <= 0
  <2> DEFINE scale == negative - low
  <2>1. scale \in Nat \ {0}
    BY <1>1, <1>2
  <2>2. CASE arg = 0
    <3>1. value = config.centerPwm
      BY <1>1, <2>2 DEF RawOf, arg
    <3>2. GetPWMSpeed = <<0, 1>>
      <4>1. ~(value > positive) /\ ~(value < negative)
        BY <1>1, <1>2, <3>1
      <4> QED BY <1>3, <4>1
    <3>3. GetPWMSpeed[1] = 0 /\ GetPWMSpeed[2] = 1
      BY <3>2
    <3>4. Distance(0, 1, arg) = 0
      BY <2>2, UnitIs DEF Distance
    <3>5. 2 * Distance(0, 1, arg) * scale <= Unit * 1
      BY <2>1, <3>4, UnitIs
    <3>6. ~(arg > 0)
      BY <2>2
    <3> QED BY <3>3, <3>5, <3>6 DEF SpeedReadBack, scale, arg, low, negative
  <2>3. CASE arg # 0
    <3>1. value = Round(arg, scale, negative)
      <4>1. ~(arg > 0)
        BY <1>1, <1>5
      <4> QED BY <1>1, <2>3, <4>1 DEF RawOf, arg, low, negative
    <3>2. value <= negative
      <4>1. low <= negative /\ arg <= 0
        BY <1>1, <1>2, <1>5
      <4> QED BY <1>1, <3>1, <4>1, RoundStays
    <3>3. /\ 2 * (Unit * value) <= 2 * (arg * scale) + 2 * (Unit * negative) + Unit
          /\ 2 * (arg * scale) + 2 * (Unit * negative) + Unit < 2 * (Unit * value) + 2 * Unit
      <4>1. Unit * scale = Unit * negative - Unit * low /\ Unit * low \in Nat
            /\ Unit * negative \in Nat
        BY <1>1, UnitIs
      <4> HIDE DEF scale
      <4>2. arg * scale >= -(Unit * scale) /\ arg * scale \in Int
        BY <1>1, <1>5, <2>1, ScaledIs
      <4>3. arg * scale + Unit * negative >= 0 /\ scale \in Int /\ negative \in Int
        BY <1>1, <2>1, <4>1, <4>2
      <4> QED BY <1>1, <3>1, <4>3, RoundIs
    <3> HIDE DEF scale
    <3>4. 2 * Distance(value - negative, scale, arg) <= Unit
          /\ 2 * Distance(value - negative, scale, arg) * scale <= Unit * scale
      BY <1>1, <2>1, <3>3, HalfStep
    <3>5. ~(arg > 0)
      BY <1>1, <1>5
    <3>6. CASE value < negative
      <4>1. GetPWMSpeed = <<value - negative, scale>>
        <5>1. ~(value > positive)
          BY <1>1, <1>2, <3>6
        <5> QED BY <1>3, <3>6, <5>1 DEF scale
      <4>2. GetPWMSpeed[1] = value - negative /\ GetPWMSpeed[2] = scale
        BY <4>1
      <4> QED BY <3>4, <3>5, <4>2 DEF SpeedReadBack, scale, arg, low, negative
    <3>7. CASE value = negative
      <4>1. GetPWMSpeed = <<0, 1>>
        <5>1. ~(value > positive) /\ ~(value < negative)
          BY <1>1, <1>2, <3>7
        <5> QED BY <1>3, <5>1
      <4>2. GetPWMSpeed[1] = 0 /\ GetPWMSpeed[2] = 1
        BY <4>1
      <4>3. value - negative = 0
        BY <1>1, <3>7
      <4>4. 2 * Distance(0, 1, arg) * scale <= Unit * 1
        BY <1>1, <2>1, <3>4, <4>3, NoStep
      <4> QED BY <3>5, <4>2, <4>4 DEF SpeedReadBack, scale, arg, low, negative
    <3> QED BY <1>1, <3>2, <3>6, <3>7
  <2> QED BY <2>2, <2>3
<1> QED BY <1>1, <1>4, <1>5

LEMMA PositionsReadBack == IInv /\ Valid(config) => PositionReadBack
<1> SUFFICES ASSUME IInv, Valid(config), asked # NoScaling, asked.position PROVE PositionReadBack
  BY DEF PositionReadBack
<1> DEFINE low == config.minPwm
           high == config.maxPwm
           scale == high - low
           arg == asked.arg
           n == arg * scale + Unit * low
<1>1. /\ arg \in -Unit .. Unit /\ arg \in Int /\ arg >= 0
      /\ value \in Int /\ low <= value /\ value <= high
      /\ low \in Nat /\ high \in Nat /\ value = RawOf(asked)
  BY AskedFacts, ReadsAre
<1>2. low < high
  BY <1>1, AskedFacts, ValidIs
<1>3. scale \in Nat \ {0}
  BY <1>1, <1>2
<1>4. value = Truncate(n, Unit)
  BY <1>1 DEF RawOf
<1>5. GetPWMPosition = <<value - low, scale>>
  <2>1. ~(value < low) /\ ~(value > high)
    BY <1>1
  <2> QED BY <2>1 DEF GetPWMPosition
<1>6. GetPWMPosition[1] = value - low /\ GetPWMPosition[2] = scale
  BY <1>5
<1> HIDE DEF low, high, arg, scale
<1>7. arg * scale \in Int /\ arg * scale >= 0 /\ Unit * low \in Nat /\ Unit * value \in Int
  BY <1>1, <1>3, ScaledIs, UnitIs
<1>8. n \in Int /\ n >= 0
  BY <1>7
<1>9. Unit * value <= n /\ n < Unit * value + Unit
  <2> HIDE DEF n
  <2> QED BY <1>4, <1>8, TruncateIs, UnitIs
<1> DEFINE e == (value - low) * Unit - arg * scale
           d == Distance(value - low, scale, arg)
<1>10. (value - low) * Unit = Unit * value - Unit * low
  BY <1>1, UnitIs
<1>11. e \in Int /\ e <= 0 /\ -e < Unit
  BY <1>7, <1>9, <1>10, UnitIs
<1>12. d = IF e < 0 THEN -e ELSE e
  BY DEF Distance
<1> HIDE DEF d, e, n
<1>13. d \in Nat /\ d + 1 <= Unit
  BY <1>11, <1>12, UnitIs
<1>14. d * scale < Unit * scale
  <2>1. (d + 1) * scale <= Unit * scale
    BY <1>3, <1>13, UnitIs
  <2>2. (d + 1) * scale = d * scale + scale /\ d * scale \in Int /\ Unit * scale \in Int
    BY <1>3, <1>13, UnitIs
  <2> QED BY <1>3, <2>1, <2>2
<1> QED BY <1>6, <1>14 DEF PositionReadBack, d, scale, arg, low, high

\* ReadBack: truncation and rounding lose less than a step, in the scaling of a position
\* or a speed and in its inverse, for any limits that leave speeds on both sides.
THEOREM SetIsReadBack == PWMSpec => []ReadBack
<1>1. IInv => ReadBack
  BY SpeedsReadBack, PositionsReadBack DEF ReadBack
<1> QED BY Invariance, <1>1, PTL

\* The types, in every state.
THEOREM Typing == PWMSpec => []PWMTypes
<1>1. IInv => PWMTypes
  <2> SUFFICES ASSUME IInv PROVE PWMTypes
    OBVIOUS
  <2>1. /\ config \in [Fields -> Int] /\ eliminateDeadband \in BOOLEAN
        /\ DOMAIN pending \subseteq Fields /\ stable \in BOOLEAN
        /\ DOMAIN got \subseteq DOMAIN call.reads
    BY DEF IInv, ConfigInv, CallInv, StableInv
  <2>2. \A f \in DOMAIN pending : pending[f] \in Int
    BY ConfigsAre DEF IInv, ConfigInv
  <2>3. call.position \in BOOLEAN /\ call.arg \in -Unit .. Unit
    <3>1. CASE call = NoScaling
      <4>1. call.arg = 0 /\ call.position = FALSE
        BY <3>1 DEF NoScaling
      <4>2. call.arg \in -Unit .. Unit
        BY <4>1, UnitIs
      <4>3. call.position \in BOOLEAN
        BY <4>1, Zenon
      <4> QED BY <4>2, <4>3
    <3>2. CASE call # NoScaling
      BY <3>2, ReadsAre DEF IInv, CallInv
    <3> QED BY <3>1, <3>2
  <2>4. \A k \in DOMAIN got : got[k] \in Int
    BY DEF IInv, CallInv, ReadFrom
  <2>5. value \in Nat /\ value <= 65535
    BY DEF IInv
  <2> QED BY <2>1, <2>2, <2>3, <2>4, <2>5 DEF PWMTypes
<1> QED BY Invariance, <1>1, PTL

=============================================================================
