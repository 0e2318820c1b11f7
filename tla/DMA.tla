-------------------------------- MODULE DMA --------------------------------
(***************************************************************************)
(* cpphalbackup/DMA.cpp: sources are enabled one by one, starting fixes    *)
(* where each is found in a sample, and samples are then read and taken    *)
(* apart with a copy of that table.  No call locks anything.               *)
(***************************************************************************)
EXTENDS ThreadConstants, Integers, Sequences

CONSTANT
  DMAWorkloads   \* sets of sources <<kind, index>>: a behaviour samples those of one of them

\* What HAL_AddDMA* take: an index of eight, of the accumulators one of two, and whether a
\* digital source is an analog trigger.
DMASources ==
  ({"DigitalSource"} \X BOOLEAN) \cup ({"Accumulator"} \X {0, 1})
  \cup ({"Encoder", "EncoderPeriod", "Counter", "CounterPeriod", "AnalogInput", "DutyCycle",
         "AveragedAnalogInput"} \X (0 .. 7))

ASSUME DMAAssumption == \A w \in DMAWorkloads : w \subseteq DMASources

VARIABLES
  sources,     \* the sources of this behaviour
  dmaAllocated,   \* the one handle is
  enabled,     \* the channels of the configuration register
  running,     \* the manager exists
  captured,    \* captureStore: the channels its offsets were computed for
  inFifo,      \* the channels of the samples in the FIFO
  dmaPc,
  adding,      \* each user's channel to add
  sample,      \* each user's sample: the channels it was taken and is decoded with
  overlapped   \* ghost: a call began, or took effect, within another one

dmaVars == <<sources, dmaAllocated, enabled, running, captured, inFifo, dmaPc, adding, sample, overlapped>>

DMAChannels == 0 .. 21
kChannelSize == <<2, 2, 4, 4, 2, 2, 4, 4, 3, 3, 2, 1, 4, 4, 4, 4, 4, 4, 4, 4, 4, 4>>

\* Half of a kind's eight indexes is in its channel Low, half in High.
HalfOf(low, index) == IF index < 4 THEN low ELSE low + 1

\* HAL_AddDMA*: the channel of the configuration register that each enables, ...
AddDMAEncoder(index) == HalfOf(16, index)
AddDMAEncoderPeriod(index) == HalfOf(18, index)
AddDMACounter(index) == HalfOf(12, index)
AddDMACounterPeriod(index) == HalfOf(14, index)
AddDMADigitalSource(isTrigger) == IF isTrigger THEN 11 ELSE 10
AddDMAAnalogInput(index) == HalfOf(0, index)
AddDMADutyCycle(index) == HalfOf(20, index)
AddDMAAveragedAnalogInput(index) == HalfOf(2, index)
AddDMAAnalogAccumulator(index) == 8 + index

\* ... and HAL_GetDMASample*: the words, by channel and index, that each reads.
GetDMASampleEncoderRaw(index) == {<<HalfOf(16, index), index % 4>>}
GetDMASampleEncoderPeriodRaw(index) == {<<HalfOf(18, index), index % 4>>}
GetDMASampleCounter(index) == {<<HalfOf(12, index), index % 4>>}
GetDMASampleCounterPeriod(index) == {<<HalfOf(14, index), index % 4>>}
GetDMASampleDigitalSource(isTrigger) == {<<IF isTrigger THEN 11 ELSE 10, 0>>}
GetDMASampleAnalogInputRaw(index) == {<<HalfOf(0, index), (index % 4) \div 2>>}
GetDMASampleDutyCycleOutputRaw(index) == {<<HalfOf(20, index), index % 4>>}
GetDMASampleAveragedAnalogInputRaw(index) == {<<HalfOf(2, index), index % 4>>}

\* Of the second accumulator two words are read from the first one's channel.
GetDMASampleAnalogAccumulator(index) == {<<8 + index, 0>>, <<8, 1>>, <<8, 2>>}

Added(s) ==
  CASE s[1] = "Encoder" -> AddDMAEncoder(s[2]) [] s[1] = "EncoderPeriod" -> AddDMAEncoderPeriod(s[2])
    [] s[1] = "Counter" -> AddDMACounter(s[2]) [] s[1] = "CounterPeriod" -> AddDMACounterPeriod(s[2])
    [] s[1] = "DigitalSource" -> AddDMADigitalSource(s[2]) [] s[1] = "AnalogInput" -> AddDMAAnalogInput(s[2])
    [] s[1] = "DutyCycle" -> AddDMADutyCycle(s[2])
    [] s[1] = "AveragedAnalogInput" -> AddDMAAveragedAnalogInput(s[2])
    [] s[1] = "Accumulator" -> AddDMAAnalogAccumulator(s[2])

Getter(s) ==
  CASE s[1] = "Encoder" -> GetDMASampleEncoderRaw(s[2])
    [] s[1] = "EncoderPeriod" -> GetDMASampleEncoderPeriodRaw(s[2])
    [] s[1] = "Counter" -> GetDMASampleCounter(s[2])
    [] s[1] = "CounterPeriod" -> GetDMASampleCounterPeriod(s[2])
    [] s[1] = "DigitalSource" -> GetDMASampleDigitalSource(s[2])
    [] s[1] = "AnalogInput" -> GetDMASampleAnalogInputRaw(s[2])
    [] s[1] = "DutyCycle" -> GetDMASampleDutyCycleOutputRaw(s[2])
    [] s[1] = "AveragedAnalogInput" -> GetDMASampleAveragedAnalogInputRaw(s[2])
    [] s[1] = "Accumulator" -> GetDMASampleAnalogAccumulator(s[2])

\* SET_SIZE: the enabled channels follow each other; what a channel adds to accum_size, ...
Size(chans, c) == IF c \in chans THEN kChannelSize[c + 1] ELSE 0

\* ... and accum_size when its turn comes.
Offset(chans, c) ==
  LET accum_size[d \in DMAChannels] ==
        IF d = 0 THEN 0 ELSE accum_size[d - 1] + Size(chans, d - 1)
  IN  accum_size[c]

\* What a word of a sample with these channels is.
Content(chans, i) ==
  {<<c, i - Offset(chans, c)>> : c \in {d \in chans : /\ Offset(chans, d) <= i
                                                     /\ i < Offset(chans, d) + kChannelSize[d + 1]}}

\* ReadDMAValue: nothing if the channel was not enabled.
ReadDMAValue(dma, c, word) ==
  IF c \in dma.decoded THEN Content(dma.taken, Offset(dma.decoded, c) + word) ELSE {}

DMAInit ==
  /\ sources \in DMAWorkloads
  /\ dmaAllocated = FALSE /\ enabled = {} /\ running = FALSE /\ captured = {} /\ inFifo = {}
  /\ dmaPc = [u \in Threads |-> "idle"] /\ adding = [u \in Threads |-> -1]
  /\ sample = [u \in Threads |-> [taken |-> {}, decoded |-> {}]]
  /\ overlapped = FALSE

Step(u, step) == dmaPc' = [dmaPc EXCEPT ![u] = step]
Overlap(u) == overlapped' = (overlapped \/ \E v \in Threads \ {u} : dmaPc[v] \notin {"idle", "decode"})

\* HAL_InitializeDMA: what the last owner enabled stays so.
InitializeDMA(u) ==
  /\ dmaPc[u] = "idle" /\ ~dmaAllocated /\ dmaAllocated' = TRUE
  /\ Overlap(u)
  /\ UNCHANGED <<enabled, running, captured, inFifo, dmaPc, adding, sample>>

FreeDMA(u) ==
  /\ dmaPc[u] = "idle" /\ dmaAllocated /\ dmaAllocated' = FALSE
  /\ running' = FALSE /\ captured' = {}
  /\ Overlap(u)
  /\ UNCHANGED <<enabled, inFifo, dmaPc, adding, sample>>

\* Mutated form: sources are added at any time.
Unchecked == dmaAllocated

\* "if (dma->manager) ... HAL_INVALID_DMA_ADDITION"
MayAdd == dmaAllocated /\ ~running

\* HAL_AddDMA*: the check, and then the bit of the register.
AddDMA(u, s) ==
  /\ dmaPc[u] = "idle" /\ MayAdd /\ Step(u, "add")
  /\ adding' = [adding EXCEPT ![u] = Added(s)]
  /\ Overlap(u)
  /\ UNCHANGED <<dmaAllocated, enabled, running, captured, inFifo, sample>>

Enable(u) ==
  /\ dmaPc[u] = "add" /\ Step(u, "idle")
  /\ enabled' = enabled \cup {adding[u]} /\ adding' = [adding EXCEPT ![u] = -1]
  /\ UNCHANGED <<dmaAllocated, running, captured, inFifo, sample, overlapped>>

\* HAL_StartDMA: the offsets, and a manager with an empty FIFO.
StartDMA(u) ==
  /\ dmaPc[u] = "idle" /\ dmaAllocated /\ ~running
  /\ captured' = enabled /\ running' = TRUE /\ inFifo' = {}
  /\ Overlap(u)
  /\ UNCHANGED <<dmaAllocated, enabled, dmaPc, adding, sample>>

StopDMA(u) ==
  /\ dmaPc[u] = "idle" /\ dmaAllocated /\ running /\ running' = FALSE
  /\ Overlap(u)
  /\ UNCHANGED <<dmaAllocated, enabled, captured, inFifo, dmaPc, adding, sample>>

\* The FPGA takes a sample of all that is enabled.
Acquire ==
  /\ running /\ inFifo' = inFifo \cup {enabled}
  /\ UNCHANGED <<dmaAllocated, enabled, running, captured, dmaPc, adding, sample, overlapped>>

\* HAL_ReadDMA waits for a sample, or for the timeout, ...
ReadDMA(u) ==
  /\ dmaPc[u] = "idle" /\ dmaAllocated /\ running /\ Step(u, "read")
  /\ UNCHANGED <<dmaAllocated, enabled, running, captured, inFifo, adding, sample, overlapped>>

TakeSample(u) ==
  /\ dmaPc[u] = "read"
  /\ \/ /\ \E chans \in inFifo : sample' = [sample EXCEPT ![u] = [@ EXCEPT !.taken = chans]]
        /\ Step(u, "copy")
     \/ Step(u, "idle") /\ UNCHANGED sample
  /\ UNCHANGED <<dmaAllocated, enabled, running, captured, inFifo, adding, overlapped>>

\* ... copies the offsets to it, and the user decodes it when all may be changed again.
CopyOffsets(u) ==
  /\ dmaPc[u] = "copy" /\ Step(u, "decode")
  /\ sample' = [sample EXCEPT ![u] = [@ EXCEPT !.decoded = captured]]
  /\ UNCHANGED <<dmaAllocated, enabled, running, captured, inFifo, adding, overlapped>>

Decode(u) ==
  /\ dmaPc[u] = "decode" /\ Step(u, "idle")
  /\ sample' = [sample EXCEPT ![u] = [taken |-> {}, decoded |-> {}]]
  /\ UNCHANGED <<dmaAllocated, enabled, running, captured, inFifo, adding, overlapped>>

DMANext ==
  /\ UNCHANGED sources
  /\ \/ \E u \in Threads :
          \/ InitializeDMA(u) \/ FreeDMA(u) \/ StartDMA(u) \/ StopDMA(u) \/ Enable(u)
          \/ (\E s \in sources : AddDMA(u, s))
          \/ ReadDMA(u) \/ TakeSample(u) \/ CopyOffsets(u) \/ Decode(u)
     \/ Acquire

-----------------------------------------------------------------------------
\* ReadDMAValue: whatever was added, started and stopped since, the words that the
\* getters of a sample find are those of their own source, if it was enabled; unless
\* calls of two threads overlapped.
DecodesOwnWords ==
  \A u \in Threads, s \in sources :
    ~overlapped /\ dmaPc[u] = "decode" /\ Added(s) \in sample[u].decoded =>
      \A w \in Getter(s) :
        ReadDMAValue(sample[u], w[1], w[2]) = {<<Added(s), w[2]>>}
=============================================================================
