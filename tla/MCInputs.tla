------------------------------ MODULE MCInputs ------------------------------
(***************************************************************************)
(* What a robot program learns from the FPGA, for TLC: the edges of        *)
(* interrupts, the clock, counters and DMA samples.  They share no state,  *)
(* so a behaviour runs one of them, chosen at the start, and the states    *)
(* add up.                                                                 *)
(***************************************************************************)
EXTENDS Interrupts, FPGAClock, Counter, DMA, TLC

CONSTANT Components

VARIABLE component

allVars == <<component, vars, clockVars, counterVars, dmaVars>>

\* The time is 0 in a behaviour of which the clock is no part; DMA samples every kind of
\* source in some behaviour.
MCInit ==
  /\ component \in Components
  /\ Init /\ ClockInit /\ CounterInit /\ DMAInit
  /\ component = "clock" \/ (upper = 0 /\ lower = 0)
  /\ component = "DMA" \/ sources = CHOOSE w \in DMAWorkloads : TRUE

MCNext ==
  /\ UNCHANGED component
  /\ \/ component = "interrupts" /\ Next /\ UNCHANGED <<clockVars, counterVars, dmaVars>>
     \/ component = "clock" /\ ClockNext /\ UNCHANGED <<vars, counterVars, dmaVars>>
     \/ component = "counter" /\ CounterNext /\ UNCHANGED <<vars, clockVars, dmaVars>>
     \/ component = "DMA" /\ DMANext /\ UNCHANGED <<vars, clockVars, counterVars>>

MCSpec == MCInit /\ [][MCNext]_allVars

Symmetry == Permutations(Threads)

\* What a failed read of a counter's configuration leaves: any edge of two sources.
AllSet == {[mode |-> "two", a |-> 2, b |-> 1, up |-> TRUE, down |-> TRUE]}

\* Every kind of source; but not the second accumulator, whose getter reads two of its
\* words from the channel of the first.
EveryKind ==
  {{<<"AnalogInput", 3>>, <<"Counter", 5>>, <<"Accumulator", 0>>, <<"DutyCycle", 6>>},
   {<<"Encoder", 2>>, <<"EncoderPeriod", 7>>, <<"CounterPeriod", 1>>, <<"DigitalSource", FALSE>>},
   {<<"AveragedAnalogInput", 4>>, <<"DigitalSource", TRUE>>, <<"AnalogInput", 6>>, <<"Encoder", 4>>}}
=============================================================================
