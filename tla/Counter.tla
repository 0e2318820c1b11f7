------------------------------ MODULE Counter ------------------------------
(***************************************************************************)
(* cpp/Counter.cpp: a counter's configuration is one register, which every *)
(* call reads, edits and writes back, without a lock; a counter that gets  *)
(* a new source is reset after it.  Free counters go to new owners with    *)
(* the settings and the count they have.                                   *)
(***************************************************************************)
EXTENDS ThreadConstants, Naturals

CONSTANTS
  Counters,
  CounterSources,   \* what remapDigitalSource can route
  Rubbish           \* what may be on the stack, as configurations

None == 0           \* module 0, channel 0, as HAL_ClearCounter..Source leaves it

\* The two modes with a second source, and the others.
Modes == {"two", "one"}
Configurations == [mode : Modes, a : Nat, b : Nat, up : BOOLEAN, down : BOOLEAN]

ASSUME CounterAssumption == CounterSources \subseteq Nat /\ Rubbish \subseteq Configurations

VARIABLES
  counting,    \* the counters that have an owner
  counterConfig,       \* the configuration register of each counter
  from,         \* ghost: the sources of what was counted since the last reset
  counterPc,
  call,         \* each thread's counter and the configuration it has edited
  disturbed     \* ghost: calls for the counter overlapped, or read or wrote in vain

counterVars == <<counting, counterConfig, from, counterPc, call, disturbed>>

Config(mode, a, b, up, down) == [mode |-> mode, a |-> a, b |-> b, up |-> up, down |-> down]
Blank == Config("two", None, None, FALSE, FALSE)

CounterInit ==
  /\ counting = {}
  /\ counterConfig = [c \in Counters |-> Blank] /\ from = [c \in Counters |-> {}]
  /\ counterPc = [t \in Threads |-> "idle"] /\ disturbed = {}
  /\ call = [t \in Threads |-> [counter |-> None, config |-> Blank]]

\* What the calls do to the configuration they read, and whether a reset follows it.
\* up and down say whether any edge of a source counts.
SetTwoSourceMode(cfg) == {[cfg EXCEPT !.mode = "two"]}
SetSemiPeriodMode(cfg) == {[cfg EXCEPT !.mode = "one", !.up = h] : h \in BOOLEAN}
SetPulseLengthMode(cfg) == {[cfg EXCEPT !.mode = "one"]}
SetUpSourceEdge(cfg) == {[cfg EXCEPT !.up = e] : e \in BOOLEAN}
SetDownSourceEdge(cfg) == {[cfg EXCEPT !.down = e] : e \in BOOLEAN}
ClearUpSource(cfg) == {[cfg EXCEPT !.up = FALSE, !.a = None]}
ClearDownSource(cfg) == {[cfg EXCEPT !.down = FALSE, !.b = None]}
SetUpSource(cfg) ==
  {[cfg EXCEPT !.a = s, !.up = cfg.mode = "two" \/ cfg.up] : s \in CounterSources}
SetDownSource(cfg) ==
  IF cfg.mode = "two" THEN {[cfg EXCEPT !.b = s, !.down = TRUE] : s \in CounterSources} ELSE {}

Edited(cfg) ==
  UNION {SetTwoSourceMode(cfg), SetSemiPeriodMode(cfg), SetPulseLengthMode(cfg),
         SetUpSourceEdge(cfg), SetDownSourceEdge(cfg), ClearUpSource(cfg), ClearDownSource(cfg)}
Resourced(cfg) == SetUpSource(cfg) \cup SetDownSource(cfg)

Enter(t, c, step, cfg) ==
  /\ counterPc' = [counterPc EXCEPT ![t] = step]
  /\ call' = [call EXCEPT ![t] = [counter |-> c, config |-> cfg]]
CounterReturn(t) == Enter(t, None, "idle", Blank)
Busy(c) == \E u \in Threads : counterPc[u] # "idle" /\ call[u].counter = c

Disturb(c, excuse) == disturbed' = IF excuse THEN disturbed \cup {c} ELSE disturbed

\* ReadConfig, and the edit.  A read that fails leaves whatever was on the stack, which
\* is edited and written all the same.
ReadConfig(t, c) ==
  /\ counterPc[t] = "idle" /\ c \in counting
  /\ \E read \in {counterConfig[c]} \cup Rubbish :
       /\ \/ \E cfg \in Edited(read) : Enter(t, c, "write", cfg)
          \/ \E cfg \in Resourced(read) : Enter(t, c, "source", cfg)
       /\ Disturb(c, Busy(c) \/ read # counterConfig[c])
  /\ UNCHANGED <<counting, counterConfig, from>>

\* HAL_InitializeCounter: any free counter, of which it sets the mode.
InitializeCounter(t, c) ==
  /\ counterPc[t] = "idle" /\ c \notin counting
  /\ counting' = counting \cup {c}
  /\ \E read \in {counterConfig[c]} \cup Rubbish, m \in Modes :
       Enter(t, c, "write", [read EXCEPT !.mode = m]) /\ Disturb(c, Busy(c) \/ read # counterConfig[c])
  /\ UNCHANGED <<counterConfig, from>>

FreeCounter(c) ==
  /\ c \in counting /\ counting' = counting \ {c}
  /\ UNCHANGED <<counterConfig, from, counterPc, call, disturbed>>

\* Mutated form: no call resets the counter.
NeverReset(t) == FALSE

ResetFollows(t) == counterPc[t] = "source"

\* What of the count remains when cfg is written.  Clearing a source drops it: nothing of
\* it is promised to whoever looks at a count without a source.
Kept(c, cfg) ==
  {s \in from[c] : (cfg.a = None => s # counterConfig[c].a) /\ (cfg.b = None => s # counterConfig[c].b)}

WriteConfig(t) ==
  LET c == call[t].counter
      cfg == call[t].config
  IN  /\ counterPc[t] \in {"write", "source"}
      /\ \/ counterConfig' = [counterConfig EXCEPT ![c] = cfg] /\ UNCHANGED disturbed
         \/ Disturb(c, TRUE) /\ UNCHANGED counterConfig
      /\ from' = [from EXCEPT ![c] = Kept(c, cfg)]
      /\ IF ResetFollows(t) THEN Enter(t, c, "reset", Blank) ELSE CounterReturn(t)
      /\ UNCHANGED counting

ResetCounter(t, c) ==
  /\ counterPc[t] = "idle" /\ c \in counting /\ Enter(t, c, "reset", Blank)
  /\ Disturb(c, Busy(c))
  /\ UNCHANGED <<counting, counterConfig, from>>

\* NiFpga_WriteBool of the reset control; nobody looks at its status.
Reset(t) ==
  LET c == call[t].counter
  IN  /\ counterPc[t] = "reset" /\ CounterReturn(t)
      /\ \/ from' = [from EXCEPT ![c] = {}] /\ UNCHANGED disturbed
         \/ Disturb(c, TRUE) /\ UNCHANGED from
      /\ UNCHANGED <<counting, counterConfig>>

\* An edge at a source that counts, where a cleared source is the first digital channel.
CountedEdge(c) ==
  /\ \/ counterConfig[c].up /\ from' = [from EXCEPT ![c] = @ \cup {counterConfig[c].a}]
     \/ counterConfig[c].down /\ from' = [from EXCEPT ![c] = @ \cup {counterConfig[c].b}]
  /\ UNCHANGED <<counting, counterConfig, counterPc, call, disturbed>>

CounterNext ==
  \/ \E t \in Threads :
       \/ \E c \in Counters : InitializeCounter(t, c) \/ ReadConfig(t, c) \/ ResetCounter(t, c)
       \/ WriteConfig(t) \/ Reset(t)
  \/ \E c \in Counters : FreeCounter(c) \/ CountedEdge(c)

-----------------------------------------------------------------------------
\* A count is never of a source that was replaced: between calls, what was counted
\* came from the sources the counter has, unless calls overlapped or failed.
CountsItsSources ==
  \A c \in Counters : ~Busy(c) /\ c \notin disturbed => from[c] \subseteq {counterConfig[c].a, counterConfig[c].b}
=============================================================================
