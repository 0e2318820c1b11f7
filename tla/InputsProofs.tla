---------------------------- MODULE InputsProofs ----------------------------
(***************************************************************************)
(* For any number of threads, interrupts, counters and sources, and any    *)
(* width of the clock: an edge is reported, ignored or still there for the *)
(* next wait, choosing edges keeps the source, a time is one of the call   *)
(* that read it, a counter counts its own sources, and a DMA sample is     *)
(* decoded into them.                                                      *)
(***************************************************************************)
EXTENDS Interrupts, FPGAClock, Counter, DMA, WellFoundedInduction, NaturalsInduction, TLAPS

\* What a thread acknowledges are IRQs of its interrupt.
Owned ==
  \A t \in Threads :
    IF pc[t] = "acknowledge" THEN got[t] \subseteq IrqsOf(interrupt[t]) ELSE got[t] = {}

\* Two calls of one kind on an interrupt have made it a shared one.
OneAtATime ==
  \A t, u \in Threads : \A steps \in {Configuring, Waiting} :
    pc[t] \in steps /\ pc[u] \in steps /\ interrupt[t] = interrupt[u] /\ t # u
      => interrupt[t] \in shared

\* What a thread is about to acknowledge has been reported, apart from late edges, and
\* stays asserted.
Reported ==
  \A t \in Threads : pc[t] = "acknowledge" /\ interrupt[t] \notin shared =>
    got[t] \subseteq asserted /\ got[t] \cap unreported \subseteq late

\* The cluster that is about to be written has the requested source.
Carried ==
  \A t \in Threads : pc[t] \in Configuring /\ interrupt[t] \notin shared =>
    cluster[t].source = requested[interrupt[t]]

IInv == TypeOK /\ Owned /\ OneAtATime /\ Reported /\ NoEdgeLost /\ Carried /\ SourceSurvives

-----------------------------------------------------------------------------

LEMMA InitEstablishes == Init => IInv
<1> SUFFICES ASSUME Init PROVE IInv
  OBVIOUS
<1> USE InterruptsAssumption DEF Init, Clusters, NoCluster
<1>1. TypeOK
  BY DEF TypeOK
<1>2. Owned /\ OneAtATime /\ Reported /\ Carried
  BY DEF Owned, OneAtATime, Reported, Carried, Configuring, Waiting
<1>3. NoEdgeLost /\ SourceSurvives
  BY DEF NoEdgeLost, SourceSurvives
<1> QED BY <1>1, <1>2, <1>3 DEF IInv

\* The IRQs of two interrupts are different ones.
LEMMA IrqsAreDistinct ==
  /\ \A i, j \in Interrupts : i # j => IrqsOf(i) \cap IrqsOf(j) = {}
  /\ \A i \in Interrupts : \A irq \in Irqs : irq \in IrqsOf(i) <=> irq[1] = i
  /\ \A i \in Interrupts : IrqsOf(i) \subseteq Irqs
BY DEF IrqsOf, Irqs, Edges

LEMMA ClustersExist ==
  /\ NoCluster \in Clusters
  /\ \A source \in Sources \cup {NoSource}, edges \in SUBSET Edges :
       [source |-> source, edges |-> edges] \in Clusters
  /\ \A c \in Clusters : c.source \in Sources \cup {NoSource}
BY DEF Clusters, NoCluster

\* A call that begins is the only one of its kind on its interrupt, or shares it.
LEMMA BeginPreserves ==
  ASSUME NEW t \in Threads, NEW i \in Interrupts, NEW steps \in {Configuring, Waiting},
         NEW step \in steps, TypeOK, OneAtATime, Begin(t, i, steps, step)
  PROVE  /\ OneAtATime' /\ shared \subseteq shared' /\ shared' \in SUBSET Interrupts
         /\ pc' \in [Threads -> {"idle"} \cup Configuring \cup Waiting]
         /\ interrupt' \in [Threads -> Interrupts]
         /\ i \notin shared' => \A u \in Threads \ {t} : interrupt[u] = i => pc[u] \notin steps
BY DEF TypeOK, OneAtATime, Begin, Share, Configuring, Waiting

\* Configuring an interrupt touches no IRQ; who is the only one to configure it finds
\* in the FPGA the source that was requested last.
LEMMA ConfiguringPreserves ==
  ASSUME IInv, NEW t \in Threads, NEW i \in Interrupts,
         \/ \E s \in Sources : RequestInterrupts(t, i, s)
         \/ \E edges \in SUBSET Edges : SetInterruptUpSourceEdge(t, i, edges)
         \/ WriteCluster(t)
  PROVE  IInv'
<1> USE InterruptsAssumption DEF IInv, TypeOK
<1>1. ASSUME NEW s \in Sources, RequestInterrupts(t, i, s) PROVE IInv'
  <2>1. Begin(t, i, Configuring, "request")
    BY <1>1 DEF RequestInterrupts
  <2>2. /\ OneAtATime' /\ shared \subseteq shared' /\ shared' \in SUBSET Interrupts
        /\ pc' \in [Threads -> {"idle"} \cup Configuring \cup Waiting]
        /\ interrupt' \in [Threads -> Interrupts]
        /\ i \notin shared' =>
             \A u \in Threads \ {t} : interrupt[u] = i => pc[u] \notin Configuring
    BY <2>1, BeginPreserves DEF Configuring
  <2>3. TypeOK'
    <3>1. PICK edges \in SUBSET Edges :
            cluster' = [cluster EXCEPT ![t] = [source |-> s, edges |-> edges]]
      BY <1>1 DEF RequestInterrupts, UninitializedEdges
    <3>2. cluster' \in [Threads -> Clusters]
      BY <3>1, ClustersExist
    <3> QED BY <1>1, <2>2, <3>2 DEF RequestInterrupts, fpga
  <2>4. Owned' /\ Reported' /\ NoEdgeLost'
    BY <1>1, <2>1, <2>2
       DEF RequestInterrupts, Begin, fpga, Owned, Reported, NoEdgeLost, Configuring, Waiting
  <2>5. Carried' /\ SourceSurvives'
    BY <1>1, <2>1, <2>2
       DEF RequestInterrupts, UninitializedEdges, Begin, fpga, Carried, SourceSurvives,
           Configuring, Waiting
  <2> QED BY <2>2, <2>3, <2>4, <2>5
<1>2. ASSUME NEW edges \in SUBSET Edges, SetInterruptUpSourceEdge(t, i, edges) PROVE IInv'
  <2>1. Begin(t, i, Configuring, "setEdge")
    BY <1>2 DEF SetInterruptUpSourceEdge
  <2>2. /\ OneAtATime' /\ shared \subseteq shared' /\ shared' \in SUBSET Interrupts
        /\ pc' \in [Threads -> {"idle"} \cup Configuring \cup Waiting]
        /\ interrupt' \in [Threads -> Interrupts]
        /\ i \notin shared' =>
             \A u \in Threads \ {t} : interrupt[u] = i => pc[u] \notin Configuring
    BY <2>1, BeginPreserves DEF Configuring
  <2>3. TypeOK'
    BY <1>2, <2>2, ClustersExist DEF SetInterruptUpSourceEdge, ReadCluster, fpga
  <2>4. Owned' /\ Reported' /\ NoEdgeLost'
    BY <1>2, <2>1, <2>2
       DEF SetInterruptUpSourceEdge, Begin, fpga, Owned, Reported, NoEdgeLost,
           Configuring, Waiting
  <2>5. Carried' /\ SourceSurvives'
    BY <1>2, <2>1, <2>2
       DEF SetInterruptUpSourceEdge, ReadCluster, Begin, fpga, Carried, SourceSurvives,
           Configuring, Waiting
  <2> QED BY <2>2, <2>3, <2>4, <2>5
<1>3. CASE WriteCluster(t)
  <2>1. TypeOK'
    BY <1>3, ClustersExist DEF WriteCluster, Return, ghosts
  <2>2. Owned' /\ OneAtATime' /\ Reported' /\ NoEdgeLost'
    BY <1>3 DEF WriteCluster, Return, ghosts, Owned, OneAtATime, Reported, NoEdgeLost,
                Configuring, Waiting
  <2>3. Carried' /\ SourceSurvives'
    BY <1>3 DEF WriteCluster, Return, ghosts, OneAtATime, Carried, SourceSurvives, Configuring
  <2> QED BY <2>1, <2>2, <2>3
<1> QED BY <1>1, <1>2, <1>3

\* A wait takes edges from its own interrupt only, and acknowledges what it reported.
LEMMA WaitingPreserves ==
  ASSUME IInv, NEW t \in Threads, NEW i \in Interrupts,
         \/ WaitForInterrupt(t, i) \/ ReserveFails(t, i)
         \/ Ignore(t) \/ Report(t) \/ TimedOut(t) \/ Acknowledge(t)
  PROVE  IInv'
<1> USE InterruptsAssumption DEF IInv, TypeOK
<1>1. CASE WaitForInterrupt(t, i)
  <2>1. PICK step \in {"ignore", "wait"} : Begin(t, i, Waiting, step)
    BY <1>1 DEF WaitForInterrupt
  <2>2. /\ OneAtATime' /\ shared \subseteq shared' /\ shared' \in SUBSET Interrupts
        /\ pc' \in [Threads -> {"idle"} \cup Configuring \cup Waiting]
        /\ interrupt' \in [Threads -> Interrupts]
    BY <2>1, BeginPreserves DEF Waiting
  <2>3. TypeOK'
    BY <1>1, <2>2 DEF WaitForInterrupt, fpga
  <2>4. got[t] = {}
    BY <2>1 DEF Begin, Owned
  <2>5. Owned' /\ Reported' /\ NoEdgeLost'
    BY <1>1, <2>1, <2>2, <2>4
       DEF WaitForInterrupt, Begin, fpga, Owned, Reported, NoEdgeLost, Waiting
  <2>6. Carried' /\ SourceSurvives'
    BY <1>1, <2>1, <2>2
       DEF WaitForInterrupt, Begin, fpga, Carried, SourceSurvives, Configuring
  <2> QED BY <2>2, <2>3, <2>5, <2>6
<1>2. CASE ReserveFails(t, i)
  BY <1>2
     DEF ReserveFails, vars, fpga, locals, ghosts, Owned, OneAtATime, Reported, NoEdgeLost,
         Carried, SourceSurvives
<1>3. ASSUME Ignore(t) \/ Report(t) \/ TimedOut(t) \/ Acknowledge(t) PROVE IInv'
  <2>1. TypeOK'
    <3>1. CASE Ignore(t)
      BY <3>1 DEF Ignore, Waiting
    <3>2. CASE Report(t)
      BY <3>2 DEF Report, fpga, Waiting
    <3>3. CASE TimedOut(t)
      BY <3>3, ClustersExist DEF TimedOut, Return, fpga, ghosts
    <3>4. CASE Acknowledge(t)
      BY <3>4, ClustersExist DEF Acknowledge, Return, ghosts
    <3> QED BY <1>3, <3>1, <3>2, <3>3, <3>4
  <2>2. OneAtATime'
    BY <1>3 DEF Ignore, Report, TimedOut, Acknowledge, Return, ghosts, OneAtATime,
                Configuring, Waiting
  <2>3. Owned'
    BY <1>3 DEF Ignore, Report, TimedOut, Acknowledge, Return, ghosts, Owned, Waiting
  <2>4. Reported' /\ NoEdgeLost'
    <3>1. CASE Ignore(t)
      BY <1>3, <3>1, IrqsAreDistinct
         DEF Ignore, Owned, OneAtATime, Reported, NoEdgeLost, Waiting
    <3>2. CASE Report(t)
      BY <1>3, <3>2, IrqsAreDistinct
         DEF Report, fpga, Owned, OneAtATime, Reported, NoEdgeLost, Waiting
    <3>3. CASE TimedOut(t)
      BY <1>3, <3>3 DEF TimedOut, Return, fpga, ghosts, Reported, NoEdgeLost
    <3>4. CASE Acknowledge(t)
      <4>1. asserted' = asserted \ got[t] /\ got[t] \subseteq IrqsOf(interrupt[t])
        BY <3>4 DEF Acknowledge, Acknowledged, Owned
      <4>2. NoEdgeLost'
        BY <3>4, <4>1, IrqsAreDistinct DEF Acknowledge, ghosts, Reported, NoEdgeLost
      <4>3. Reported'
        <5> SUFFICES ASSUME NEW u \in Threads, pc'[u] = "acknowledge",
                            interrupt'[u] \notin shared'
                     PROVE  got'[u] \subseteq asserted' /\ got'[u] \cap unreported' \subseteq late'
          BY DEF Reported
        <5>1. u # t /\ pc[u] = "acknowledge" /\ got'[u] = got[u] /\ interrupt[u] \notin shared
          BY <3>4 DEF Acknowledge, Return, ghosts
        <5>2. interrupt[u] # interrupt[t]
          BY <3>4, <5>1 DEF Acknowledge, OneAtATime, Waiting
        <5>3. got[u] \subseteq IrqsOf(interrupt[u]) /\ got[u] \subseteq asserted
          BY <5>1 DEF Owned, Reported
        <5> QED
          BY <3>4, <4>1, <5>1, <5>2, <5>3, IrqsAreDistinct DEF Acknowledge, ghosts, Reported
      <4> QED BY <4>2, <4>3
    <3> QED BY <1>3, <3>1, <3>2, <3>3, <3>4
  <2>5. Carried' /\ SourceSurvives'
    BY <1>3 DEF Ignore, Report, TimedOut, Acknowledge, Return, fpga, ghosts, Carried,
                SourceSurvives, Configuring
  <2> QED BY <2>1, <2>2, <2>3, <2>4, <2>5
<1> QED BY <1>1, <1>2, <1>3

LEMMA StepPreserves == IInv /\ [Next]_vars => IInv'
<1> SUFFICES ASSUME IInv, [Next]_vars PROVE IInv'
  OBVIOUS
<1>1. CASE UNCHANGED vars
  BY <1>1
     DEF vars, fpga, locals, ghosts, IInv, TypeOK, Owned, OneAtATime, Reported, NoEdgeLost,
         Carried, SourceSurvives
<1>2. ASSUME NEW t \in Threads, NEW i \in Interrupts,
             InitializeInterrupts(t, i) \/ CleanInterrupts(t, i)
      PROVE  IInv'
  BY <1>2
     DEF InitializeInterrupts, CleanInterrupts, fpga, locals, ghosts, IInv, TypeOK, Owned,
         OneAtATime, Reported, NoEdgeLost, Carried, SourceSurvives
<1>3. ASSUME NEW i \in Interrupts, NEW e \in Edges, Edge(i, e) PROVE IInv'
  <2>1. <<i, e>> \in Irqs
    BY DEF Irqs
  <2> QED
    BY <1>3, <2>1
       DEF Edge, Acknowledging, locals, IInv, TypeOK, Owned, OneAtATime, Reported, NoEdgeLost, Carried,
           SourceSurvives
<1>4. ASSUME NEW t \in Threads, Continue(t) PROVE IInv'
  <2>1. PICK i \in Interrupts : TRUE
    BY InterruptsAssumption
  <2> QED BY <1>4, <2>1, ConfiguringPreserves, WaitingPreserves DEF Continue
<1>5. ASSUME NEW t \in Threads, NEW i \in Interrupts, Call(t, i) PROVE IInv'
  BY <1>2, <1>5, ConfiguringPreserves, WaitingPreserves DEF Call
<1> QED BY <1>1, <1>3, <1>4, <1>5 DEF Next

\* In every state of Interrupts the invariant holds.
THEOREM Invariance == Spec => []IInv
BY InitEstablishes, StepPreserves, PTL DEF Spec

\* Type correctness of Interrupts.
THEOREM Typing == Spec => []TypeOK
<1>1. IInv => TypeOK
  BY DEF IInv
<1> QED BY <1>1, Invariance, PTL

\* With any number of threads and interrupts, an edge that no wait has reported or
\* ignored is still asserted for the next one, unless it repeats one that is about to be
\* acknowledged.
THEOREM EdgesAreNotLost == Spec => []NoEdgeLost
<1>1. IInv => NoEdgeLost
  BY DEF IInv
<1> QED BY <1>1, Invariance, PTL

\* Choosing the edges of an interrupt never replaces its source.
THEOREM SourcesSurvive == Spec => []SourceSurvives
<1>1. IInv => SourceSurvives
  BY DEF IInv
<1> QED BY <1>1, Invariance, PTL

-----------------------------------------------------------------------------
\* The counters.
CounterSpec == CounterInit /\ [][CounterNext]_counterVars

\* Types, and: a call that is on has a counter.
CounterSteps == {"idle", "write", "source", "reset"}
CounterTypes ==
  /\ counterConfig \in [Counters -> Configurations]
  /\ from \in [Counters -> SUBSET Nat]
  /\ counterPc \in [Threads -> CounterSteps]
  /\ call \in [Threads -> [counter : Counters \cup {None}, config : Configurations]]
  /\ counting \subseteq Counters
  /\ \A t \in Threads : counterPc[t] # "idle" => call[t].counter \in Counters

In(t, c, steps) == counterPc[t] \in steps /\ call[t].counter = c
AnyCall == {"write", "source", "reset"}

\* The edited configuration has no source that the register has not.
NoNewSource(t, c) ==
  /\ call[t].config.a \in {counterConfig[c].a, None}
  /\ call[t].config.b \in {counterConfig[c].b, None}

\* Of a counter whose calls neither overlapped nor failed: one call is on, what was
\* counted is of its sources unless a reset is due, and an edit without a reset to come
\* brings no source.
Undisturbed(c) ==
  /\ \A t, u \in Threads : In(t, c, AnyCall) /\ In(u, c, AnyCall) => t = u
  /\ (\A t \in Threads : ~In(t, c, {"reset"})) => from[c] \subseteq {counterConfig[c].a, counterConfig[c].b}
  /\ \A t \in Threads : In(t, c, {"write"}) => NoNewSource(t, c)

CounterInv == CounterTypes /\ \A c \in Counters : c \notin disturbed => Undisturbed(c)

\* What the edits do to the sources.
LEMMA Edits ==
  ASSUME NEW cfg \in Configurations
  PROVE  /\ \A e \in Edited(cfg) : e \in Configurations /\ e.a \in {cfg.a, None} /\ e.b \in {cfg.b, None}
         /\ \A e \in Resourced(cfg) : e \in Configurations
<1> USE CounterAssumption DEF Configurations, Modes, None
<1>1. ASSUME NEW e \in Edited(cfg)
      PROVE  e \in Configurations /\ e.a \in {cfg.a, None} /\ e.b \in {cfg.b, None}
  <2>1. CASE e \in SetTwoSourceMode(cfg) \cup SetPulseLengthMode(cfg)
    BY <2>1 DEF SetTwoSourceMode, SetPulseLengthMode
  <2>2. CASE e \in SetSemiPeriodMode(cfg)
    <3>1. PICK h \in BOOLEAN : e = [cfg EXCEPT !.mode = "one", !.up = h]
      BY <2>2 DEF SetSemiPeriodMode
    <3> QED BY <3>1
  <2>3. CASE e \in SetUpSourceEdge(cfg)
    <3>1. PICK h \in BOOLEAN : e = [cfg EXCEPT !.up = h]
      BY <2>3 DEF SetUpSourceEdge
    <3> QED BY <3>1
  <2>4. CASE e \in SetDownSourceEdge(cfg)
    <3>1. PICK h \in BOOLEAN : e = [cfg EXCEPT !.down = h]
      BY <2>4 DEF SetDownSourceEdge
    <3> QED BY <3>1
  <2>5. CASE e \in ClearUpSource(cfg) \cup ClearDownSource(cfg)
    <3>1. CASE e = [cfg EXCEPT !.up = FALSE, !.a = None]
      BY <3>1
    <3>2. CASE e = [cfg EXCEPT !.down = FALSE, !.b = None]
      BY <3>2
    <3> QED BY <2>5, <3>1, <3>2 DEF ClearUpSource, ClearDownSource
  <2> QED BY <1>1, <2>1, <2>2, <2>3, <2>4, <2>5 DEF Edited
<1>2. ASSUME NEW e \in Resourced(cfg) PROVE e \in Configurations
  <2>1. CASE e \in SetUpSource(cfg)
    <3>1. PICK s \in CounterSources : e = [cfg EXCEPT !.a = s, !.up = cfg.mode = "two" \/ cfg.up]
      BY <2>1 DEF SetUpSource
    <3> QED BY <3>1
  <2>2. CASE e \in SetDownSource(cfg)
    <3>1. PICK s \in CounterSources : e = [cfg EXCEPT !.b = s, !.down = TRUE]
      BY <2>2 DEF SetDownSource
    <3> QED BY <3>1
  <2> QED BY <1>2, <2>1, <2>2 DEF Resourced
<1> QED BY <1>1, <1>2

\* No call is on and nothing is counted at the start.
LEMMA CounterStart == CounterInit => CounterInv
<1> SUFFICES ASSUME CounterInit PROVE CounterInv
  OBVIOUS
<1>1. Blank \in Configurations
  BY DEF Blank, Config, Configurations, Modes, None
<1>2. CounterTypes
  BY <1>1 DEF CounterInit, CounterTypes, CounterSteps, None
<1>3. (\A t \in Threads : counterPc[t] = "idle") /\ \A c \in Counters : from[c] = {}
  BY DEF CounterInit
<1> QED BY <1>2, <1>3 DEF CounterInv, Undisturbed, In, AnyCall

\* Every step of the counters preserves the invariant.
LEMMA CounterStep == CounterInv /\ [CounterNext]_counterVars => CounterInv'
<1> SUFFICES ASSUME CounterInv, [CounterNext]_counterVars PROVE CounterInv'
  OBVIOUS
<1> USE CounterAssumption DEF Enter, CounterReturn, CounterSteps, AnyCall, Disturb
<1>b. Blank \in Configurations
  BY DEF Blank, Config, Configurations, Modes, None
<1>1. CASE UNCHANGED counterVars
  <2>1. CounterTypes' /\ disturbed' = disturbed
    BY <1>1 DEF counterVars, CounterInv, CounterTypes
  <2>2. ASSUME NEW c \in Counters, Undisturbed(c) PROVE Undisturbed(c)'
    BY <1>1, <2>2 DEF counterVars, Undisturbed, In, NoNewSource
  <2> QED BY <2>1, <2>2 DEF CounterInv
<1>2. ASSUME NEW t \in Threads, NEW c \in Counters, NEW cfg \in Configurations,
             NEW step \in AnyCall, counterPc[t] = "idle", Enter(t, c, step, cfg),
             step = "write" => c \in disturbed' \/ (cfg.a \in {counterConfig[c].a, None} /\ cfg.b \in {counterConfig[c].b, None}),
             Busy(c) => c \in disturbed', disturbed \subseteq disturbed',
             counting' \subseteq Counters, UNCHANGED <<counterConfig, from>>
      PROVE  CounterInv'
  <2>1. CounterTypes'
    BY <1>2 DEF CounterInv, CounterTypes
  <2>2. /\ counterPc'[t] = step /\ call'[t] = [counter |-> c, config |-> cfg]
        /\ \A u \in Threads \ {t} : counterPc'[u] = counterPc[u] /\ call'[u] = call[u]
    BY <1>2 DEF CounterInv, CounterTypes
  <2>3. ASSUME NEW d \in Counters, d \notin disturbed' PROVE Undisturbed(d)'
    <3>1. Undisturbed(d)
      BY <1>2, <2>3 DEF CounterInv
    <3>2. CASE d = c
      <4>1. \A u \in Threads \ {t} : ~In(u, c, AnyCall)' /\ ~In(u, c, AnyCall)
        BY <1>2, <2>2, <2>3, <3>2 DEF Busy, In, CounterInv, CounterTypes
      <4>2. from[c] \subseteq {counterConfig[c].a, counterConfig[c].b}
        BY <1>2, <3>1, <3>2, <4>1 DEF Undisturbed, In
      <4>3. In(t, c, {"write"})' => NoNewSource(t, c)'
        <5> SUFFICES ASSUME step = "write" PROVE NoNewSource(t, c)'
          BY <2>2 DEF In
        <5>1. cfg.a \in {counterConfig[c].a, None} /\ cfg.b \in {counterConfig[c].b, None}
          BY <1>2, <2>3, <3>2
        <5>2. call'[t].config = cfg /\ counterConfig' = counterConfig
          BY <1>2, <2>2
        <5> QED BY <5>1, <5>2 DEF NoNewSource
      <4> QED BY <1>2, <3>2, <4>1, <4>2, <4>3 DEF Undisturbed, In
    <3>3. CASE d # c
      <4>1. \A u \in Threads : /\ In(u, d, AnyCall)' <=> In(u, d, AnyCall)
                               /\ In(u, d, {"reset"})' <=> In(u, d, {"reset"})
                               /\ In(u, d, {"write"})' <=> In(u, d, {"write"})
        <5>1. ~In(t, d, AnyCall) /\ ~In(t, d, {"reset"}) /\ ~In(t, d, {"write"})
          BY <1>2 DEF In
        <5>2. call'[t].counter = c
          BY <1>2, <2>2
        <5>3. ~In(t, d, AnyCall)' /\ ~In(t, d, {"reset"})' /\ ~In(t, d, {"write"})'
          BY <5>2, <3>3 DEF In
        <5> QED BY <2>2, <5>1, <5>3 DEF In
      <4>2. \A u \in Threads : In(u, d, {"write"}) => (NoNewSource(u, d)' <=> NoNewSource(u, d))
        <5> SUFFICES ASSUME NEW u \in Threads, In(u, d, {"write"}) PROVE NoNewSource(u, d)' <=> NoNewSource(u, d)
          OBVIOUS
        <5>1. call'[u] = call[u] /\ counterConfig' = counterConfig
          BY <1>2, <2>2 DEF In
        <5> QED BY <5>1 DEF NoNewSource
      <4> QED BY <1>2, <3>1, <4>1, <4>2 DEF Undisturbed
    <3> QED BY <3>2, <3>3
  <2> QED BY <2>1, <2>3 DEF CounterInv
<1>3. ASSUME NEW t \in Threads, NEW c \in Counters, ReadConfig(t, c) PROVE CounterInv'
  <2>1. PICK read \in {counterConfig[c]} \cup Rubbish :
          /\ \/ \E cfg \in Edited(read) : Enter(t, c, "write", cfg)
             \/ \E cfg \in Resourced(read) : Enter(t, c, "source", cfg)
          /\ Disturb(c, Busy(c) \/ read # counterConfig[c])
    BY <1>3 DEF ReadConfig
  <2>2. /\ read \in Configurations /\ counterPc[t] = "idle" /\ counting' \subseteq Counters
        /\ UNCHANGED <<counterConfig, from>> /\ disturbed \subseteq disturbed'
        /\ Busy(c) \/ read # counterConfig[c] => c \in disturbed'
    <3>1. read \in Configurations
      <4>1. counterConfig[c] \in Configurations
        BY DEF CounterInv, CounterTypes
      <4> QED BY <4>1
    <3>2. counterPc[t] = "idle" /\ counting' \subseteq Counters /\ UNCHANGED <<counterConfig, from>>
      BY <1>3 DEF ReadConfig, CounterInv, CounterTypes
    <3> QED BY <2>1, <3>1, <3>2
  <2>3. ASSUME NEW cfg \in Edited(read), Enter(t, c, "write", cfg) PROVE CounterInv'
    <3>1. cfg \in Configurations /\ cfg.a \in {read.a, None} /\ cfg.b \in {read.b, None}
      BY <2>2, Edits
    <3>2. c \in disturbed' \/ (cfg.a \in {counterConfig[c].a, None} /\ cfg.b \in {counterConfig[c].b, None})
      BY <2>2, <3>1
    <3> QED BY <1>2, <2>2, <2>3, <3>1, <3>2
  <2>4. ASSUME NEW cfg \in Resourced(read), Enter(t, c, "source", cfg) PROVE CounterInv'
    BY <1>2, <2>2, <2>4, Edits
  <2> QED BY <2>1, <2>3, <2>4
<1>4. ASSUME NEW t \in Threads, NEW c \in Counters, InitializeCounter(t, c) PROVE CounterInv'
  <2>1. PICK read \in {counterConfig[c]} \cup Rubbish, m \in Modes :
          Enter(t, c, "write", [read EXCEPT !.mode = m]) /\ Disturb(c, Busy(c) \/ read # counterConfig[c])
    BY <1>4 DEF InitializeCounter
  <2>2. /\ read \in Configurations /\ counterPc[t] = "idle" /\ counting' \subseteq Counters
        /\ UNCHANGED <<counterConfig, from>> /\ disturbed \subseteq disturbed'
        /\ Busy(c) \/ read # counterConfig[c] => c \in disturbed'
    <3>1. read \in Configurations
      <4>1. counterConfig[c] \in Configurations
        BY DEF CounterInv, CounterTypes
      <4> QED BY <4>1
    <3>2. counterPc[t] = "idle" /\ counting' \subseteq Counters /\ UNCHANGED <<counterConfig, from>>
      BY <1>4 DEF InitializeCounter, CounterInv, CounterTypes
    <3> QED BY <2>1, <3>1, <3>2
  <2> DEFINE cfg == [read EXCEPT !.mode = m]
  <2>3. cfg \in Configurations /\ cfg.a = read.a /\ cfg.b = read.b
    BY <2>2 DEF Configurations
  <2>4. Enter(t, c, "write", cfg)
    BY <2>1
  <2>5. c \in disturbed' \/ (cfg.a \in {counterConfig[c].a, None} /\ cfg.b \in {counterConfig[c].b, None})
    BY <2>2, <2>3
  <2> HIDE DEF cfg
  <2> QED BY <1>2, <2>2, <2>3, <2>4, <2>5
<1>5. ASSUME NEW t \in Threads, NEW c \in Counters, ResetCounter(t, c) PROVE CounterInv'
  <2>1. /\ counterPc[t] = "idle" /\ Enter(t, c, "reset", Blank) /\ counting' \subseteq Counters
        /\ UNCHANGED <<counterConfig, from>> /\ disturbed \subseteq disturbed'
        /\ Busy(c) => c \in disturbed'
    BY <1>5 DEF ResetCounter, CounterInv, CounterTypes
  <2> QED BY <1>2, <1>b, <2>1
<1>6. ASSUME NEW c \in Counters, FreeCounter(c) PROVE CounterInv'
  <2>1. CounterTypes' /\ disturbed' = disturbed
    BY <1>6 DEF FreeCounter, CounterInv, CounterTypes
  <2>2. ASSUME NEW d \in Counters, Undisturbed(d) PROVE Undisturbed(d)'
    BY <1>6, <2>2 DEF FreeCounter, Undisturbed, In, NoNewSource
  <2> QED BY <2>1, <2>2 DEF CounterInv
<1>7. ASSUME NEW c \in Counters, CountedEdge(c) PROVE CounterInv'
  <2>1. PICK s \in {counterConfig[c].a, counterConfig[c].b} : from' = [from EXCEPT ![c] = @ \cup {s}]
    BY <1>7 DEF CountedEdge
  <2>2. s \in Nat /\ UNCHANGED <<counting, counterConfig, counterPc, call, disturbed>>
    BY <1>7 DEF CountedEdge, CounterInv, CounterTypes, Configurations
  <2>3. CounterTypes'
    BY <2>1, <2>2 DEF CounterInv, CounterTypes
  <2>4. ASSUME NEW d \in Counters, Undisturbed(d) PROVE Undisturbed(d)'
    <3>1. from'[d] \subseteq from[d] \cup {counterConfig[d].a, counterConfig[d].b}
      BY <2>1 DEF CounterInv, CounterTypes
    <3> QED BY <2>2, <2>4, <3>1 DEF Undisturbed, In, NoNewSource
  <2> QED BY <2>2, <2>3, <2>4 DEF CounterInv
<1>8. ASSUME NEW t \in Threads, WriteConfig(t) PROVE CounterInv'
  <2> DEFINE c == call[t].counter
             cfg == call[t].config
  <2>1. c \in Counters /\ cfg \in Configurations /\ counterPc[t] \in {"write", "source"}
    BY <1>8 DEF WriteConfig, CounterInv, CounterTypes
  <2>2. /\ \A u \in Threads \ {t} : counterPc'[u] = counterPc[u] /\ call'[u] = call[u]
        /\ \/ counterPc[t] = "write" /\ counterPc'[t] = "idle"
           \/ counterPc[t] = "source" /\ counterPc'[t] = "reset" /\ call'[t].counter = c
    <3>1. CASE counterPc[t] = "write"
      BY <1>8, <1>b, <3>1 DEF WriteConfig, ResetFollows, CounterInv, CounterTypes
    <3>2. CASE counterPc[t] = "source"
      <4>1. Enter(t, c, "reset", Blank)
        BY <1>8, <3>2 DEF WriteConfig, ResetFollows
      <4> HIDE DEF c
      <4>2. call'[t] = [counter |-> c, config |-> Blank] /\ counterPc'[t] = "reset"
        BY <4>1 DEF CounterInv, CounterTypes
      <4>3. \A u \in Threads \ {t} : counterPc'[u] = counterPc[u] /\ call'[u] = call[u]
        BY <4>1 DEF CounterInv, CounterTypes
      <4>4. call'[t].counter = c
        BY <2>1, <1>b, <4>2
      <4> QED BY <3>2, <4>2, <4>3, <4>4
    <3> QED BY <2>1, <3>1, <3>2
  <2>3. /\ \A d \in Counters \ {c} : counterConfig'[d] = counterConfig[d] /\ from'[d] = from[d]
        /\ from'[c] = Kept(c, cfg)
        /\ c \notin disturbed' => counterConfig'[c] = cfg /\ c \notin disturbed
        /\ disturbed \subseteq disturbed'
    <3>1. counterConfig \in [Counters -> Configurations] /\ from \in [Counters -> SUBSET Nat]
      BY DEF CounterInv, CounterTypes
    <3>2. from' = [from EXCEPT ![c] = Kept(c, cfg)]
      BY <1>8 DEF WriteConfig
    <3>3. \/ counterConfig' = [counterConfig EXCEPT ![c] = cfg] /\ disturbed' = disturbed
          \/ disturbed' = disturbed \cup {c} /\ counterConfig' = counterConfig
      BY <1>8 DEF WriteConfig
    <3> HIDE DEF c, cfg
    <3>4. \A d \in Counters \ {c} : counterConfig'[d] = counterConfig[d]
      BY <2>1, <3>1, <3>3
    <3>5. \A d \in Counters \ {c} : from'[d] = from[d]
      BY <2>1, <3>1, <3>2
    <3>6. from'[c] = Kept(c, cfg)
      BY <2>1, <3>1, <3>2
    <3>7. c \notin disturbed' => counterConfig'[c] = cfg /\ c \notin disturbed
      BY <2>1, <3>1, <3>3
    <3> QED BY <3>3, <3>4, <3>5, <3>6, <3>7
  <2>4. CounterTypes'
    <3>1. counterConfig' \in [Counters -> Configurations] /\ counting' = counting
      BY <1>8, <2>1 DEF WriteConfig, CounterInv, CounterTypes
    <3>2. from' \in [Counters -> SUBSET Nat]
      <4>1. Kept(c, cfg) \subseteq from[c] /\ from' = [from EXCEPT ![c] = Kept(c, cfg)]
        BY <1>8 DEF WriteConfig, Kept
      <4> HIDE DEF c, cfg
      <4> QED BY <2>1, <4>1 DEF CounterInv, CounterTypes
    <3>3. /\ counterPc' \in [Threads -> CounterSteps]
          /\ call' \in [Threads -> [counter : Counters \cup {None}, config : Configurations]]
      <4>1. PICK d \in {c, None}, step \in {"reset", "idle"} : Enter(t, d, step, Blank)
        BY <1>8 DEF WriteConfig
      <4> QED BY <1>b, <2>1, <4>1 DEF CounterInv, CounterTypes
    <3>4. \A u \in Threads : counterPc'[u] # "idle" => call'[u].counter \in Counters
      BY <2>1, <2>2 DEF CounterInv, CounterTypes
    <3>5. counting' \subseteq Counters
      BY <3>1 DEF CounterInv, CounterTypes
    <3> QED BY <3>1, <3>2, <3>3, <3>4, <3>5 DEF CounterTypes
  <2>5. ASSUME NEW d \in Counters, d \notin disturbed' PROVE Undisturbed(d)'
    <3>1. Undisturbed(d)
      BY <2>3, <2>5 DEF CounterInv
    <3>2. CASE d = c
      <4>1. \A u \in Threads \ {t} : counterPc'[u] # "idle" => call'[u].counter # c
        BY <2>1, <2>2, <3>1, <3>2 DEF Undisturbed, In, CounterInv, CounterTypes
      <4>2. counterPc'[t] = "idle" => from'[c] \subseteq {cfg.a, cfg.b}
        <5> SUFFICES ASSUME counterPc[t] = "write" PROVE from'[c] \subseteq {cfg.a, cfg.b}
          BY <2>2
        <5>1. cfg.a \in {counterConfig[c].a, None} /\ cfg.b \in {counterConfig[c].b, None}
          BY <3>1, <3>2 DEF Undisturbed, In, NoNewSource
        <5>2. from[c] \subseteq {counterConfig[c].a, counterConfig[c].b}
          BY <2>2, <3>1, <3>2 DEF Undisturbed, In
        <5> SUFFICES ASSUME NEW s \in from'[c] PROVE s \in {cfg.a, cfg.b}
          OBVIOUS
        <5>3. /\ s \in {counterConfig[c].a, counterConfig[c].b}
              /\ cfg.a = None => s # counterConfig[c].a
              /\ cfg.b = None => s # counterConfig[c].b
          BY <2>3, <5>2 DEF Kept
        <5> QED BY <5>1, <5>3
      <4>3. counterConfig'[c] = cfg
        BY <2>3, <2>5, <3>2
      <4> QED BY <2>2, <3>2, <4>1, <4>2, <4>3 DEF Undisturbed, In
    <3>3. CASE d # c
      <4>1. \A u \in Threads : /\ In(u, d, AnyCall)' <=> In(u, d, AnyCall)
                               /\ In(u, d, {"reset"})' <=> In(u, d, {"reset"})
                               /\ In(u, d, {"write"})' <=> In(u, d, {"write"})
        BY <2>1, <2>2, <3>3 DEF In
      <4>2. \A u \in Threads : In(u, d, {"write"}) => (NoNewSource(u, d)' <=> NoNewSource(u, d))
        <5> SUFFICES ASSUME NEW u \in Threads, In(u, d, {"write"}) PROVE NoNewSource(u, d)' <=> NoNewSource(u, d)
          OBVIOUS
        <5>1. call'[u] = call[u] /\ counterConfig'[d] = counterConfig[d]
          BY <2>2, <2>3, <3>3 DEF In
        <5> QED BY <5>1 DEF NoNewSource
      <4> QED BY <2>3, <3>1, <3>3, <4>1, <4>2 DEF Undisturbed
    <3> QED BY <3>2, <3>3
  <2> QED BY <2>4, <2>5 DEF CounterInv
<1>9. ASSUME NEW t \in Threads, Reset(t) PROVE CounterInv'
  <2> DEFINE c == call[t].counter
  <2>1. c \in Counters /\ counterPc[t] = "reset" /\ UNCHANGED <<counting, counterConfig>>
    BY <1>9 DEF Reset, CounterInv, CounterTypes
  <2>2. counterPc'[t] = "idle" /\ \A u \in Threads \ {t} : counterPc'[u] = counterPc[u] /\ call'[u] = call[u]
    BY <1>9 DEF Reset, CounterInv, CounterTypes
  <2>3. /\ \A d \in Counters \ {c} : from'[d] = from[d]
        /\ c \notin disturbed' => from'[c] = {} /\ c \notin disturbed
        /\ disturbed \subseteq disturbed'
    BY <1>9, <2>1 DEF Reset, CounterInv, CounterTypes
  <2>4. CounterTypes'
    <3>1. counterPc' \in [Threads -> CounterSteps]
      BY <1>9 DEF Reset, CounterInv, CounterTypes
    <3>2. call' \in [Threads -> [counter : Counters \cup {None}, config : Configurations]]
      BY <1>9, <1>b DEF Reset, CounterInv, CounterTypes
    <3>3. from' \in [Counters -> SUBSET Nat]
      BY <1>9, <2>1 DEF Reset, CounterInv, CounterTypes
    <3>4. \A u \in Threads : counterPc'[u] # "idle" => call'[u].counter \in Counters
      BY <2>2 DEF CounterInv, CounterTypes
    <3> QED BY <2>1, <3>1, <3>2, <3>3, <3>4 DEF CounterInv, CounterTypes
  <2>5. ASSUME NEW d \in Counters, d \notin disturbed' PROVE Undisturbed(d)'
    <3>1. Undisturbed(d)
      BY <2>3, <2>5 DEF CounterInv
    <3>2. CASE d = c
      <4>1. \A u \in Threads \ {t} : counterPc'[u] # "idle" => call'[u].counter # c
        BY <2>1, <2>2, <3>1, <3>2 DEF Undisturbed, In, CounterInv, CounterTypes
      <4>2. from'[c] = {}
        BY <2>3, <2>5, <3>2
      <4> QED BY <2>2, <3>2, <4>1, <4>2 DEF Undisturbed, In
    <3>3. CASE d # c
      <4>1. \A u \in Threads : /\ In(u, d, AnyCall)' <=> In(u, d, AnyCall)
                               /\ In(u, d, {"reset"})' <=> In(u, d, {"reset"})
                               /\ In(u, d, {"write"})' <=> In(u, d, {"write"})
        BY <2>1, <2>2, <3>3 DEF In
      <4>2. \A u \in Threads : In(u, d, {"write"}) => (NoNewSource(u, d)' <=> NoNewSource(u, d))
        BY <2>1, <2>2 DEF In, NoNewSource
      <4> QED BY <2>1, <2>3, <3>1, <3>3, <4>1, <4>2 DEF Undisturbed
    <3> QED BY <3>2, <3>3
  <2> QED BY <2>4, <2>5 DEF CounterInv
<1> QED BY <1>1, <1>3, <1>4, <1>5, <1>6, <1>7, <1>8, <1>9 DEF CounterNext

\* For any number of threads, counters and sources, and whatever a failed read leaves on
\* the stack: a counter whose calls did not overlap or fail counts its own sources.
THEOREM CountsAreOfTheirSources == CounterSpec => []CountsItsSources
<1>1. CounterInv => CountsItsSources
  <2> SUFFICES ASSUME CounterInv, NEW c \in Counters, ~Busy(c), c \notin disturbed
               PROVE  from[c] \subseteq {counterConfig[c].a, counterConfig[c].b}
    BY DEF CountsItsSources
  <2> QED BY DEF CounterInv, CounterTypes, CounterSteps, Undisturbed, In, Busy
<1> QED BY CounterStart, CounterStep, <1>1, PTL DEF CounterSpec

-----------------------------------------------------------------------------
(* The clock *)

Now == <<upper, lower>>

\* What a thread knows of the clock after each of its reads.  The upper halves
\* it has read lie between that of `since' and the present one, which are at
\* most one apart; the lower half belongs to some upper half u in between.
Begun(t) == clockPc[t] # "idle" => AtMost(since[t], Now) /\ WithinWrap(since[t], Now)

Upper1Read(t) == since[t][1] <= upper1[t] /\ upper1[t] <= upper

LowerRead(t) ==
  \E u \in Uppers : /\ upper1[t] <= u
                    /\ AtMost(since[t], <<u, low[t]>>)
                    /\ AtMost(<<u, low[t]>>, Now)

Progress(t) ==
  /\ clockPc[t] = "lower" /\ ~error[t] /\ ~lost[t] => Upper1Read(t)
  /\ clockPc[t] = "upper2" /\ ~error[t] /\ ~lost[t] => Upper1Read(t) /\ LowerRead(t)
  /\ clockPc[t] = "reread" /\ ~lost[t] =>
       Upper1Read(t) /\ upper1[t] < upper2[t] /\ upper2[t] <= upper
  /\ clockPc[t] = "return" /\ ~lost[t] =>
       AtMost(since[t], Result(t)) /\ AtMost(Result(t), Now)
  /\ clockPc[t] = "expanded" /\ ~lost[t] => Result(t) = since[t]

\* Only a time rolled back to before 0 is out of range, and nobody reads it.
ClockTypes ==
  /\ ClockTypeOK
  /\ \A t \in Threads :
       clockPc[t] \in {"upper1", "lower", "upper2", "reread", "return"} => upper2[t] \in Uppers

ClockInv == ClockTypes /\ \A t \in Threads : Begun(t) /\ Progress(t)

\* Type correctness, with every register and local in its range.
THEOREM ClockTyping == ClockSpec => []ClockTypes
<1>1. ClockInit => ClockTypes
  BY ClockAssumption DEF ClockInit, ClockTypes, ClockTypeOK, Clock, Uppers, Halves, ClockSteps
<1>2. ClockTypes /\ [ClockNext]_clockVars => ClockTypes'
  <2> SUFFICES ASSUME ClockTypes, [ClockNext]_clockVars PROVE ClockTypes'
    OBVIOUS
  <2> USE ClockAssumption DEF ClockTypes, ClockTypeOK, ClockSteps
  <2>1. CASE Tick
    BY <2>1 DEF Tick, Carry, clockGhosts, Uppers, Halves
  <2>2. ASSUME NEW t \in Threads, ClockCall(t) PROVE ClockTypes'
    <3>1. CASE Stamp(t)
      BY <3>1 DEF Stamp, ClockGoto, clockRegisters, Clock
    <3>2. CASE ClockBegin(t)
      BY <3>2 DEF ClockBegin, ClockGoto, clockRegisters, Clock, Uppers, Halves
    <3>3. CASE ReadUpper1(t)
      BY <3>3 DEF ReadUpper1, ReadU32, ClockGoto, clockRegisters, clockGhosts
    <3>4. CASE ReadLower(t)
      BY <3>4 DEF ReadLower, ReadU32, ClockGoto, clockRegisters
    <3>5. CASE ReadUpper2(t)
      <4>1. /\ upper2' \in [Threads -> -1 .. MaxUpper]
            /\ error' \in [Threads -> BOOLEAN]
            /\ \A u \in Threads : upper2[u] \in Uppers => upper2'[u] \in Uppers
        <5>1. CASE upper2' = [upper2 EXCEPT ![t] = upper] /\ error' = [error EXCEPT ![t] = FALSE]
          BY <5>1 DEF Uppers
        <5>2. CASE error' = [error EXCEPT ![t] = TRUE] /\ UNCHANGED upper2
          BY <5>2
        <5> QED BY <3>5, <5>1, <5>2 DEF ReadUpper2, ReadU32
      <4>2. AfterUpper2(t) \in {"idle", "reread", "return"}
        BY DEF AfterUpper2
      <4> QED BY <3>5, <4>1, <4>2 DEF ReadUpper2, ClockGoto, clockRegisters
    <3>6. CASE RereadLower(t)
      BY <3>6 DEF RereadLower, ReadU32, ClockGoto, clockRegisters, clockGhosts
    <3>7. CASE ClockReturn(t)
      <4>1. CASE expanding[t]
        <5>1. upper2[t] \in Uppers /\ since[t][2] \in Halves
          BY <3>7 DEF ClockReturn, Clock
        <5>2. /\ low' \in [Threads -> Halves]
              /\ upper2' \in [Threads -> -1 .. MaxUpper]
              /\ \A u \in Threads : u # t => upper2'[u] = upper2[u]
          BY <3>7, <4>1, <5>1 DEF ClockReturn, Uppers
        <5> QED BY <3>7, <4>1, <5>2 DEF ClockReturn, ClockGoto, clockRegisters, clockGhosts
      <4>2. CASE ~expanding[t]
        BY <3>7, <4>2 DEF ClockReturn, ClockGoto, clockRegisters, clockGhosts
      <4> QED BY <4>1, <4>2
    <3>8. CASE ExpandReturn(t)
      BY <3>8 DEF ExpandReturn, ClockGoto, clockRegisters, clockGhosts
    <3> QED BY <2>2, <3>1, <3>2, <3>3, <3>4, <3>5, <3>6, <3>7, <3>8 DEF ClockCall
  <2>3. CASE UNCHANGED clockVars
    BY <2>3 DEF clockVars, clockRegisters, clockGhosts
  <2> QED BY <2>1, <2>2, <2>3 DEF ClockNext
<1> QED BY <1>1, <1>2, PTL DEF ClockSpec

\* The lexicographic order is one, and the clock moves up in it.
LEMMA ClockOrder ==
  /\ \A s \in Clock : AtMost(s, s)
  /\ \A s, t, u \in Clock : AtMost(s, t) /\ AtMost(t, u) => AtMost(s, u)
BY ClockAssumption DEF AtMost, Clock, Uppers, Halves

LEMMA TickMovesUp == ASSUME ClockTypes, ClockTypes', Tick PROVE AtMost(Now, Now')
BY ClockAssumption DEF ClockTypes, ClockTypeOK, Tick, Carry, AtMost, Now, Uppers, Halves

\* What is known of thread t stays true while its own locals do and time passes.
LEMMA TimePasses ==
  ASSUME NEW t \in Threads, ClockTypes, ClockTypes', AtMost(Now, Now'),
         clockPc'[t] = clockPc[t], since'[t] = since[t], lost'[t] = lost[t],
         error'[t] = error[t], upper1'[t] = upper1[t], low'[t] = low[t],
         upper2'[t] = upper2[t],
         clockPc[t] # "idle" => WithinWrap(since[t], Now)',
         Begun(t), Progress(t)
  PROVE  Begun(t)' /\ Progress(t)'
<1>1. Now \in Clock /\ Now' \in Clock /\ since[t] \in Clock /\ upper <= upper'
  BY DEF ClockTypes, ClockTypeOK, Now, Clock, AtMost, Uppers, Halves
<1>2. \A s \in Clock : AtMost(s, Now) => AtMost(s, Now)'
  BY <1>1, ClockOrder DEF Now
<1>3. Begun(t)'
  BY <1>1, <1>2 DEF Begun, WithinWrap, Now
<1>4. Upper1Read(t) => Upper1Read(t)'
  BY <1>1, ClockAssumption DEF Upper1Read, Clock, Uppers, ClockTypes, ClockTypeOK
<1>5. LowerRead(t) => LowerRead(t)'
  <2> SUFFICES ASSUME NEW u \in Uppers, upper1[t] <= u, AtMost(since[t], <<u, low[t]>>),
                      AtMost(<<u, low[t]>>, Now)
               PROVE  LowerRead(t)'
    BY DEF LowerRead
  <2>1. <<u, low[t]>> \in Clock
    BY DEF Clock, ClockTypes, ClockTypeOK
  <2> QED BY <1>2, <2>1 DEF LowerRead, AtMost, Now
<1>6. clockPc[t] = "return" => (AtMost(Result(t), Now) => AtMost(Result(t), Now)')
  <2>1. clockPc[t] = "return" => Result(t) \in Clock
    BY DEF Result, Clock, ClockTypes, ClockTypeOK
  <2> QED BY <1>2, <2>1 DEF Result, AtMost, Now
<1>7. Progress(t)'
  <2>1. Result(t)' = Result(t)
    BY DEF Result
  <2>2. AtMost(since[t], Result(t)) => AtMost(since[t], Result(t))'
    BY <2>1 DEF AtMost
  <2>3. upper2[t] <= upper /\ clockPc[t] = "reread" => upper2'[t] <= upper'
    BY <1>1, ClockAssumption DEF ClockTypes, ClockTypeOK, Uppers
  <2> QED BY <1>4, <1>5, <1>6, <2>1, <2>2, <2>3 DEF Progress
<1> QED BY <1>3, <1>7

\* A thread's own step keeps what is known of it: one case per program step.
LEMMA ClockOwnStep ==
  ASSUME NEW t \in Threads, ClockTypes, ClockTypes', Begun(t), Progress(t), ClockCall(t)
  PROVE  Begun(t)' /\ Progress(t)'
<1>1. /\ clockRegisters' = clockRegisters
      /\ Now \in Clock /\ Now' = Now /\ since[t] \in Clock /\ since'[t] \in Clock
      /\ upper \in Nat /\ lower \in Nat /\ lower < Half
  <2>1. clockRegisters' = clockRegisters
    BY DEF ClockCall, Stamp, ClockBegin, ReadUpper1, ReadLower, ReadUpper2, RereadLower,
       ClockReturn, ExpandReturn
  <2>2. Now \in Clock /\ since[t] \in Clock /\ since'[t] \in Clock
    BY DEF Now, Clock, ClockTypes, ClockTypeOK
  <2> QED BY <2>1, <2>2, ClockAssumption
          DEF clockRegisters, Now, ClockTypes, ClockTypeOK, Uppers, Halves
<1>2. AtMost(Now, Now) /\ WithinWrap(Now, Now)
  BY <1>1, ClockOrder DEF WithinWrap
<1>3. CASE Stamp(t)
  <2>1. clockPc'[t] = "stamped" /\ since'[t] = Now
    BY <1>3 DEF Stamp, ClockGoto, ClockTypes, ClockTypeOK, Now
  <2> QED BY <1>1, <1>2, <2>1 DEF Begun, Progress
<1>4. CASE ClockBegin(t)
  <2>1. clockPc'[t] = "upper1" /\ since'[t] = IF clockPc[t] = "stamped" THEN since[t] ELSE Now
    BY <1>4 DEF ClockBegin, ClockGoto, ClockTypes, ClockTypeOK, Now
  <2> QED BY <1>1, <1>2, <2>1 DEF Begun, Progress
<1>5. ASSUME since'[t] = since[t], clockPc[t] # "idle" PROVE Begun(t)'
  BY <1>1, <1>5 DEF Begun
<1>6. CASE ReadUpper1(t)
  <2>1. /\ clockPc[t] = "upper1" /\ clockPc'[t] = "lower" /\ since'[t] = since[t]
        /\ error'[t] \/ upper1'[t] = upper
    BY <1>6 DEF ReadUpper1, ReadU32, ClockGoto, ClockTypes, ClockTypeOK, clockGhosts
  <2>2. since[t][1] <= upper
    BY <1>1, <2>1, ClockAssumption DEF Begun, AtMost, Now, Clock, Uppers
  <2>3. ~error'[t] => Upper1Read(t)'
    BY <1>1, <2>1, <2>2 DEF Upper1Read, clockRegisters
  <2> QED BY <1>5, <2>1, <2>3 DEF Progress
<1>7. CASE ReadLower(t)
  <2>1. /\ clockPc[t] = "lower" /\ clockPc'[t] = "upper2" /\ since'[t] = since[t]
        /\ upper1'[t] = upper1[t]
        /\ lost'[t] = IF error[t] THEN TRUE ELSE lost[t]
        /\ error'[t] \/ low'[t] = lower
    BY <1>7 DEF ReadLower, ReadU32, ClockGoto, ClockTypes, ClockTypeOK
  <2>2. SUFFICES ASSUME ~lost'[t], ~error'[t]
                 PROVE  Upper1Read(t)' /\ LowerRead(t)'
    BY <1>5, <2>1, <2>2 DEF Progress
  <2>3. Upper1Read(t)
    BY <2>1, <2>2 DEF Progress
  <2>4. Upper1Read(t)'
    BY <1>1, <2>1, <2>3 DEF Upper1Read, clockRegisters
  <2>5. <<upper, low'[t]>> = Now /\ AtMost(since[t], Now)
    BY <2>1, <2>2 DEF Now, Begun
  <2> QED BY <1>1, <1>2, <2>1, <2>3, <2>4, <2>5 DEF LowerRead, Upper1Read, ClockTypes, ClockTypeOK
<1>8. CASE ReadUpper2(t)
  <2>1. /\ clockPc[t] = "upper2" /\ clockPc'[t] = AfterUpper2(t) /\ since'[t] = since[t]
        /\ upper1'[t] = upper1[t] /\ low'[t] = low[t]
        /\ lost'[t] = IF error[t] THEN TRUE ELSE lost[t]
        /\ error'[t] \/ upper2'[t] = upper
    BY <1>8 DEF ReadUpper2, ReadU32, ClockGoto, ClockTypes, ClockTypeOK
  <2>2. CASE error'[t]
    <3>1. clockPc'[t] = "idle"
      BY <2>1, <2>2 DEF AfterUpper2
    <3> QED BY <1>5, <2>1, <3>1 DEF Progress
  <2>3. CASE ~error'[t] /\ lost'[t]
    <3>1. clockPc'[t] \in {"reread", "return"}
      BY <2>1, <2>3 DEF AfterUpper2
    <3> QED BY <1>5, <2>1, <2>3, <3>1 DEF Progress
  <2>4. CASE ~error'[t] /\ ~lost'[t]
    <3>1. Upper1Read(t) /\ LowerRead(t) /\ upper2'[t] = upper
      BY <2>1, <2>4 DEF Progress
    <3>2. upper1[t] \in Nat /\ upper1[t] <= upper /\ Upper1Read(t)'
      BY <1>1, <2>1, <3>1, ClockAssumption DEF Upper1Read, ClockTypes, ClockTypeOK, Uppers, clockRegisters
    <3>3. CASE upper1[t] # upper
      <4>1. clockPc'[t] = "reread"
        BY <2>1, <2>4, <3>1, <3>3 DEF AfterUpper2
      <4> QED BY <1>1, <1>5, <2>1, <3>1, <3>2, <3>3, <4>1 DEF Progress, clockRegisters
    <3>4. CASE upper1[t] = upper
      <4>1. clockPc'[t] = "return"
        BY <2>1, <2>4, <3>1, <3>4 DEF AfterUpper2
      <4>2. PICK u \in Uppers : /\ upper1[t] <= u
                                /\ AtMost(since[t], <<u, low[t]>>)
                                /\ AtMost(<<u, low[t]>>, Now)
        BY <3>1 DEF LowerRead
      <4>3. u = upper
        BY <1>1, <3>4, <4>2, ClockAssumption DEF AtMost, Now, Uppers
      <4>4. Result(t)' = <<u, low[t]>>
        BY <2>1, <3>1, <4>3 DEF Result
      <4>5. AtMost(since[t], Result(t))' /\ AtMost(Result(t), Now)'
        BY <1>1, <2>1, <4>2, <4>4 DEF AtMost
      <4> QED BY <1>5, <2>1, <4>1, <4>5 DEF Progress
    <3> QED BY <3>3, <3>4
  <2> QED BY <2>2, <2>3, <2>4
<1>9. CASE RereadLower(t)
  <2>1. /\ clockPc[t] = "reread" /\ clockPc'[t] = (IF error'[t] THEN "idle" ELSE "return")
        /\ since'[t] = since[t] /\ lost'[t] = lost[t]
        /\ upper2'[t] = upper2[t]
        /\ error'[t] \/ low'[t] = lower
    BY <1>9 DEF RereadLower, ReadU32, ClockGoto, ClockTypes, ClockTypeOK, clockGhosts
  <2>2. SUFFICES ASSUME ~lost'[t], ~error'[t]
                 PROVE  AtMost(since[t], Result(t))' /\ AtMost(Result(t), Now)'
    BY <1>5, <2>1, <2>2 DEF Progress
  <2>3. Upper1Read(t) /\ upper1[t] < upper2[t] /\ upper2[t] <= upper
    BY <2>1, <2>2 DEF Progress
  <2>4. upper2[t] = upper
    <3>1. since[t][1] = upper \/ since[t][1] + 1 = upper
      BY <2>1 DEF Begun, WithinWrap, Now
    <3>2. since[t][1] \in Nat /\ upper1[t] \in Nat /\ upper2[t] \in Nat
      BY <1>1, <2>1, ClockAssumption DEF Clock, Uppers, ClockTypes, ClockTypeOK
    <3> QED BY <1>1, <2>3, <3>1, <3>2 DEF Upper1Read
  <2>5. Result(t)' = Now
    BY <2>1, <2>2, <2>4 DEF Result, Now
  <2> QED BY <1>1, <1>2, <2>1, <2>5 DEF Begun, AtMost
<1>10. CASE ClockReturn(t)
  <2>1. clockPc[t] = "return" /\ since'[t] = since[t] /\ lost'[t] = lost[t]
    BY <1>10 DEF ClockReturn, clockGhosts
  <2>2. CASE ~expanding[t]
    <3>1. clockPc'[t] = "idle"
      BY <1>10, <2>2 DEF ClockReturn, ClockGoto, ClockTypes, ClockTypeOK
    <3> QED BY <1>5, <2>1, <3>1 DEF Progress
  <2>3. CASE expanding[t]
    <3>1. /\ clockPc'[t] = "expanded" /\ low'[t] = since[t][2]
          /\ upper2'[t] = IF RolledBack(t) THEN upper2[t] - 1 ELSE upper2[t]
      BY <1>10, <2>3 DEF ClockReturn, ClockGoto, ClockTypes, ClockTypeOK
    <3>2. SUFFICES ASSUME ~lost[t] PROVE Result(t)' = since[t]
      BY <1>5, <2>1, <3>1, <3>2 DEF Progress
    <3>3. AtMost(since[t], Result(t)) /\ AtMost(Result(t), Now)
      BY <2>1, <3>2 DEF Progress
    <3>4. WithinWrap(since[t], Now)
      BY <2>1 DEF Begun
    <3>5. upper2[t] \in Nat /\ low[t] \in Nat /\ since[t][1] \in Nat /\ since[t][2] \in Nat
      BY <1>1, <2>1, ClockAssumption DEF ClockTypes, ClockTypeOK, Uppers, Halves, Clock
    <3>6. upper2'[t] = since[t][1]
      BY <1>1, <3>1, <3>3, <3>4, <3>5 DEF RolledBack, AtMost, WithinWrap, Result, Now
    <3> QED BY <1>1, <3>1, <3>6 DEF Result, Clock
  <2> QED BY <2>2, <2>3
<1>11. CASE ExpandReturn(t)
  <2>1. clockPc[t] = "expanded" /\ clockPc'[t] = "idle" /\ since'[t] = since[t]
    BY <1>11 DEF ExpandReturn, ClockGoto, ClockTypes, ClockTypeOK, clockGhosts
  <2> QED BY <1>5, <2>1 DEF Progress
<1> QED BY <1>3, <1>4, <1>6, <1>7, <1>8, <1>9, <1>10, <1>11 DEF ClockCall

LEMMA ClockInvariance == ClockSpec => []ClockInv
<1>1. ClockInit => ClockInv
  <2> SUFFICES ASSUME ClockInit PROVE ClockInv
    OBVIOUS
  <2>1. ClockTypes
    BY ClockAssumption DEF ClockInit, ClockTypes, ClockTypeOK, Clock, Uppers, Halves, ClockSteps
  <2>2. \A t \in Threads : Begun(t) /\ Progress(t)
    BY DEF ClockInit, Begun, Progress
  <2> QED BY <2>1, <2>2 DEF ClockInv
<1>2. ClockInv /\ ClockTypes' /\ [ClockNext]_clockVars => ClockInv'
  <2> SUFFICES ASSUME ClockInv, ClockTypes', [ClockNext]_clockVars, NEW u \in Threads
               PROVE  Begun(u)' /\ Progress(u)'
    BY DEF ClockInv
  <2>1. ClockTypes /\ Begun(u) /\ Progress(u)
    BY DEF ClockInv
  <2>2. AtMost(Now, Now)
    BY <2>1, ClockOrder DEF Now, Clock, ClockTypes, ClockTypeOK
  <2>3. CASE Tick
    <3>1. AtMost(Now, Now')
      BY <2>1, <2>3, TickMovesUp
    <3>2. clockPc[u] # "idle" => WithinWrap(since[u], Now)'
      BY <2>3 DEF Tick, WithinWrap, Now, clockGhosts
    <3> QED BY <2>1, <2>3, <3>1, <3>2, TimePasses DEF Tick, clockGhosts
  <2>4. ASSUME NEW t \in Threads, ClockCall(t) PROVE Begun(u)' /\ Progress(u)'
    <3>1. CASE t = u
      BY <2>1, <2>4, <3>1, ClockOwnStep
    <3>2. CASE t # u
      <4>1. /\ clockPc'[u] = clockPc[u] /\ since'[u] = since[u] /\ lost'[u] = lost[u]
            /\ error'[u] = error[u] /\ upper1'[u] = upper1[u]
            /\ low'[u] = low[u] /\ upper2'[u] = upper2[u]
        BY <2>1, <2>4, <3>2 DEF ClockCall, Stamp, ClockBegin, ReadUpper1, ReadLower,
           ReadUpper2, RereadLower, ClockReturn, ExpandReturn, ReadU32, ClockGoto, clockGhosts,
           ClockTypes, ClockTypeOK
      <4>2. clockRegisters' = clockRegisters
        BY <2>4 DEF ClockCall, Stamp, ClockBegin, ReadUpper1, ReadLower, ReadUpper2,
           RereadLower, ClockReturn, ExpandReturn
      <4>3. Now' = Now /\ (clockPc[u] # "idle" => WithinWrap(since[u], Now)')
        BY <2>1, <4>1, <4>2 DEF Now, clockRegisters, Begun, WithinWrap
      <4> QED BY <2>1, <2>2, <4>1, <4>3, TimePasses
    <3> QED BY <3>1, <3>2
  <2>5. CASE UNCHANGED clockVars
    <3>1. Now' = Now /\ (clockPc[u] # "idle" => WithinWrap(since[u], Now)')
      BY <2>1, <2>5 DEF clockVars, clockRegisters, clockGhosts, Now, Begun, WithinWrap
    <3> QED BY <2>1, <2>2, <2>5, <3>1, TimePasses DEF clockVars, clockGhosts
  <2> QED BY <2>3, <2>4, <2>5 DEF ClockNext
<1> QED BY <1>1, <1>2, ClockTyping, PTL DEF ClockSpec

\* The time HAL_GetFPGATime returns was shown by the clock during the call.
THEOREM ReadIsOfTheCall == ClockSpec => []TimeIsOfTheCall
<1>1. ClockInv => TimeIsOfTheCall
  BY DEF ClockInv, Progress, TimeIsOfTheCall, Now
<1> QED BY <1>1, ClockInvariance, PTL

\* HAL_ExpandFPGATime returns the full time of the timestamp.
THEOREM ExpansionIsExact == ClockSpec => []ExpandIsExact
<1>1. ClockInv => ExpandIsExact
  BY DEF ClockInv, Progress, ExpandIsExact
<1> QED BY <1>1, ClockInvariance, PTL

-----------------------------------------------------------------------------
(* DMA *)

\* Induction without an operator: a set of numbers that is not empty has a least one.
LEMMA Least ==
  ASSUME NEW S, S \subseteq Nat, S # {}
  PROVE  \E x \in S : \A y \in S : x <= y
<1> DEFINE R == {ss \in Nat \X Nat : ss[1] < ss[2]}
<1>1. R = OpToRel(<, Nat)
  BY Zenon DEF OpToRel
<1> HIDE DEF R
<1>2. PICK x \in S : \A y \in S : <<y, x>> \notin R
  BY <1>1, NatLessThanWellFounded, WFMin, Zenon
<1>3. ASSUME NEW y \in S PROVE x <= y
  <2>1. <<y, x>> \in Nat \X Nat /\ ~(y < x)
    BY <1>2 DEF R
  <2> QED BY <2>1
<1> QED BY <1>3

(* The layout of a sample *)

\* kChannelSize
LEMMA SizesAre ==
  ASSUME NEW c \in DMAChannels
  PROVE  /\ kChannelSize[c + 1] \in 1 .. 4
         /\ \A chans : Size(chans, c) \in 0 .. 4
<1>1. kChannelSize[c + 1] \in 1 .. 4
  BY DEF DMAChannels, kChannelSize
<1> QED BY <1>1 DEF Size

\* accum_size up to a channel.
Accumulates(f, chans, last) ==
  /\ f \in [0 .. last -> Nat] /\ f[0] = 0
  /\ \A d \in 1 .. last : f[d] = f[d - 1] + Size(chans, d - 1)

LEMMA SomeAccumulates ==
  ASSUME NEW chans
  PROVE  \E f : Accumulates(f, chans, 21)
<1> DEFINE Missing == {n \in DMAChannels : ~\E f : Accumulates(f, chans, n)}
<1> SUFFICES ASSUME Missing # {} PROVE FALSE
  <2>1. 21 \in DMAChannels
    BY DEF DMAChannels
  <2> QED BY <2>1
<1>1. PICK n \in Missing : \A m \in Missing : n <= m
  <2>1. Missing \subseteq Nat
    BY DEF DMAChannels
  <2> HIDE DEF Missing
  <2> QED BY <2>1, Least
<1>2. CASE n = 0
  <2>1. Accumulates([d \in 0 .. 0 |-> 0], chans, 0)
    BY DEF Accumulates
  <2> QED BY <1>2, <2>1
<1>3. CASE n # 0
  <2>1. n - 1 \in DMAChannels /\ n - 1 \notin Missing /\ n \in 1 .. 21
    BY <1>1, <1>3 DEF DMAChannels
  <2>2. PICK f : Accumulates(f, chans, n - 1)
    BY <2>1
  <2> DEFINE g == [d \in 0 .. n |-> IF d = n THEN f[n - 1] + Size(chans, n - 1) ELSE f[d]]
  <2>3. Size(chans, n - 1) \in Nat
    BY <2>1, SizesAre
  <2>4. /\ \A d \in 0 .. n - 1 : f[d] \in Nat /\ d \in 0 .. n /\ d # n
        /\ n \in 0 .. n /\ n - 1 \in 0 .. n - 1
    BY <2>1, <2>2 DEF Accumulates
  <2>5. g \in [0 .. n -> Nat]
    BY <2>1, <2>3, <2>4
  <2>6. g[0] = 0 /\ g[n] = f[n - 1] + Size(chans, n - 1) /\ \A d \in 0 .. n - 1 : g[d] = f[d]
    BY <1>3, <2>2, <2>4 DEF Accumulates, DMAChannels
  <2> HIDE DEF g
  <2>7. ASSUME NEW d \in 1 .. n PROVE g[d] = g[d - 1] + Size(chans, d - 1)
    <3>1. CASE d = n
      BY <2>4, <2>6, <3>1
    <3>2. CASE d # n
      <4>1. d \in 1 .. n - 1 /\ d \in 0 .. n - 1 /\ d - 1 \in 0 .. n - 1
        BY <2>1, <3>2
      <4> QED BY <2>2, <2>6, <4>1 DEF Accumulates
    <3> QED BY <3>1, <3>2
  <2>8. Accumulates(g, chans, n)
    BY <2>5, <2>6, <2>7 DEF Accumulates
  <2> QED BY <2>8
<1> QED BY <1>2, <1>3

\* An enabled channel begins behind the last one before it.
LEMMA OffsetsAre ==
  ASSUME NEW chans, NEW c \in DMAChannels
  PROVE  /\ Offset(chans, c) \in Nat
         /\ \A d \in DMAChannels : d < c => Offset(chans, d) + Size(chans, d) <= Offset(chans, c)
<1> DEFINE F(f) == [d \in DMAChannels |-> IF d = 0 THEN 0 ELSE f[d - 1] + Size(chans, d - 1)]
           accum_size == CHOOSE f : f = F(f)
<1>1. PICK g : Accumulates(g, chans, 21)
  BY SomeAccumulates
<1>2. g = F(g)
  <2>1. g \in [DMAChannels -> Nat]
    BY <1>1 DEF Accumulates, DMAChannels
  <2>2. ASSUME NEW d \in DMAChannels PROVE g[d] = F(g)[d]
    <3>1. CASE d = 0
      BY <1>1, <3>1 DEF Accumulates
    <3>2. CASE d # 0
      <4>1. d \in 1 .. 21
        BY <3>2 DEF DMAChannels
      <4> QED BY <1>1, <3>2, <4>1 DEF Accumulates
    <3> QED BY <3>1, <3>2
  <2> QED BY <2>1, <2>2
<1>3. accum_size = F(accum_size)
  <2> HIDE DEF F
  <2> QED BY <1>2
<1>4. \A d \in DMAChannels : Offset(chans, d) = accum_size[d]
  BY DEF Offset
<1> HIDE DEF accum_size
<1>5. /\ accum_size[0] = 0
      /\ \A d \in 1 .. 21 : accum_size[d] = accum_size[d - 1] + Size(chans, d - 1)
  <2>1. ASSUME NEW d \in DMAChannels
        PROVE  accum_size[d] = IF d = 0 THEN 0 ELSE accum_size[d - 1] + Size(chans, d - 1)
    BY <1>3
  <2>2. 0 \in DMAChannels /\ \A d \in 1 .. 21 : d \in DMAChannels /\ d # 0
    BY DEF DMAChannels
  <2> QED BY <2>1, <2>2
<1>6. ASSUME NEW d \in DMAChannels PROVE accum_size[d] \in Nat
  <2> DEFINE Bad == {e \in DMAChannels : accum_size[e] \notin Nat}
  <2> SUFFICES ASSUME Bad # {} PROVE FALSE
    OBVIOUS
  <2>1. PICK n \in Bad : \A m \in Bad : n <= m
    <3>1. Bad \subseteq Nat
      BY DEF DMAChannels
    <3> HIDE DEF Bad
    <3> QED BY <3>1, Least
  <2>2. n # 0 /\ n \in 1 .. 21 /\ n - 1 \in DMAChannels
    <3>1. n # 0
      BY <1>5, <2>1
    <3> QED BY <2>1, <3>1 DEF DMAChannels
  <2>3. accum_size[n - 1] \in Nat
    BY <2>1, <2>2
  <2> QED BY <1>5, <2>1, <2>2, <2>3, SizesAre
<1>7. ASSUME NEW d \in DMAChannels, d < c
      PROVE  accum_size[d] + Size(chans, d) <= accum_size[c]
  <2> DEFINE Bad == {e \in DMAChannels : d < e /\ ~(accum_size[d] + Size(chans, d) <= accum_size[e])}
  <2> SUFFICES ASSUME Bad # {} PROVE FALSE
    BY <1>7
  <2>1. PICK n \in Bad : \A m \in Bad : n <= m
    <3>1. Bad \subseteq Nat
      BY DEF DMAChannels
    <3> HIDE DEF Bad
    <3> QED BY <3>1, Least
  <2>2. n \in 1 .. 21 /\ n - 1 \in DMAChannels /\ n - 1 >= d
    BY <2>1 DEF DMAChannels
  <2>3. accum_size[n] = accum_size[n - 1] + Size(chans, n - 1) /\ Size(chans, n - 1) \in Nat
        /\ accum_size[n - 1] \in Nat /\ accum_size[d] \in Nat /\ Size(chans, d) \in Nat
    BY <1>5, <1>6, <2>2, SizesAre
  <2>4. CASE n - 1 = d
    BY <2>1, <2>3, <2>4
  <2>5. CASE n - 1 # d
    <3>1. d < n - 1 /\ n - 1 \notin Bad
      BY <2>1, <2>2, <2>5 DEF DMAChannels
    <3>2. accum_size[d] + Size(chans, d) <= accum_size[n - 1]
      BY <2>2, <3>1
    <3> QED BY <2>1, <2>3, <3>2
  <2> QED BY <2>4, <2>5
<1> QED BY <1>4, <1>6, <1>7

\* So a word of an enabled channel is found in a sample with the same layout.
LEMMA WordsAreFound ==
  ASSUME NEW chans \in SUBSET DMAChannels, NEW c \in chans,
         NEW word \in 0 .. kChannelSize[c + 1] - 1
  PROVE  Content(chans, Offset(chans, c) + word) = {<<c, word>>}
<1> DEFINE i == Offset(chans, c) + word
           at(d) == Offset(chans, d)
<1>1. /\ c \in DMAChannels /\ at(c) \in Nat /\ kChannelSize[c + 1] \in 1 .. 4
      /\ word \in Nat /\ word < kChannelSize[c + 1] /\ i = at(c) + word
  BY OffsetsAre, SizesAre
<1>2. ASSUME NEW d \in chans, at(d) <= i, i < at(d) + kChannelSize[d + 1]
      PROVE  d = c
  <2>1. /\ d \in DMAChannels /\ at(d) \in Nat /\ kChannelSize[d + 1] \in 1 .. 4
        /\ Size(chans, d) = kChannelSize[d + 1] /\ Size(chans, c) = kChannelSize[c + 1]
    BY OffsetsAre, SizesAre DEF Size
  <2>2. d < c => at(d) + kChannelSize[d + 1] <= at(c)
    BY <1>1, <2>1, OffsetsAre
  <2>3. c < d => at(c) + kChannelSize[c + 1] <= at(d)
    BY <1>1, <2>1, OffsetsAre
  <2>4. ~(d < c) /\ ~(c < d)
    <3> HIDE DEF at
    <3> QED BY <1>1, <1>2, <2>1, <2>2, <2>3
  <2> QED BY <1>1, <2>1, <2>4 DEF DMAChannels
<1>3. at(c) <= i /\ i < at(c) + kChannelSize[c + 1] /\ i - at(c) = word
  <2> HIDE DEF at
  <2> QED BY <1>1
<1>4. {d \in chans : at(d) <= i /\ i < at(d) + kChannelSize[d + 1]} = {c}
  <2> HIDE DEF at, i
  <2> QED BY <1>2, <1>3
<1>5. Content(chans, i) = {<<d, i - at(d)>> : d \in {c}}
  BY <1>4, Zenon DEF Content
<1> QED BY <1>3, <1>5

\* The getter of a source reads the words of the channel that adding it enables.
LEMMA GettersAre ==
  ASSUME NEW s \in DMASources, s # <<"Accumulator", 1>>
  PROVE  /\ Added(s) \in DMAChannels
         /\ \A w \in Getter(s) : w[1] = Added(s) /\ w[2] \in 0 .. kChannelSize[w[1] + 1] - 1
<1> DEFINE Fits(c, words) ==
      /\ c \in DMAChannels
      /\ \A w \in words : w[1] = c /\ w[2] \in 0 .. kChannelSize[c + 1] - 1
<1>1. ASSUME NEW first \in {0, 2, 12, 14, 16, 18, 20}, NEW index \in 0 .. 7
      PROVE  HalfOf(first, index) \in {first, first + 1} /\ HalfOf(first, index) \in DMAChannels
  BY DEF HalfOf, DMAChannels
<1>2. \A index \in 0 .. 7 : index % 4 \in 0 .. 3 /\ (index % 4) \div 2 \in 0 .. 1
  OBVIOUS
<1>3. /\ \A c \in {2, 3} \cup (12 .. 21) : kChannelSize[c + 1] = 4
      /\ \A c \in {0, 1, 10} : kChannelSize[c + 1] = 2
      /\ kChannelSize[9] = 3 /\ kChannelSize[12] = 1
  BY DEF kChannelSize
<1>4. ASSUME NEW first \in {2, 12, 14, 16, 18, 20}, NEW index \in 0 .. 7
      PROVE  Fits(HalfOf(first, index), {<<HalfOf(first, index), index % 4>>})
  <2>1. HalfOf(first, index) \in {2, 3} \cup (12 .. 21)
    BY <1>1
  <2>2. kChannelSize[HalfOf(first, index) + 1] = 4
    BY <1>3, <2>1
  <2> HIDE DEF HalfOf, kChannelSize
  <2> QED BY <1>1, <1>2, <2>2
<1>5. ASSUME NEW index \in 0 .. 7
      PROVE  Fits(HalfOf(0, index), {<<HalfOf(0, index), (index % 4) \div 2>>})
  <2>1. HalfOf(0, index) \in {0, 1} /\ HalfOf(0, index) \in DMAChannels
    BY <1>1
  <2>2. kChannelSize[HalfOf(0, index) + 1] = 2
    BY <1>3, <2>1
  <2> QED BY <1>2, <2>1, <2>2
<1>6. CASE s \in {"DigitalSource"} \X BOOLEAN
  <2>1. s[1] = "DigitalSource" /\ s[2] \in BOOLEAN
    BY <1>6
  <2>2. Added(s) = AddDMADigitalSource(s[2]) /\ Getter(s) = GetDMASampleDigitalSource(s[2])
    BY <2>1 DEF Added, Getter
  <2> QED BY <1>3, <2>1, <2>2 DEF AddDMADigitalSource, GetDMASampleDigitalSource, DMAChannels
<1>7. CASE s = <<"Accumulator", 0>>
  <2>1. s[1] = "Accumulator" /\ s[2] = 0
    BY <1>7
  <2>2. Added(s) = 8 /\ Getter(s) = {<<8, 0>>, <<8, 1>>, <<8, 2>>}
    BY <2>1 DEF Added, Getter, AddDMAAnalogAccumulator, GetDMASampleAnalogAccumulator
  <2> QED BY <1>3, <2>2 DEF DMAChannels
<1>8. CASE s \in {"Encoder", "EncoderPeriod", "Counter", "CounterPeriod", "AnalogInput",
                  "DutyCycle", "AveragedAnalogInput"} \X (0 .. 7)
  <2>1. s[1] \in {"Encoder", "EncoderPeriod", "Counter", "CounterPeriod", "AnalogInput",
                  "DutyCycle", "AveragedAnalogInput"} /\ s[2] \in 0 .. 7
    BY <1>8
  <2>2. Fits(Added(s), Getter(s))
    <3> HIDE DEF Fits
    <3>1. CASE s[1] = "Encoder"
      BY <1>4, <2>1, <3>1 DEF Added, Getter, AddDMAEncoder, GetDMASampleEncoderRaw
    <3>2. CASE s[1] = "EncoderPeriod"
      BY <1>4, <2>1, <3>2 DEF Added, Getter, AddDMAEncoderPeriod, GetDMASampleEncoderPeriodRaw
    <3>3. CASE s[1] = "Counter"
      BY <1>4, <2>1, <3>3 DEF Added, Getter, AddDMACounter, GetDMASampleCounter
    <3>4. CASE s[1] = "CounterPeriod"
      BY <1>4, <2>1, <3>4 DEF Added, Getter, AddDMACounterPeriod, GetDMASampleCounterPeriod
    <3>5. CASE s[1] = "AnalogInput"
      BY <1>5, <2>1, <3>5 DEF Added, Getter, AddDMAAnalogInput, GetDMASampleAnalogInputRaw
    <3>6. CASE s[1] = "DutyCycle"
      BY <1>4, <2>1, <3>6 DEF Added, Getter, AddDMADutyCycle, GetDMASampleDutyCycleOutputRaw
    <3>7. CASE s[1] = "AveragedAnalogInput"
      BY <1>4, <2>1, <3>7
         DEF Added, Getter, AddDMAAveragedAnalogInput, GetDMASampleAveragedAnalogInputRaw
    <3> QED BY <2>1, <3>1, <3>2, <3>3, <3>4, <3>5, <3>6, <3>7
  <2> QED BY <2>2
<1> QED
  <2>1. s \in {"Accumulator"} \X {0, 1} => s = <<"Accumulator", 0>>
    OBVIOUS
  <2> QED BY <1>6, <1>7, <1>8, <2>1 DEF DMASources

\* DMA alone, with any of the workloads.
DMASpec == DMAInit /\ [][DMANext]_dmaVars

DMATypes ==
  /\ sources \in DMAWorkloads
  /\ enabled \subseteq DMAChannels /\ captured \subseteq DMAChannels
  /\ dmaPc \in [Threads -> {"idle", "add", "read", "copy", "decode"}]
  /\ \A u \in Threads : dmaPc[u] = "add" => adding[u] \in DMAChannels
  /\ sample \in [Threads -> [taken : SUBSET DMAChannels, decoded : SUBSET DMAChannels]]
  /\ inFifo \subseteq SUBSET DMAChannels
  /\ adding \in [Threads -> DMAChannels \cup {-1}]

\* While no call began within another one: what was captured is what is enabled as long
\* as DMA runs, nobody adds meanwhile, and a sample was taken with the layout it has.
DMAQuiet ==
  /\ running => captured = enabled /\ \A chans \in inFifo : chans = captured
  /\ \A u \in Threads :
       /\ dmaPc[u] = "add" => ~running
       /\ dmaPc[u] \in {"read", "copy"} => running
       /\ dmaPc[u] = "copy" => sample[u].taken = captured
       /\ dmaPc[u] = "decode" => sample[u].taken = sample[u].decoded

DMAInv == DMATypes /\ (~overlapped => DMAQuiet)

LEMMA DMAStart == DMAInit => DMAInv
<1> SUFFICES ASSUME DMAInit PROVE DMAInv
  OBVIOUS
<1>1. DMATypes
  <2>1. [taken |-> {}, decoded |-> {}] \in [taken : SUBSET DMAChannels, decoded : SUBSET DMAChannels]
    OBVIOUS
  <2> QED BY <2>1 DEF DMAInit, DMATypes
<1>2. DMAQuiet
  BY DEF DMAInit, DMAQuiet
<1> QED BY <1>1, <1>2 DEF DMAInv

\* Every call keeps the types.
LEMMA DMATyping ==
  ASSUME DMATypes, DMANext
  PROVE  DMATypes'
<1> DEFINE Samples == [taken : SUBSET DMAChannels, decoded : SUBSET DMAChannels]
<1>1. sources' = sources
  BY DEF DMANext
<1>2. CASE Acquire
  BY <1>1, <1>2 DEF Acquire, DMATypes
<1>3. ASSUME NEW u \in Threads,
             \/ InitializeDMA(u) \/ FreeDMA(u) \/ StartDMA(u) \/ StopDMA(u)
      PROVE  DMATypes'
  BY <1>1, <1>3 DEF InitializeDMA, FreeDMA, StartDMA, StopDMA, DMATypes
<1>4. ASSUME NEW u \in Threads, Enable(u) \/ ReadDMA(u)
      PROVE  DMATypes'
  BY <1>1, <1>4 DEF Enable, ReadDMA, Step, DMATypes
<1>5. ASSUME NEW u \in Threads, NEW s \in sources, AddDMA(u, s)
      PROVE  DMATypes'
  <2>1. PICK c : adding' = [adding EXCEPT ![u] = c] /\ c = Added(s)
    BY <1>5 DEF AddDMA
  <2>2. s \in DMASources
    BY DMAAssumption DEF DMATypes
  <2>3. c \in DMAChannels
    <3>1. CASE s = <<"Accumulator", 1>>
      <4>1. s[1] = "Accumulator" /\ s[2] = 1
        BY <3>1
      <4> QED BY <2>1, <4>1 DEF Added, AddDMAAnalogAccumulator, DMAChannels
    <3> QED BY <2>1, <2>2, <3>1, GettersAre
  <2> QED BY <1>1, <1>5, <2>1, <2>3 DEF AddDMA, Step, DMATypes
<1>6. ASSUME NEW u \in Threads, TakeSample(u) \/ CopyOffsets(u) \/ Decode(u)
      PROVE  DMATypes'
  <2>1. sample[u] \in Samples
    BY DEF DMATypes
  <2>2. sample' \in [Threads -> Samples]
    <3>1. CASE TakeSample(u)
      BY <2>1, <3>1 DEF TakeSample, DMATypes
    <3>2. CASE CopyOffsets(u)
      BY <2>1, <3>2 DEF CopyOffsets, DMATypes
    <3>3. CASE Decode(u)
      BY <3>3 DEF Decode, DMATypes
    <3> QED BY <1>6, <3>1, <3>2, <3>3
  <2> HIDE DEF Samples
  <2>3. /\ UNCHANGED <<enabled, captured, inFifo, adding>>
        /\ dmaPc' \in [Threads -> {"idle", "add", "read", "copy", "decode"}]
        /\ \A v \in Threads : dmaPc'[v] = "add" => dmaPc[v] = "add"
    BY <1>6 DEF TakeSample, CopyOffsets, Decode, Step, DMATypes
  <2> QED BY <1>1, <2>2, <2>3 DEF DMATypes, Samples
<1> QED BY <1>2, <1>3, <1>4, <1>5, <1>6 DEF DMANext

\* A call that begins while no other is under way finds all others idle or decoding.
LEMMA Alone ==
  ASSUME NEW u \in Threads, Overlap(u), ~overlapped'
  PROVE  ~overlapped /\ \A v \in Threads \ {u} : dmaPc[v] \in {"idle", "decode"}
BY DEF Overlap

LEMMA DMAStep == DMAInv /\ [DMANext]_dmaVars => DMAInv'
<1> SUFFICES ASSUME DMAInv, [DMANext]_dmaVars PROVE DMAInv'
  OBVIOUS
<1>1. CASE UNCHANGED dmaVars
  BY <1>1 DEF dmaVars, DMAInv, DMATypes, DMAQuiet
<1>2. CASE DMANext
  <2>1. DMATypes /\ DMATypes'
    BY <1>2, DMATyping DEF DMAInv
  <2> SUFFICES ASSUME ~overlapped' PROVE DMAQuiet'
    BY <2>1 DEF DMAInv
  <2>2. ~overlapped /\ DMAQuiet
    <3>1. overlapped => overlapped'
      BY <1>2 DEF DMANext, InitializeDMA, FreeDMA, StartDMA, StopDMA, Enable, AddDMA, ReadDMA,
                  TakeSample, CopyOffsets, Decode, Acquire, Overlap
    <3> QED BY <3>1 DEF DMAInv
  <2>3. CASE Acquire
    BY <2>2, <2>3 DEF Acquire, DMAQuiet
  <2>4. ASSUME NEW u \in Threads, InitializeDMA(u) PROVE DMAQuiet'
    BY <2>2, <2>4 DEF InitializeDMA, DMAQuiet
  <2>5. ASSUME NEW u \in Threads, FreeDMA(u) \/ StopDMA(u) \/ StartDMA(u) PROVE DMAQuiet'
    <3>1. Overlap(u) /\ dmaPc[u] = "idle" /\ dmaPc' = dmaPc /\ sample' = sample
      BY <2>5 DEF FreeDMA, StopDMA, StartDMA
    <3>2. \A v \in Threads : dmaPc[v] \in {"idle", "decode"}
      BY <3>1, Alone
    <3>3. running' => captured' = enabled' /\ inFifo' = {}
      BY <2>5 DEF FreeDMA, StopDMA, StartDMA
    <3> QED BY <2>2, <3>1, <3>2, <3>3 DEF DMAQuiet
  <2>6. ASSUME NEW u \in Threads, NEW s \in sources, AddDMA(u, s) PROVE DMAQuiet'
    <3>1. /\ Overlap(u) /\ ~running /\ dmaPc' = [dmaPc EXCEPT ![u] = "add"]
          /\ UNCHANGED <<enabled, running, captured, inFifo, sample>>
      BY <2>6 DEF AddDMA, MayAdd, Step
    <3>2. \A v \in Threads \ {u} : dmaPc[v] \in {"idle", "decode"}
      BY <3>1, Alone
    <3>3. dmaPc'[u] = "add" /\ \A v \in Threads \ {u} : dmaPc'[v] = dmaPc[v]
      BY <2>1, <3>1 DEF DMATypes
    <3> QED BY <2>2, <3>1, <3>2, <3>3 DEF DMAQuiet
  <2>7. ASSUME NEW u \in Threads, Enable(u) PROVE DMAQuiet'
    <3>1. /\ dmaPc[u] = "add" /\ dmaPc' = [dmaPc EXCEPT ![u] = "idle"]
          /\ UNCHANGED <<running, captured, inFifo, sample>>
      BY <2>7 DEF Enable, Step
    <3>2. ~running
      BY <2>2, <3>1 DEF DMAQuiet
    <3>3. dmaPc'[u] = "idle" /\ \A v \in Threads \ {u} : dmaPc'[v] = dmaPc[v]
      BY <2>1, <3>1 DEF DMATypes
    <3> QED BY <2>2, <3>1, <3>2, <3>3 DEF DMAQuiet
  <2>8. ASSUME NEW u \in Threads, ReadDMA(u) PROVE DMAQuiet'
    <3>1. /\ running /\ dmaPc' = [dmaPc EXCEPT ![u] = "read"]
          /\ UNCHANGED <<enabled, running, captured, inFifo, sample>>
      BY <2>8 DEF ReadDMA, Step
    <3>2. dmaPc'[u] = "read" /\ \A v \in Threads \ {u} : dmaPc'[v] = dmaPc[v]
      BY <2>1, <3>1 DEF DMATypes
    <3> QED BY <2>2, <3>1, <3>2 DEF DMAQuiet
  <2>9. ASSUME NEW u \in Threads, TakeSample(u) \/ CopyOffsets(u) \/ Decode(u) PROVE DMAQuiet'
    <3>1. /\ UNCHANGED <<enabled, running, captured, inFifo>>
          /\ \A v \in Threads \ {u} : dmaPc'[v] = dmaPc[v] /\ sample'[v] = sample[v]
      BY <2>1, <2>9 DEF TakeSample, CopyOffsets, Decode, Step, DMATypes
    <3>2. CASE TakeSample(u)
      <4>1. running
        BY <2>2, <3>2 DEF TakeSample, DMAQuiet
      <4>2. \/ dmaPc'[u] = "idle"
            \/ dmaPc'[u] = "copy" /\ \E chans \in inFifo : sample'[u].taken = chans
        <5>1. CASE Step(u, "idle")
          BY <2>1, <5>1 DEF Step, DMATypes
        <5>2. CASE Step(u, "copy") /\ \E chans \in inFifo : sample' = [sample EXCEPT ![u] = [@ EXCEPT !.taken = chans]]
          BY <2>1, <5>2 DEF Step, DMATypes
        <5> QED BY <3>2, <5>1, <5>2 DEF TakeSample
      <4> QED BY <2>2, <3>1, <4>1, <4>2 DEF DMAQuiet
    <3>3. CASE CopyOffsets(u)
      <4>1. dmaPc[u] = "copy" /\ dmaPc'[u] = "decode"
        BY <2>1, <3>3 DEF CopyOffsets, Step, DMATypes
      <4>2. sample'[u].taken = sample[u].taken /\ sample'[u].decoded = captured
        BY <2>1, <3>3 DEF CopyOffsets, DMATypes
      <4> QED BY <2>2, <3>1, <4>1, <4>2 DEF DMAQuiet
    <3>4. CASE Decode(u)
      <4>1. dmaPc'[u] = "idle"
        BY <2>1, <3>4 DEF Decode, Step, DMATypes
      <4> QED BY <2>2, <3>1, <4>1 DEF DMAQuiet
    <3> QED BY <2>9, <3>2, <3>3, <3>4
  <2> QED BY <1>2, <2>3, <2>4, <2>5, <2>6, <2>7, <2>8, <2>9 DEF DMANext
<1> QED BY <1>1, <1>2

\* DecodesOwnWords: the sample is taken apart with the layout it was taken with, and in
\* that layout the words of two channels never meet.  The second accumulator is left out:
\* its getter reads words of the first one.
THEOREM SamplesAreDecoded ==
  ASSUME \A w \in DMAWorkloads : <<"Accumulator", 1>> \notin w
  PROVE  DMASpec => []DecodesOwnWords
<1>1. DMASpec => []DMAInv
  BY DMAStart, DMAStep, PTL DEF DMASpec
<1>2. DMAInv => DecodesOwnWords
  <2> SUFFICES ASSUME DMAInv, NEW u \in Threads, NEW s \in sources, ~overlapped,
                      dmaPc[u] = "decode", Added(s) \in sample[u].decoded,
                      NEW w \in Getter(s)
               PROVE  ReadDMAValue(sample[u], w[1], w[2]) = {<<Added(s), w[2]>>}
    BY DEF DecodesOwnWords
  <2>1. s \in DMASources /\ s # <<"Accumulator", 1>>
    BY DMAAssumption DEF DMAInv, DMATypes
  <2>2. w[1] = Added(s) /\ w[2] \in 0 .. kChannelSize[w[1] + 1] - 1
    BY <2>1, GettersAre
  <2>3. sample[u].taken = sample[u].decoded /\ sample[u].decoded \in SUBSET DMAChannels
    BY DEF DMAInv, DMATypes, DMAQuiet
  <2> DEFINE chans == sample[u].decoded
  <2>4. ReadDMAValue(sample[u], w[1], w[2]) = Content(chans, Offset(chans, w[1]) + w[2])
    BY <2>2, <2>3 DEF ReadDMAValue
  <2> QED BY <2>2, <2>3, <2>4, WordsAreFound
<1> QED BY <1>1, <1>2, PTL
=============================================================================
