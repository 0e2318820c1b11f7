----------------------------- MODULE Interrupts -----------------------------
(***************************************************************************)
(* cpp/Interrupts.cpp: threads configure interrupts and wait for them,     *)
(* while edges assert the two IRQs of each interrupt.  The FPGA's driver   *)
(* is modelled from how the code uses it: an IRQ stays asserted until it   *)
(* is acknowledged, and any number of threads may wait for one.            *)
(***************************************************************************)
EXTENDS ThreadConstants, Integers

CONSTANTS
  Interrupts,    \* the indexes of interruptHandles in use
  Sources,       \* what remapDigitalSource gives
  NoSource,
  MaxContexts    \* IRQ contexts until reserving one fails

ASSUME InterruptsAssumption ==
  /\ NoSource \notin Sources /\ MaxContexts \in Nat \ {0}
  /\ Interrupts # {}

Edges == {"rising", "falling"}
Irqs == Interrupts \X Edges

VARIABLES
  allocated,   \* the interrupts in interruptHandles
  config,      \* each interrupt's configuration cluster in the FPGA
  asserted,    \* the asserted IRQs
  contexts,    \* how many IRQ contexts are reserved
  pc, interrupt,
  cluster,     \* the local configType of a thread
  got,         \* its assertedIrqs
  \* ghosts
  unreported,  \* IRQs whose edge no call has reported or ignored yet
  late,        \* those whose last edge came while its IRQ was about to be acknowledged
  requested,   \* the source last requested for each interrupt, or NoSource
  wanted,      \* the edges last set for each interrupt
  shared       \* interrupts that two calls of one kind have used at once

fpga == <<config, asserted>>
locals == <<pc, interrupt, cluster, got>>
ghosts == <<unreported, late, requested, wanted, shared>>
vars == <<allocated, fpga, contexts, locals, ghosts>>

Clusters == [source : Sources \cup {NoSource}, edges : SUBSET Edges]
NoCluster == [source |-> NoSource, edges |-> {}]

Configuring == {"request", "setEdge"}
Waiting == {"ignore", "wait", "acknowledge"}

TypeOK ==
  /\ allocated \subseteq Interrupts
  /\ config \in [Interrupts -> Clusters]
  /\ asserted \subseteq Irqs
  /\ contexts \in 0 .. MaxContexts
  /\ pc \in [Threads -> {"idle"} \cup Configuring \cup Waiting]
  /\ interrupt \in [Threads -> Interrupts]
  /\ cluster \in [Threads -> Clusters]
  /\ got \in [Threads -> SUBSET Irqs]
  /\ unreported \subseteq Irqs /\ late \subseteq Irqs
  /\ requested \in [Interrupts -> Sources \cup {NoSource}]
  /\ wanted \in [Interrupts -> SUBSET Edges]
  /\ shared \subseteq Interrupts

Init ==
  /\ allocated = {}
  /\ config = [i \in Interrupts |-> NoCluster]
  /\ asserted = {} /\ contexts = 0
  /\ pc = [t \in Threads |-> "idle"]
  /\ interrupt = [t \in Threads |-> CHOOSE i \in Interrupts : TRUE]
  /\ cluster = [t \in Threads |-> NoCluster]
  /\ got = [t \in Threads |-> {}]
  /\ unreported = {} /\ late = {}
  /\ requested = [i \in Interrupts |-> NoSource]
  /\ wanted = [i \in Interrupts |-> {}]
  /\ shared = {}

IrqsOf(i) == {i} \X Edges

Share(t, i, steps) ==
  shared' = IF \E u \in Threads \ {t} : interrupt[u] = i /\ pc[u] \in steps
              THEN shared \cup {i} ELSE shared

Return(t) ==
  /\ pc' = [pc EXCEPT ![t] = "idle"]
  /\ cluster' = [cluster EXCEPT ![t] = NoCluster]
  /\ got' = [got EXCEPT ![t] = {}]

\* A call has returned from NiFpga_WaitOnIrqs with this IRQ and acknowledges it next.
Acknowledging(irq) == \E t \in Threads : pc[t] = "acknowledge" /\ irq \in got[t]

\* An edge asserts its IRQ; one that is asserted already does not tell two edges apart.
Edge(i, e) ==
  /\ e \in config[i].edges /\ config[i].source # NoSource
  /\ asserted' = asserted \cup {<<i, e>>}
  /\ unreported' = unreported \cup {<<i, e>>}
  /\ late' = IF Acknowledging(<<i, e>>) THEN late \cup {<<i, e>>} ELSE late \ {<<i, e>>}
  /\ UNCHANGED <<allocated, config, contexts, locals, requested, wanted, shared>>

-----------------------------------------------------------------------------
\* HAL_InitializeInterrupts takes a free interrupt, with all that the FPGA and its
\* last owner have left there.
InitializeInterrupts(t, i) ==
  /\ pc[t] = "idle"
  /\ i \notin allocated
  /\ allocated' = allocated \cup {i}
  /\ UNCHANGED <<fpga, contexts, locals, ghosts>>

CleanInterrupts(t, i) ==
  /\ pc[t] = "idle"
  /\ allocated' = allocated \ {i}
  /\ UNCHANGED <<fpga, contexts, locals, ghosts>>

\* A call gets the handle's object and keeps it.
Begin(t, i, steps, step) ==
  /\ pc[t] = "idle" /\ i \in allocated
  /\ interrupt' = [interrupt EXCEPT ![t] = i]
  /\ pc' = [pc EXCEPT ![t] = step]
  /\ Share(t, i, steps)

\* HAL_RequestInterrupts unpacks a local array that nothing was read into.
UninitializedEdges == SUBSET Edges

RequestInterrupts(t, i, s) ==
  /\ Begin(t, i, Configuring, "request")
  /\ \E edges \in UninitializedEdges :
       cluster' = [cluster EXCEPT ![t] = [source |-> s, edges |-> edges]]
  /\ requested' = [requested EXCEPT ![i] = s]
  /\ UNCHANGED <<allocated, fpga, contexts, got, unreported, late, wanted>>

\* Mutated form: no source was read.
NothingRead(i) == NoCluster

\* NiFpga_ReadArrayU8
ReadCluster(i) == config[i]

SetInterruptUpSourceEdge(t, i, edges) ==
  /\ Begin(t, i, Configuring, "setEdge")
  /\ cluster' = [cluster EXCEPT ![t] = [source |-> ReadCluster(i).source, edges |-> edges]]
  /\ wanted' = [wanted EXCEPT ![i] = edges]
  /\ UNCHANGED <<allocated, fpga, contexts, got, unreported, late, requested>>

\* NiFpga_WriteArrayU8
WriteCluster(t) ==
  /\ pc[t] \in Configuring /\ Return(t)
  /\ config' = [config EXCEPT ![interrupt[t]] = cluster[t]]
  /\ UNCHANGED <<allocated, asserted, contexts, interrupt, ghosts>>

-----------------------------------------------------------------------------
(* HAL_WaitForInterrupt *)

\* NiFpga_ReserveIrqContext
WaitForInterrupt(t, i) ==
  /\ contexts < MaxContexts
  /\ contexts' = contexts + 1
  /\ \E ignorePrevious \in BOOLEAN :
       Begin(t, i, Waiting, IF ignorePrevious THEN "ignore" ELSE "wait")
  /\ UNCHANGED <<allocated, fpga, cluster, got, unreported, late,
                 requested, wanted>>

ReserveFails(t, i) ==
  /\ pc[t] = "idle" /\ i \in allocated
  /\ contexts = MaxContexts
  /\ UNCHANGED vars

Ignore(t) ==
  /\ pc[t] = "ignore" /\ pc' = [pc EXCEPT ![t] = "wait"]
  /\ asserted' = asserted \ IrqsOf(interrupt[t])
  /\ unreported' = unreported \ IrqsOf(interrupt[t])
  /\ late' = late \ IrqsOf(interrupt[t])
  /\ UNCHANGED <<allocated, config, contexts, interrupt, cluster, got,
                 requested, wanted, shared>>

\* NiFpga_WaitOnIrqs
Report(t) ==
  /\ pc[t] = "wait" /\ pc' = [pc EXCEPT ![t] = "acknowledge"]
  /\ LET assertedIrqs == asserted \cap IrqsOf(interrupt[t]) IN
       /\ assertedIrqs # {}
       /\ got' = [got EXCEPT ![t] = assertedIrqs]
       /\ unreported' = unreported \ assertedIrqs
       /\ late' = late \ assertedIrqs
  /\ UNCHANGED <<allocated, fpga, contexts, interrupt, cluster, requested, wanted, shared>>

TimedOut(t) ==
  /\ pc[t] = "wait" /\ Return(t)
  /\ asserted \cap IrqsOf(interrupt[t]) = {}
  /\ UNCHANGED <<allocated, fpga, contexts, interrupt, ghosts>>

\* Mutated form: all IRQs of the interrupt.
BothIrqs(t) == IrqsOf(interrupt[t])

Acknowledged(t) == got[t]

\* The context is not given back.
Acknowledge(t) ==
  /\ pc[t] = "acknowledge" /\ Return(t)
  /\ asserted' = asserted \ Acknowledged(t)
  /\ UNCHANGED <<allocated, config, contexts, interrupt, ghosts>>

Call(t, i) ==
  \/ InitializeInterrupts(t, i) \/ CleanInterrupts(t, i)
  \/ (\E s \in Sources : RequestInterrupts(t, i, s))
  \/ (\E edges \in SUBSET Edges : SetInterruptUpSourceEdge(t, i, edges))
  \/ WaitForInterrupt(t, i) \/ ReserveFails(t, i)

Continue(t) == WriteCluster(t) \/ Ignore(t) \/ Report(t) \/ TimedOut(t) \/ Acknowledge(t)

Next ==
  \/ \E t \in Threads : Continue(t) \/ \E i \in Interrupts : Call(t, i)
  \/ \E i \in Interrupts, e \in Edges : Edge(i, e)

Spec == Init /\ [][Next]_vars

-----------------------------------------------------------------------------
\* Whatever edges come between a wait's return and its acknowledgement, and whoever had
\* the interrupt before: an edge that was not reported or ignored is still asserted for
\* the next wait, as long as no two threads wait for the interrupt at once.  The one
\* exception the code leaves is an edge that repeats the reported one in that gap: it is
\* acknowledged with it.
NoEdgeLost == \A irq \in unreported \ late : irq[1] \notin shared => irq \in asserted

\* Choosing the edges does not touch the source that was requested, as long as no two
\* threads configure the interrupt at once.
SourceSurvives ==
  \A i \in Interrupts \ shared :
    (\A t \in Threads : pc[t] = "request" => interrupt[t] # i)
      => config[i].source = requested[i]

\* Edges chosen before the source is requested, as the main program does, are still the
\* ones the interrupt reacts to when it waits.
EdgesSurviveRequest ==
  \A i \in Interrupts \ shared :
    wanted[i] # {} /\ (\A t \in Threads : pc[t] \in Configuring => interrupt[t] # i)
      => config[i].edges = wanted[i]

=============================================================================
