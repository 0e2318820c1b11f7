---------------------------- MODULE DigitalPorts ----------------------------
(***************************************************************************)
(* cpp/DigitalInternal.cpp, cpp/DIO.cpp and cpp/PWM.cpp: threads allocate, *)
(* use and free the ports of one table, in which the DIO channels come     *)
(* first and the PWM channels after them.  A handle is an index and a      *)
(* type, so the handle of a freed port is again that of the next port on   *)
(* its channel, and any thread may still use or free it.                   *)
(***************************************************************************)
EXTENDS MutexConstants, Integers, FiniteSets

CONSTANT Indexes   \* the indexes of the table in use

kNumDigitalHeaders == 10
kNumDigitalMXPChannels == 16
kNumDigitalChannels == 31
kNumPWMHeaders == 10

ASSUME PortsAssumption ==
  /\ Indexes \subseteq 0 .. kNumDigitalChannels + kNumPWMHeaders - 1
  /\ Indexes # {} /\ IsFiniteSet(Threads)

VARIABLES
  initialized, initializeMutex,   \* statics of initializeDigital
  ports,      \* digitalChannelHandles: the DigitalPort object at an index, or 0
  pc, index,  \* each thread's next step, and the index it is about
  port,       \* the shared_ptr it holds, or 0
  output,     \* the PWM and relay outputs that are on
  released    \* ghost: objects whose free returned and found nobody else

statics == <<initialized, initializeMutex>>
locals == <<index, port>>
vars == <<statics, ports, pc, locals, output, released>>

\* The objects of one index: one in the ports, and one in each thread's hands.
Objects == 1 .. Cardinality(Threads) + 1

\* "remap Headers to end of allocations"
IsDIO(i) == i < kNumDigitalChannels

Steps == {"idle", "initLock", "initWrite", "allocate", "get", "configure", "use", "remove", "wait"}

TypeOK ==
  /\ initialized \in BOOLEAN /\ initializeMutex \in Threads \cup {NoThread}
  /\ ports \in [Indexes -> Objects \cup {0}]
  /\ pc \in [Threads -> Steps]
  /\ index \in [Threads -> Indexes]
  /\ port \in [Threads -> Objects \cup {0}]
  /\ output \subseteq {i \in Indexes : ~IsDIO(i)}
  /\ released \subseteq Indexes \X Objects

Init ==
  /\ initialized = FALSE /\ initializeMutex = NoThread
  /\ ports = [i \in Indexes |-> 0]
  /\ pc = [t \in Threads |-> "idle"]
  /\ index \in [Threads -> {CHOOSE i \in Indexes : TRUE}]
  /\ port = [t \in Threads |-> 0]
  /\ output = {}
  /\ released = {}

Goto(t, step) == pc' = [pc EXCEPT ![t] = step]

\* The call returns, and its shared_ptr goes.
Return(t) == Goto(t, "idle") /\ port' = [port EXCEPT ![t] = 0]

-----------------------------------------------------------------------------
(* HAL_InitializeDIOPort and HAL_InitializePWMPort *)

InitializePort(t, i) ==
  /\ pc[t] = "idle" /\ Goto(t, IF initialized THEN "allocate" ELSE "initLock")
  /\ index' = [index EXCEPT ![t] = i]
  /\ UNCHANGED <<statics, ports, port, output, released>>

\* Mutated form: there is no second check.
NeverChecked == FALSE

\* "Second check in case another thread was waiting"
CheckedAgain == initialized

InitializeDigitalLock(t) ==
  /\ pc[t] = "initLock"
  /\ initializeMutex = NoThread
  /\ IF CheckedAgain THEN Goto(t, "allocate") /\ UNCHANGED initializeMutex
                     ELSE Goto(t, "initWrite") /\ initializeMutex' = t
  /\ UNCHANGED <<initialized, ports, locals, output, released>>

\* "Set all relays to off", "Disable all PWMs"
InitializeDigitalWrite(t) ==
  /\ pc[t] = "initWrite" /\ Goto(t, "allocate")
  /\ output' = {}
  /\ initialized' = TRUE
  /\ initializeMutex' = NoThread
  /\ UNCHANGED <<ports, locals, released>>

\* The objects that are still there: a new one is none of them.
Held(i) == {ports[i]} \cup {port[t] : t \in {u \in Threads : index[u] = i}}

NewObject(i) == CHOOSE o \in Objects : o \notin Held(i)

AllocateFails(t) ==
  /\ pc[t] = "allocate" /\ Return(t)
  /\ ports[index[t]] # 0
  /\ UNCHANGED <<statics, ports, index, output, released>>

Allocate(t) ==
  /\ pc[t] = "allocate" /\ Goto(t, "get")
  /\ LET i == index[t] IN
       /\ ports[i] = 0
       /\ ports' = [ports EXCEPT ![i] = NewObject(i)]
       /\ released' = released \ {<<i, NewObject(i)>>}
  /\ UNCHANGED <<statics, locals, output>>

\* Without a port, "would only occur on thread issue", the call fails.
GetAllocated(t) ==
  /\ pc[t] = "get"
  /\ Goto(t, IF ports[index[t]] = 0 THEN "idle" ELSE "configure")
  /\ port' = [port EXCEPT ![t] = ports[index[t]]]
  /\ UNCHANGED <<statics, ports, index, output, released>>

\* port->channel and the configuration are set.
Configure(t) ==
  /\ pc[t] = "configure" /\ Return(t)
  /\ UNCHANGED <<statics, ports, index, output, released>>

-----------------------------------------------------------------------------
(* HAL_GetDIO, HAL_SetPWMRaw, HAL_FreeDIOPort and HAL_FreePWMPort *)

\* HAL_HANDLE_ERROR: there is no port at the index.
GetFails(t, i) == pc[t] = "idle" /\ ports[i] = 0 /\ UNCHANGED vars

Get(t, i, step) ==
  /\ pc[t] = "idle" /\ Goto(t, step)
  /\ ports[i] # 0
  /\ index' = [index EXCEPT ![t] = i]
  /\ port' = [port EXCEPT ![t] = ports[i]]
  /\ UNCHANGED <<statics, ports, output, released>>

StartUse(t, i) == Get(t, i, "use")

Use(t) ==
  /\ pc[t] = "use" /\ Return(t)
  /\ output' = IF IsDIO(index[t]) THEN output ELSE output \cup {index[t]}
  /\ UNCHANGED <<statics, ports, index, released>>

StartFree(t, i) == Get(t, i, "remove")

\* Free empties the index, whichever port is there by now.
RemovePort(t) ==
  /\ pc[t] = "remove" /\ Goto(t, "wait")
  /\ ports' = [ports EXCEPT ![index[t]] = 0]
  /\ UNCHANGED <<statics, locals, output, released>>

\* port.use_count(): the table and the threads that hold the port
UseCount(i, p) ==
  Cardinality({t \in Threads : pc[t] # "idle" /\ index[t] = i /\ port[t] = p})
    + (IF ports[i] = p THEN 1 ELSE 0)

\* Mutated form: off by one.
AtMostTwo(t) == UseCount(index[t], port[t]) <= 2

\* "Wait for no other object to hold this handle."
Alone(t) == UseCount(index[t], port[t]) = 1

FreeReturns(t) ==
  /\ pc[t] = "wait" /\ Return(t)
  /\ Alone(t)
  /\ released' = released \cup {<<index[t], port[t]>>}
  /\ UNCHANGED <<statics, ports, index, output>>

\* "handle free timeout": a second is over.
FreeTimesOut(t) ==
  /\ pc[t] = "wait" /\ Return(t)
  /\ ~Alone(t)
  /\ UNCHANGED <<statics, ports, index, output, released>>

Step(t) ==
  \/ \E i \in Indexes : \/ InitializePort(t, i) \/ GetFails(t, i)
                         \/ StartUse(t, i) \/ StartFree(t, i)
  \/ InitializeDigitalLock(t) \/ InitializeDigitalWrite(t)
  \/ AllocateFails(t) \/ Allocate(t) \/ GetAllocated(t) \/ Configure(t) \/ Use(t)
  \/ RemovePort(t) \/ FreeReturns(t) \/ FreeTimesOut(t)

Next == \E t \in Threads : Step(t)

Spec == Init /\ [][Next]_vars

-----------------------------------------------------------------------------
(* The numbers a DIO channel has in the FPGA *)

DIOPorts == {i \in Indexes : IsDIO(i) /\ ports[i] # 0}

remapSPIChannel(i) == i - 26 + kNumDigitalHeaders

\* remapDigitalSource: the module and the channel of a routed source
remapDigitalSource(i) ==
  IF i >= kNumDigitalHeaders + kNumDigitalMXPChannels THEN <<0, remapSPIChannel(i)>>
  ELSE IF i >= kNumDigitalHeaders THEN <<1, i - 10>>
  ELSE <<0, i>>

\* The bit HAL_GetDIO reads.
remapDigitalChannelToBitfieldChannel(i) ==
  IF i < kNumDigitalHeaders THEN i
  ELSE IF i < kNumDigitalMXPChannels THEN i + 6
  ELSE i - kNumDigitalMXPChannels

-----------------------------------------------------------------------------
\* However many threads race to be the first, nobody turns the outputs off once one
\* of them was turned on.
OutputsStayOn == [][output \subseteq output']_vars

\* Once HAL_FreeDIOPort or HAL_FreePWMPort has returned in time, no thread uses the
\* object any more, though handles may be used, freed and reused by all of them.
FreedIsUnused ==
  \A t \in Threads : pc[t] \in {"configure", "use", "wait"} => <<index[t], port[t]>> \notin released

\* Two open channels are never routed to interrupts and counters as one.
DistinctSources ==
  \A i, j \in DIOPorts : remapDigitalSource(i) = remapDigitalSource(j) => i = j

\* "First 10 are headers. 2nd group of 16 are mxp. So if mxp port, add 6":
\* two open channels are never read from one bit.
DistinctBits ==
  \A i, j \in DIOPorts : remapDigitalChannelToBitfieldChannel(i)
                           = remapDigitalChannelToBitfieldChannel(j) => i = j
=============================================================================
