------------------------- MODULE DigitalPortsProofs -------------------------
(***************************************************************************)
(* For any number of threads and channels: a port whose free returned is   *)
(* used by nobody, the first initialization turns nothing off, and no two  *)
(* channels are routed as one.                                             *)
(***************************************************************************)
EXTENDS DigitalPorts, FiniteSetTheorems, TLAPS

\* The steps before a thread has got its port, and after.
Without == {"idle", "initLock", "initWrite", "allocate", "get"}
With == {"configure", "use", "remove", "wait"}

Holding == \A t \in Threads : pc[t] \in Without <=> port[t] = 0

\* A freed object is neither in the table nor in anybody's hands.
Gone ==
  \A i \in Indexes, o \in Objects : <<i, o>> \in released =>
    ports[i] # o /\ \A t \in Threads : index[t] = i => port[t] # o

\* Until the outputs were turned off there is no port to turn one on.
Untouched ==
  ~initialized =>
    /\ output = {}
    /\ ports = [i \in Indexes |-> 0]
    /\ \A t \in Threads : pc[t] \in {"idle", "initLock", "initWrite"}

Exclusion ==
  /\ \A t \in Threads : pc[t] = "initWrite" <=> initializeMutex = t
  /\ \A t \in Threads : pc[t] = "initWrite" => ~initialized

IInv == TypeOK /\ Holding /\ Gone /\ Untouched /\ Exclusion

-----------------------------------------------------------------------------
\* A new object can be told from all that are still there: there are more objects
\* than threads to hold them.
LEMMA NewObjectIsNew ==
  ASSUME TypeOK, NEW i \in Indexes, ports[i] = 0
  PROVE  NewObject(i) \in Objects /\ NewObject(i) \notin Held(i)
<1> DEFINE N == Cardinality(Threads)
           Holders(o) == {u \in Threads : index[u] = i /\ port[u] = o}
<1>1. N \in Nat /\ IsFiniteSet(Threads)
  BY FS_CardinalityType, PortsAssumption, ThreadAssumption
<1>2. IsFiniteSet(Objects) /\ Cardinality(Objects) = N + 1
  <2>1. IsFiniteSet(1 .. N + 1) /\ Cardinality(1 .. N + 1) = N + 1
    BY <1>1, FS_Interval
  <2> QED BY <2>1 DEF Objects
<1>3. PICK o \in Objects : Holders(o) = {}
  <2> SUFFICES ASSUME \A o \in Objects : Holders(o) # {} PROVE FALSE
    OBVIOUS
  <2> DEFINE f == [o \in Objects |-> CHOOSE u \in Threads : u \in Holders(o)]
  <2>1. \A o \in Objects : f[o] \in Threads /\ f[o] \in Holders(o)
    OBVIOUS
  <2>2. f \in [Objects -> Threads]
    BY <2>1
  <2> HIDE DEF f
  <2>3. Cardinality(Threads) < Cardinality(Objects)
    BY <1>1, <1>2
  <2>4. PICK o, p \in Objects : o # p /\ f[o] = f[p]
    BY <1>1, <1>2, <2>2, <2>3, FS_PigeonHole
  <2> QED BY <2>1, <2>4
<1>4. o \notin Held(i)
  BY <1>1, <1>3 DEF Held, Objects
<1> QED BY <1>4 DEF NewObject

\* Whoever finds a use count of one is the only one that has the object.
LEMMA AloneMeansAlone ==
  ASSUME IInv, NEW t \in Threads, pc[t] = "wait", Alone(t)
  PROVE  /\ ports[index[t]] # port[t]
         /\ \A u \in Threads : index[u] = index[t] /\ port[u] = port[t] => u = t
<1> DEFINE S == {u \in Threads : pc[u] # "idle" /\ index[u] = index[t] /\ port[u] = port[t]}
<1>1. IsFiniteSet(S)
  <2>1. S \in SUBSET Threads
    OBVIOUS
  <2> QED BY <2>1, FS_Subset, PortsAssumption, ThreadAssumption
<1>2. t \in S
  OBVIOUS
<1>3. Cardinality(S) \in Nat
  BY <1>1, FS_CardinalityType
<1>4. Cardinality(S) # 0
  BY <1>1, <1>2, FS_EmptySet
<1>5. Cardinality(S) = 1 /\ ports[index[t]] # port[t]
  BY <1>3, <1>4 DEF Alone, UseCount
<1>6. PICK x : S = {x}
  BY <1>1, <1>5, FS_Singleton
<1>7. \A u \in Threads : index[u] = index[t] /\ port[u] = port[t] => u \in S
  BY DEF IInv, Holding, Without
<1> QED BY <1>2, <1>5, <1>6, <1>7

LEMMA InitEstablishes == Init => IInv
<1> SUFFICES ASSUME Init PROVE IInv
  OBVIOUS
<1> USE PortsAssumption, ThreadAssumption DEF Init
<1>1. TypeOK
  BY DEF TypeOK, Steps
<1>2. Holding /\ Gone /\ Untouched /\ Exclusion
  BY DEF Holding, Without, Gone, Untouched, Exclusion
<1> QED BY <1>1, <1>2 DEF IInv

-----------------------------------------------------------------------------
LEMMA NoObjectIsZero == 0 \notin Objects
BY DEF Objects

LEMMA StepPreserves == IInv /\ [Next]_vars => IInv'
<1> SUFFICES ASSUME IInv, [Next]_vars PROVE IInv'
  OBVIOUS
<1> USE PortsAssumption, ThreadAssumption, NoObjectIsZero
    DEF IInv, TypeOK, Steps, Holding, Without, Gone, Untouched, Exclusion, Goto
<1>1. CASE UNCHANGED vars
  BY <1>1 DEF vars, statics, locals
<1>2. ASSUME NEW t \in Threads, Step(t) PROVE IInv'
  <2>1. ASSUME NEW i \in Indexes, InitializePort(t, i) PROVE IInv'
    BY <2>1 DEF InitializePort, statics
  <2>2. ASSUME NEW i \in Indexes, GetFails(t, i) PROVE IInv'
    BY <2>2 DEF GetFails, vars, statics, locals
  <2>3. ASSUME NEW i \in Indexes, NEW step \in {"use", "remove"}, Get(t, i, step) PROVE IInv'
    BY <2>3 DEF Get, statics
  <2>4. CASE InitializeDigitalLock(t)
    BY <2>4 DEF InitializeDigitalLock, CheckedAgain, locals
  <2>5. CASE InitializeDigitalWrite(t)
    BY <2>5 DEF InitializeDigitalWrite, locals
  <2>6. CASE AllocateFails(t)
    BY <2>6 DEF AllocateFails, Return, statics
  <2>7. CASE Allocate(t)
    <3> DEFINE o == NewObject(index[t])
    <3>1. o \in Objects /\ o \notin Held(index[t])
      BY <2>7, NewObjectIsNew DEF Allocate
    <3> HIDE DEF o
    <3>2. ports' = [ports EXCEPT ![index[t]] = o] /\ released' = released \ {<<index[t], o>>}
      BY <2>7 DEF Allocate, o
    <3>3. o # 0 /\ \A u \in Threads : index[u] = index[t] => port[u] # o
      BY <3>1 DEF Held, Objects
    <3>4. TypeOK' /\ Holding' /\ Untouched' /\ Exclusion'
      BY <2>7, <3>1, <3>2 DEF Allocate, statics, locals
    <3>5. Gone'
      BY <2>7, <3>1, <3>2, <3>3 DEF Allocate, statics, locals
    <3> QED BY <3>4, <3>5
  <2>8. CASE GetAllocated(t)
    BY <2>8 DEF GetAllocated, statics
  <2>9. CASE Configure(t)
    BY <2>9 DEF Configure, Return, statics
  <2>10. CASE Use(t)
    <3>1. output' \subseteq {i \in Indexes : ~IsDIO(i)}
      <4>1. CASE IsDIO(index[t])
        BY <2>10, <4>1 DEF Use
      <4>2. CASE ~IsDIO(index[t])
        <5>1. index[t] \in {i \in Indexes : ~IsDIO(i)}
          BY <4>2, Zenon
        <5>2. output' = output \cup {index[t]}
          BY <2>10, <4>2 DEF Use
        <5> QED BY <5>1, <5>2
      <4> QED BY <4>1, <4>2
    <3>2. initialized
      BY <2>10 DEF Use
    <3> QED BY <2>10, <3>1, <3>2 DEF Use, Return, statics
  <2>11. CASE RemovePort(t)
    BY <2>11 DEF RemovePort, statics, locals
  <2>12. CASE FreeReturns(t)
    <3>1. /\ ports[index[t]] # port[t] /\ port[t] \in Objects
          /\ \A u \in Threads : index[u] = index[t] /\ port[u] = port[t] => u = t
      BY <2>12, AloneMeansAlone DEF FreeReturns
    <3>2. released' = released \cup {<<index[t], port[t]>>}
      BY <2>12 DEF FreeReturns
    <3>3. TypeOK' /\ Holding' /\ Untouched' /\ Exclusion'
      BY <2>12, <3>1, <3>2 DEF FreeReturns, Return, statics
    <3>4. Gone'
      <4> SUFFICES ASSUME NEW i \in Indexes, NEW o \in Objects, <<i, o>> \in released'
                   PROVE  /\ ports'[i] # o
                          /\ \A u \in Threads : index'[u] = i => port'[u] # o
        BY DEF Gone
      <4>1. CASE <<i, o>> \in released
        BY <2>12, <4>1 DEF FreeReturns, Return, statics
      <4>2. CASE i = index[t] /\ o = port[t]
        BY <2>12, <3>1, <4>2 DEF FreeReturns, Return, statics
      <4> QED BY <3>2, <4>1, <4>2
    <3> QED BY <3>3, <3>4
  <2>13. CASE FreeTimesOut(t)
    BY <2>13 DEF FreeTimesOut, Return, statics
  <2> QED
    BY <1>2, <2>1, <2>2, <2>3, <2>4, <2>5, <2>6, <2>7, <2>8, <2>9, <2>10, <2>11, <2>12, <2>13
       DEF Step, StartUse, StartFree
<1> QED BY <1>1, <1>2 DEF Next

\* In every state of the system the invariant holds.
THEOREM Invariance == Spec => []IInv
BY InitEstablishes, StepPreserves, PTL DEF Spec

\* Type correctness: every port, table entry and use count in its range.
THEOREM Typing == Spec => []TypeOK
<1>1. IInv => TypeOK
  BY DEF IInv
<1> QED BY <1>1, Invariance, PTL

\* Whatever threads allocate, use and free through handles that look alike: after a
\* free that returned in time nobody uses the object.
THEOREM FreedPortsAreUnused == Spec => []FreedIsUnused
<1>1. IInv => FreedIsUnused
  BY DEF IInv, TypeOK, Gone, Holding, Without, FreedIsUnused, Objects
<1> QED BY <1>1, Invariance, PTL

\* Of all threads that race to open the first port, one turns the outputs off, before
\* anybody can have turned one on.
THEOREM OutputsAreKept == Spec => OutputsStayOn
<1>1. IInv /\ [Next]_vars => [output \subseteq output']_vars
  <2> SUFFICES ASSUME IInv, NEW t \in Threads, Step(t) PROVE output \subseteq output'
    BY DEF Next
  <2>1. CASE InitializeDigitalWrite(t)
    BY <2>1 DEF InitializeDigitalWrite, IInv, Untouched, Exclusion
  <2>2. CASE Use(t)
    BY <2>2 DEF Use
  <2>3. CASE output' = output
    BY <2>3
  <2> QED
    BY <2>1, <2>2, <2>3
       DEF Step, InitializePort, GetFails, StartUse, StartFree, Get, InitializeDigitalLock,
           AllocateFails, Allocate, GetAllocated, Configure, RemovePort, FreeReturns,
           FreeTimesOut, vars
<1> QED BY <1>1, Invariance, PTL DEF Spec, OutputsStayOn

\* No two DIO channels have one source, at any border of the groups of channels.
THEOREM SourcesAreDistinct == Spec => []DistinctSources
<1>1. DistinctSources
  BY PortsAssumption, ThreadAssumption
     DEF DistinctSources, DIOPorts, IsDIO, remapDigitalSource, remapSPIChannel,
         kNumDigitalHeaders, kNumDigitalMXPChannels, kNumDigitalChannels, kNumPWMHeaders
<1> QED BY <1>1, PTL
=============================================================================
