---------------------------- MODULE PortsProofs ----------------------------
(***************************************************************************)
(* For any number of threads, channels and ports: no switch of a relay     *)
(* loses or undoes another one, and exactly the pins of open SPI ports are *)
(* taken.                                                                  *)
(***************************************************************************)
EXTENDS Relay, SPI, FiniteSetTheorems, TLAPS

\* Only the holder of the mutex is between the read and the write, and what it has
\* read is still in the register.
Copied ==
  \A t \in Threads :
    /\ relayPc[t] = "write" <=> digitalRelayMutex = t
    /\ relayPc[t] = "write" => seen[t] = registers[relayPort[t].direction]
    /\ relayPc[t] # "idle" => relayPort[t] \in Relays

IInv == RelayTypeOK /\ Copied /\ AsSwitched

LEMMA InitEstablishes == RelayInit => IInv
BY RelayAssumption, ThreadAssumption
   DEF RelayInit, IInv, RelayTypeOK, Copied, AsSwitched, Relays, Directions

\* Opening a relay needs an index in range.
LEMMA OpenPreserves ==
  ASSUME IInv, NEW d \in Directions, NEW c \in Channels, InitializeRelayPort(d, c)
  PROVE  IInv'
<1>1. IndexOf(d, c) \in RelayIndexes /\ [direction |-> d, channel |-> c] \in Relays
  BY RelayAssumption, ThreadAssumption DEF InitializeRelayPort, CanAllocate, Relays
<1> QED
  BY <1>1 DEF IInv, RelayTypeOK, Copied, AsSwitched, InitializeRelayPort, relayLocals

LEMMA StepPreserves == IInv /\ [RelayNext]_relayVars => IInv'
<1> SUFFICES ASSUME IInv, [RelayNext]_relayVars PROVE IInv'
  OBVIOUS
<1> USE DEF IInv, RelayTypeOK, Copied, AsSwitched
<1>1. CASE UNCHANGED relayVars
  BY <1>1 DEF relayVars, relayLocals
<1>2. ASSUME NEW d \in Directions, NEW c \in Channels, InitializeRelayPort(d, c) PROVE IInv'
  BY <1>2, OpenPreserves
<1>3. ASSUME NEW i \in RelayIndexes, FreeRelayPort(i) PROVE IInv'
  BY <1>3 DEF FreeRelayPort, relayLocals
<1>4. ASSUME NEW t \in Threads, NEW i \in RelayIndexes, NEW value \in BOOLEAN, SetRelay(t, i, value)
      PROVE  IInv'
  BY <1>4, RelayAssumption, ThreadAssumption DEF SetRelay
<1>5. ASSUME NEW t \in Threads, ReadRegister(t) PROVE IInv'
  BY <1>5, RelayAssumption, ThreadAssumption DEF ReadRegister, Unlocked, Relays
<1>6. ASSUME NEW t \in Threads, WriteRegister(t) PROVE IInv'
  <2> DEFINE r == relayPort[t]
  <2>1. r \in Relays /\ digitalRelayMutex = t /\ seen[t] = registers[r.direction]
    BY <1>6 DEF WriteRegister
  <2>2. Changed(t) = IF on[t] THEN registers[r.direction] \cup {r.channel}
                              ELSE registers[r.direction] \ {r.channel}
    BY <2>1 DEF Changed
  <2>3. Changed(t) \in SUBSET Bits /\ r.direction \in Directions /\ r.channel \in Bits
    BY <2>1, <2>2 DEF Relays
  <2>4. RelayTypeOK' /\ Copied'
    BY <1>6, <2>1, <2>3, RelayAssumption, ThreadAssumption DEF WriteRegister
  <2>5. AsSwitched'
    <3> SUFFICES ASSUME NEW s \in Relays
                 PROVE  s.channel \in registers'[s.direction] <=> s \in switched'
      BY DEF AsSwitched
    <3>1. s = r <=> s.direction = r.direction /\ s.channel = r.channel
      BY <2>1 DEF Relays
    <3> QED BY <1>6, <2>1, <2>2, <2>3, <3>1 DEF WriteRegister, Relays
  <2> QED BY <2>4, <2>5
<1> QED BY <1>1, <1>2, <1>3, <1>4, <1>5, <1>6 DEF RelayNext

\* Whatever threads switch, open and close at once, a relay's output is as the last
\* completed HAL_SetRelay on it asked.
THEOREM RelaysAreAsSwitched == RelaySpec => []AsSwitched
<1>1. IInv => AsSwitched
  BY DEF IInv
<1> QED BY <1>1, InitEstablishes, StepPreserves, PTL DEF RelaySpec

\* Type correctness of Relay.
THEOREM RelayTyping == RelaySpec => []RelayTypeOK
<1>1. IInv => RelayTypeOK
  BY DEF IInv
<1> QED BY <1>1, InitEstablishes, StepPreserves, PTL DEF RelaySpec

-----------------------------------------------------------------------------
SPISpec == SPIInit /\ [][SPINext]_spiVars

\* The steps of opening and closing a port.
Opening == {"count", "common", "pins", "open", "stop", "uncount", "free", "release"}

\* One thread at a time opens or closes a port, and has it out of the table unless it
\* is at the start of closing; it need not be in the table then.
CallsInv ==
  /\ spiPc \in [Threads -> Opening \cup {"idle", "ask", "transfer"}]
  /\ spiPort \in [Threads -> SPIPorts \cup {kSpiMaxHandles}]
  /\ handle \subseteq SPIPorts
  /\ \A t \in Threads : spiPc[t] = "idle" <=> spiPort[t] = kSpiMaxHandles
  /\ \A t, u \in Threads :
       spiPc[t] \in Opening /\ spiPc[u] \in Opening /\ spiPort[t] = spiPort[u] => t = u
  /\ \A t \in Threads : spiPc[t] \in Opening \ {"stop"} => spiPort[t] \notin handle
  /\ \A t \in Threads : spiPc[t] \in {"count", "common", "uncount", "free"} => Onboard(spiPort[t])

LEMMA PortFacts ==
  /\ kSpiMaxHandles \notin SPIPorts
  /\ \A p \in SPIPorts : Pins(p) \cap Common = {}
  /\ \A p, q \in SPIPorts : p # q => Pins(p) \cap Pins(q) = {}
<1>1. kSpiMaxHandles \notin SPIPorts
  BY SPIAssumption DEF kSpiMaxHandles
<1>2. \A p \in SPIPorts :
        /\ p \in 0 .. 4
        /\ p = 0 => Pins(p) = {}
        /\ p \in 1 .. 3 => Pins(p) = {25 + p}
        /\ p = 4 => Pins(p) = 14 .. 17
  BY SPIAssumption DEF Pins
<1>3. ASSUME NEW p \in SPIPorts PROVE Pins(p) \cap Common = {}
  BY <1>2 DEF Common
<1>4. ASSUME NEW p \in SPIPorts, NEW q \in SPIPorts, p # q PROVE Pins(p) \cap Pins(q) = {}
  BY <1>2, <1>4
<1> QED BY <1>1, <1>3, <1>4

LEMMA CallsStart == SPIInit => CallsInv
BY DEF SPIInit, CallsInv, Opening

\* A call for port p begins.
LEMMA CallsBegin ==
  ASSUME CallsInv, NEW t \in Threads, NEW p \in SPIPorts, NEW step, SPIBegin(t, p, step),
         handle' = handle,
         step \in {"count", "pins", "stop", "ask", "transfer"},
         step \in {"count", "pins"} => p \notin handle,
         step = "count" => Onboard(p)
  PROVE  CallsInv'
<1>1. spiPc[t] = "idle" /\ spiPc' = [spiPc EXCEPT ![t] = step] /\ spiPort' = [spiPort EXCEPT ![t] = p]
  BY DEF SPIBegin, SPIGoto
<1>2. step \in {"count", "pins", "stop"} =>
        \A u \in Threads : spiPort[u] = p => spiPc[u] \in {"ask", "transfer"}
  BY DEF SPIBegin
<1>3. p # kSpiMaxHandles
  BY PortFacts
<1> QED BY <1>1, <1>2, <1>3 DEF CallsInv, Opening

\* A call goes on with the table as it is, or returns.
LEMMA CallsGoOn ==
  ASSUME CallsInv, NEW t \in Threads, NEW step, handle' = handle,
         \/ /\ spiPc[t] \in Opening \ {"stop"} /\ step \in Opening \ {"stop"}
            /\ step \in {"count", "common", "uncount", "free"} => Onboard(spiPort[t])
            /\ SPIGoto(t, step) /\ spiPort' = spiPort
         \/ spiPc[t] \in {"ask"} /\ step = "transfer" /\ SPIGoto(t, step) /\ spiPort' = spiPort
         \/ spiPc[t] # "idle" /\ SPIReturn(t)
  PROVE  CallsInv'
<1>1. CASE SPIReturn(t)
  BY <1>1 DEF CallsInv, Opening, SPIReturn, SPIGoto
<1>2. CASE ~SPIReturn(t)
  BY <1>2, PortFacts DEF CallsInv, Opening, SPIGoto
<1> QED BY <1>1, <1>2

LEMMA CallsStep == CallsInv /\ [SPINext]_spiVars => CallsInv'
<1> SUFFICES ASSUME CallsInv, [SPINext]_spiVars PROVE CallsInv'
  OBVIOUS
<1>1. CASE UNCHANGED spiVars
  BY <1>1 DEF spiVars, CallsInv
<1>2. ASSUME NEW t \in Threads, NEW p \in SPIPorts, InitializeSPI(t, p) PROVE CallsInv'
  BY <1>2, CallsBegin DEF InitializeSPI
<1>3. ASSUME NEW t \in Threads, NEW p \in SPIPorts, CloseSPI(t, p) PROVE CallsInv'
  BY <1>3, CallsBegin DEF CloseSPI
<1>4. ASSUME NEW p \in SPIPorts, UseEngine(p) PROVE CallsInv'
  BY <1>4 DEF UseEngine, CallsInv
<1>5. ASSUME NEW t \in Threads, NEW p \in SPIPorts, StartTransfer(t, p) PROVE CallsInv'
  BY <1>5, CallsBegin DEF StartTransfer
<1>6. ASSUME NEW t \in Threads, CountPort(t) PROVE CallsInv'
  BY <1>6, CallsGoOn DEF CountPort, Opening, CallsInv, SPIGoto
<1>7. ASSUME NEW t \in Threads, CommonPins(t) PROVE CallsInv'
  BY <1>7, CallsGoOn DEF CommonPins, Opening
<1>8. ASSUME NEW t \in Threads, OwnPins(t) PROVE CallsInv'
  BY <1>8, CallsGoOn DEF OwnPins, GiveBack, Opening
<1>9. ASSUME NEW t \in Threads, OpenDevice(t) PROVE CallsInv'
  <2>1. CASE handle' = handle \cup {spiPort[t]} /\ SPIReturn(t)
    BY <1>9, <2>1 DEF OpenDevice, CallsInv, Opening, SPIReturn, SPIGoto
  <2>2. CASE GiveBack(t) /\ handle' = handle
    BY <1>9, <2>2, CallsGoOn DEF OpenDevice, GiveBack, Opening
  <2> QED BY <1>9, <2>1, <2>2 DEF OpenDevice
<1>10. ASSUME NEW t \in Threads, Uncount(t) PROVE CallsInv'
  BY <1>10, CallsGoOn DEF Uncount, Opening, CallsInv
<1>11. ASSUME NEW t \in Threads, FreeCommon(t) PROVE CallsInv'
  BY <1>11, CallsGoOn DEF FreeCommon, Opening
<1>12. ASSUME NEW t \in Threads, Release(t) PROVE CallsInv'
  BY <1>12, CallsGoOn DEF Release, Opening
<1>13. ASSUME NEW t \in Threads, CloseDevice(t) PROVE CallsInv'
  BY <1>13 DEF CloseDevice, GiveBack, CallsInv, Opening, SPIGoto
<1>14. ASSUME NEW t \in Threads, Ask(t) PROVE CallsInv'
  BY <1>14, CallsGoOn DEF Ask, Opening
<1>15. ASSUME NEW t \in Threads, SPITransfer(t) PROVE CallsInv'
  BY <1>15, CallsGoOn DEF SPITransfer, Opening
<1> QED BY <1>1, <1>2, <1>3, <1>4, <1>5, <1>6, <1>7, <1>8, <1>9, <1>10, <1>11, <1>12,
           <1>13, <1>14, <1>15
        DEF SPINext, HAL_TransactionSPI, HAL_WriteSPI, HAL_ReadSPI

\* The ports that CommonSPIPortInit has counted and CommonSPIPortFree has not.
Counted == {p \in SPIPorts : /\ Onboard(p)
                             /\ \/ p \in handle
                                \/ \E t \in Threads : /\ spiPort[t] = p
                                                      /\ spiPc[t] \in {"common", "pins", "open", "uncount"}}
At(step) == {t \in Threads : spiPc[t] = step}

\* The count is of those ports.  The shared pins are taken while there are some, but
\* for the time in which the first is taking them; and while the last is about to free
\* them, in which the next first one waits or fails.
CountInv ==
  /\ spiPortCount = Cardinality(Counted)
  /\ \A t, u \in Threads : spiPc[t] = spiPc[u] /\ spiPc[t] \in {"common", "free"} => t = u
  /\ At("free") # {} => Common \subseteq pins /\ (Counted = {} \/ At("common") # {})
  /\ At("free") = {} /\ (At("common") # {} \/ Counted = {}) => Common \cap pins = {}
  /\ At("free") = {} /\ At("common") = {} /\ Counted # {} => Common \subseteq pins

\* A port's own pins are taken while it is open, or a call is about to open it or to
\* release them.
OwnInv ==
  /\ \A p \in handle : Pins(p) \subseteq pins
  /\ \A t \in Threads : spiPc[t] = "open" => Pins(spiPort[t]) \subseteq pins
  /\ pins \subseteq Common \cup UNION {Pins(p) : p \in SPIPorts}
  /\ \A p \in SPIPorts : Pins(p) \cap pins # {} =>
       p \in handle \/ \E t \in Threads : /\ spiPort[t] = p
                                          /\ spiPc[t] \in {"open", "uncount", "free", "release"}

\* A port on board that is closed is open.
NoStray == \A t \in Threads : spiPc[t] = "stop" /\ Onboard(spiPort[t]) => spiPort[t] \in handle

PinsInv == CallsInv /\ (miscounted = {} => NoStray /\ CountInv) /\ OwnInv

Counting == {"common", "pins", "open", "uncount"}

LEMMA CountedIsFinite == IsFiniteSet(Counted) /\ Cardinality(Counted) \in Nat
<1>1. IsFiniteSet(0 .. 4)
  BY FS_Interval, 0 \in Int, 4 \in Int, Zenon
<1>2. Counted \in SUBSET (0 .. 4)
  BY SPIAssumption DEF Counted
<1>3. IsFiniteSet(Counted)
  BY <1>1, <1>2, FS_Subset
<1> QED BY <1>3, FS_CardinalityType

\* A step of a thread whose port is p, or that begins a call for it, changes nothing
\* in what is counted but p.
LEMMA CountedOf ==
  ASSUME CallsInv, NEW t \in Threads, NEW p \in SPIPorts,
         spiPort[t] \in {p, kSpiMaxHandles}, spiPort'[t] \in {p, kSpiMaxHandles},
         \A u \in Threads \ {t} : spiPort'[u] = spiPort[u] /\ spiPc'[u] = spiPc[u],
         handle' \in {handle, handle \cup {p}, handle \ {p}}
  PROVE  \A q \in SPIPorts \ {p} : q \in Counted' <=> q \in Counted
<1> TAKE q \in SPIPorts \ {p}
<1>1. q \in handle' <=> q \in handle
  OBVIOUS
<1>2. \A u \in Threads : (spiPort'[u] = q /\ spiPc'[u] \in Counting) <=> (spiPort[u] = q /\ spiPc[u] \in Counting)
  BY PortFacts
<1> QED BY <1>1, <1>2 DEF Counted, Counting

\* The port of a call is counted with the call, or in the table.
LEMMA CountedHere ==
  ASSUME CallsInv, NoStray, NEW t \in Threads, spiPc[t] \in Opening
  PROVE  spiPort[t] \in Counted <=>
           Onboard(spiPort[t]) /\ spiPc[t] \in Counting \cup {"stop"}
BY PortFacts DEF CallsInv, NoStray, Counted, Counting, Opening

\* Steps that touch neither the shared pins nor the count.
LEMMA CountSame ==
  ASSUME CountInv, Counted' = Counted, spiPortCount' = spiPortCount,
         Common \cap pins' = Common \cap pins,
         At("common")' = At("common"), At("free")' = At("free")
  PROVE  CountInv'
BY DEF CountInv, At

LEMMA CountStart == SPIInit => CountInv
<1> SUFFICES ASSUME SPIInit PROVE CountInv
  OBVIOUS
<1>1. At("common") = {} /\ At("free") = {}
  BY DEF SPIInit, At
<1>2. Counted = {}
  BY DEF SPIInit, Counted
<1> QED BY <1>1, <1>2, FS_EmptySet DEF SPIInit, CountInv, At

LEMMA StrayStep ==
  ASSUME CallsInv, NoStray, miscounted' = {}, [SPINext]_spiVars
  PROVE  NoStray'
<1> USE DEF SPIGoto, SPIReturn
<1>1. CASE UNCHANGED spiVars
  BY <1>1 DEF spiVars, NoStray
<1>2. ASSUME NEW t \in Threads, handle' \in {handle, handle \cup {spiPort[t]}},
             \A u \in Threads \ {t} : spiPort'[u] = spiPort[u] /\ spiPc'[u] = spiPc[u],
             spiPc'[t] # "stop" \/ ~Onboard(spiPort'[t]) \/ spiPort'[t] \in handle
      PROVE  NoStray'
  BY <1>2 DEF NoStray
<1>3. ASSUME NEW t \in Threads, NEW p \in SPIPorts,
             InitializeSPI(t, p) \/ StartTransfer(t, p)
      PROVE  NoStray'
  BY <1>2, <1>3 DEF InitializeSPI, StartTransfer, SPIBegin, CallsInv
<1>4. ASSUME NEW t \in Threads, NEW p \in SPIPorts, CloseSPI(t, p) PROVE NoStray'
  BY <1>2, <1>4 DEF CloseSPI, SPIBegin, CallsInv
<1>5. ASSUME NEW p \in SPIPorts, UseEngine(p) PROVE NoStray'
  BY <1>5 DEF UseEngine, NoStray
<1>6. ASSUME NEW t \in Threads,
             \/ CountPort(t) \/ CommonPins(t) \/ OwnPins(t) \/ OpenDevice(t) \/ Uncount(t)
             \/ FreeCommon(t) \/ Release(t) \/ Ask(t) \/ SPITransfer(t)
      PROVE  NoStray'
  <2>1. handle' \in {handle, handle \cup {spiPort[t]}}
    BY <1>6 DEF CountPort, CommonPins, OwnPins, OpenDevice, Uncount, FreeCommon, Release, Ask, SPITransfer
  <2>2. \A u \in Threads \ {t} : spiPort'[u] = spiPort[u] /\ spiPc'[u] = spiPc[u]
    BY <1>6 DEF CountPort, CommonPins, OwnPins, OpenDevice, Uncount, FreeCommon, Release, Ask,
               SPITransfer, GiveBack, CallsInv
  <2>3. spiPc'[t] # "stop"
    BY <1>6 DEF CountPort, CommonPins, OwnPins, OpenDevice, Uncount, FreeCommon, Release, Ask,
               SPITransfer, GiveBack, CallsInv
  <2> QED BY <1>2, <2>1, <2>2, <2>3
<1>7. ASSUME NEW t \in Threads, CloseDevice(t) PROVE NoStray'
  BY <1>7 DEF CloseDevice, GiveBack, NoStray, CallsInv, Opening
<1> QED BY <1>1, <1>3, <1>4, <1>5, <1>6, <1>7
        DEF SPINext, HAL_TransactionSPI, HAL_WriteSPI, HAL_ReadSPI

LEMMA CountStep ==
  ASSUME CallsInv, CallsInv', NoStray, CountInv, OwnInv, miscounted' = {}, [SPINext]_spiVars
  PROVE  CountInv'
<1> USE DEF SPIGoto, SPIReturn
<1>1. CASE UNCHANGED spiVars
  BY <1>1 DEF spiVars, CountInv, Counted, At
<1>2. ASSUME NEW t \in Threads, NEW p \in SPIPorts, InitializeSPI(t, p) PROVE CountInv'
  <2>1. UNCHANGED <<handle, spiPortCount, pins>>
    BY <1>2 DEF InitializeSPI
  <2>2. /\ spiPc[t] = "idle" /\ spiPort' = [spiPort EXCEPT ![t] = p]
        /\ spiPc' = [spiPc EXCEPT ![t] = IF Onboard(p) THEN "count" ELSE "pins"]
    BY <1>2 DEF InitializeSPI, SPIBegin
  <2>3. spiPort[t] = kSpiMaxHandles
    BY <2>2 DEF CallsInv
  <2>4. p \in Counted' <=> p \in Counted
    BY <2>1, <2>2, PortFacts DEF Counted, CallsInv
  <2>5. Counted' = Counted
    BY <2>1, <2>2, <2>3, <2>4, CountedOf DEF CallsInv, Counted
  <2>6. At("common")' = At("common") /\ At("free")' = At("free")
    BY <2>2 DEF At, CallsInv
  <2> QED BY <2>1, <2>5, <2>6, CountSame
<1>3. ASSUME NEW t \in Threads, NEW p \in SPIPorts, CloseSPI(t, p) \/ StartTransfer(t, p)
      PROVE  CountInv'
  <2>1. UNCHANGED <<handle, spiPortCount, pins>>
    BY <1>3 DEF CloseSPI, StartTransfer
  <2>2. /\ spiPc[t] = "idle" /\ spiPort' = [spiPort EXCEPT ![t] = p]
        /\ \E step \in {"stop", "ask", "transfer"} : spiPc' = [spiPc EXCEPT ![t] = step]
    BY <1>3 DEF CloseSPI, StartTransfer, SPIBegin
  <2>3. spiPort[t] = kSpiMaxHandles
    BY <2>2 DEF CallsInv
  <2>4. p \in Counted' <=> p \in Counted
    BY <2>1, <2>2 DEF Counted, CallsInv
  <2>5. Counted' = Counted
    BY <2>1, <2>2, <2>3, <2>4, CountedOf DEF CallsInv, Counted
  <2>6. At("common")' = At("common") /\ At("free")' = At("free")
    BY <2>2 DEF At, CallsInv
  <2> QED BY <2>1, <2>5, <2>6, CountSame
<1>4. ASSUME NEW t \in Threads, CountPort(t) PROVE CountInv'
  <2> DEFINE p == spiPort[t]
  <2>1. /\ spiPc[t] = "count" /\ spiPortCount' = spiPortCount + 1 /\ UNCHANGED <<handle, pins, spiPort>>
        /\ spiPc' = [spiPc EXCEPT ![t] = IF spiPortCount = 0 THEN "common" ELSE "pins"]
    BY <1>4 DEF CountPort
  <2>2. p \in SPIPorts /\ Onboard(p)
    BY <2>1 DEF CallsInv
  <2>3. p \notin Counted
    BY <2>1, CountedHere DEF Opening, Counting
  <2>4. p \in Counted'
    BY <2>1, <2>2 DEF Counted, CallsInv
  <2>5. Counted' = Counted \cup {p}
    BY <2>1, <2>2, <2>3, <2>4, CountedOf DEF Counted, CallsInv
  <2>6. spiPortCount' = Cardinality(Counted')
    BY <2>1, <2>3, <2>5, CountedIsFinite, FS_AddElement DEF CountInv
  <2>7. spiPortCount = 0 <=> Counted = {}
    BY CountedIsFinite, FS_EmptySet DEF CountInv
  <2>8. At("free")' = At("free")
    BY <2>1 DEF At, CallsInv
  <2>9. CASE Counted = {}
    <3>1. At("common")' = At("common") \cup {t}
      BY <2>1, <2>7, <2>9 DEF At, CallsInv
    <3>2. At("common") = {}
      BY <2>9, CountedHere DEF At, Opening, Counting, CallsInv
    <3> QED BY <2>1, <2>5, <2>6, <2>7, <2>8, <2>9, <3>1, <3>2 DEF CountInv, At
  <2>10. CASE Counted # {}
    <3>1. At("common")' = At("common")
      BY <2>1, <2>7, <2>10 DEF At, CallsInv
    <3> QED BY <2>1, <2>5, <2>6, <2>8, <2>10, <3>1 DEF CountInv, At
  <2> QED BY <2>9, <2>10
<1>5. ASSUME NEW t \in Threads, CommonPins(t) PROVE CountInv'
  <2> DEFINE p == spiPort[t]
  <2>1. /\ spiPc[t] = "common" /\ UNCHANGED <<handle, spiPortCount, spiPort>>
        /\ Common \cap pins = {} /\ pins' = pins \cup Common
        /\ spiPc' = [spiPc EXCEPT ![t] = "pins"]
    BY <1>5 DEF CommonPins
  <2>2. p \in SPIPorts /\ p \in Counted
    BY <2>1, CountedHere DEF CallsInv, Opening, Counting
  <2>3. p \in Counted'
    BY <2>1, <2>2 DEF Counted, CallsInv
  <2>4. Counted' = Counted
    BY <2>1, <2>2, <2>3, CountedOf DEF Counted, CallsInv
  <2>5. At("free")' = At("free") /\ At("common")' = {}
    BY <2>1 DEF At, CallsInv, CountInv
  <2>6. At("free") = {}
    BY <2>1 DEF CountInv, Common
  <2> QED BY <2>1, <2>2, <2>4, <2>5, <2>6 DEF CountInv, At
<1>6. ASSUME NEW t \in Threads, OwnPins(t) \/ OpenDevice(t) \/ Release(t) PROVE CountInv'
  <2> DEFINE p == spiPort[t]
  <2>1. /\ spiPc[t] \in {"pins", "open", "release"} /\ spiPortCount' = spiPortCount
        /\ handle' \in {handle, handle \cup {p}}
    BY <1>6 DEF OwnPins, OpenDevice, Release
  <2>2. p \in SPIPorts
    BY <2>1 DEF CallsInv, Opening
  <2>3. spiPort'[t] \in {p, kSpiMaxHandles} /\ DOMAIN spiPc' = Threads
    BY <1>6, <2>1 DEF OwnPins, OpenDevice, Release, GiveBack, CallsInv
  <2>4. \A u \in Threads \ {t} : spiPort'[u] = spiPort[u] /\ spiPc'[u] = spiPc[u]
    BY <1>6 DEF OwnPins, OpenDevice, Release, GiveBack, CallsInv
  <2>5. Common \cap pins' = Common \cap pins
    <3>1. \/ pins' = pins \/ pins' = pins \cup Pins(p) \/ pins' = pins \ Pins(p)
      BY <1>6 DEF OwnPins, OpenDevice, Release
    <3> QED BY <2>2, <3>1, PortFacts
  <2>6. p \in Counted' <=> p \in Counted
    <3>1. CASE OwnPins(t)
      <4>1. /\ spiPc[t] = "pins" /\ spiPort' = spiPort /\ handle' = handle
            /\ \/ spiPc' = [spiPc EXCEPT ![t] = "open"]
               \/ spiPc' = [spiPc EXCEPT ![t] = IF Onboard(p) THEN "uncount" ELSE "release"]
        BY <3>1 DEF OwnPins, GiveBack
      <4> QED BY <2>2, <4>1 DEF Counted, CallsInv
    <3>2. CASE OpenDevice(t)
      <4>1. /\ spiPc[t] = "open"
            /\ \/ p \in handle'
               \/ /\ spiPort' = spiPort /\ handle' = handle
                  /\ spiPc' = [spiPc EXCEPT ![t] = IF Onboard(p) THEN "uncount" ELSE "release"]
        BY <3>2 DEF OpenDevice, GiveBack
      <4> QED BY <2>2, <4>1 DEF Counted, CallsInv
    <3>3. CASE Release(t)
      <4>1. spiPc[t] = "release" /\ handle' = handle /\ p # kSpiMaxHandles
            /\ spiPort' = [spiPort EXCEPT ![t] = kSpiMaxHandles]
        BY <2>2, <3>3, PortFacts DEF Release
      <4>2. p \notin Counted
        BY <4>1, CountedHere DEF Opening, Counting
      <4>3. \A u \in Threads : spiPort'[u] # p \/ spiPc'[u] \notin Counting
        BY <4>1, <2>4, CallsInv DEF CallsInv, Counting, Opening
      <4>4. p \notin handle
        BY <4>1 DEF CallsInv, Opening
      <4> QED BY <4>1, <4>2, <4>3, <4>4 DEF Counted, Counting
    <3> QED BY <1>6, <3>1, <3>2, <3>3
  <2>7. Counted' = Counted
    BY <2>1, <2>2, <2>3, <2>4, <2>6, CountedOf DEF Counted, CallsInv
  <2>8. At("common")' = At("common") /\ At("free")' = At("free")
    <3>1. spiPc'[t] \notin {"common", "free"}
      BY <1>6 DEF OwnPins, OpenDevice, Release, GiveBack, CallsInv
    <3> QED BY <2>1, <2>4, <3>1 DEF At
  <2> QED BY <2>1, <2>5, <2>7, <2>8, CountSame
<1>7. ASSUME NEW t \in Threads, Uncount(t) PROVE CountInv'
  <2> DEFINE p == spiPort[t]
  <2>1. /\ spiPc[t] = "uncount" /\ spiPortCount' = spiPortCount - 1 /\ UNCHANGED <<handle, pins, spiPort>>
        /\ spiPc' = [spiPc EXCEPT ![t] = IF spiPortCount = 1 THEN "free" ELSE "release"]
    BY <1>7 DEF Uncount
  <2>2. p \in SPIPorts /\ p \in Counted
    BY <2>1, CountedHere DEF CallsInv, Opening, Counting
  <2>3. p \notin Counted'
    <3>1. p \notin handle'
      BY <2>1 DEF CallsInv, Opening
    <3>2. \A u \in Threads : spiPort'[u] # p \/ spiPc'[u] \notin Counting
      BY <2>1 DEF CallsInv, Counting, Opening
    <3> QED BY <3>1, <3>2 DEF Counted, Counting
  <2>4. Counted' = Counted \ {p}
    BY <2>1, <2>2, <2>3, CountedOf DEF Counted, CallsInv
  <2>5. spiPortCount' = Cardinality(Counted')
    BY <2>1, <2>2, <2>4, CountedIsFinite, FS_RemoveElement DEF CountInv
  <2>6. spiPortCount = 1 <=> Counted' = {}
    <3>1. IsFiniteSet(Counted') /\ (Cardinality(Counted') = 0 <=> Counted' = {})
      BY <2>4, CountedIsFinite, FS_RemoveElement, FS_EmptySet
    <3> QED BY <2>1, <2>5, <3>1, CountedIsFinite DEF CountInv
  <2>7. At("common")' = At("common")
    BY <2>1 DEF At, CallsInv
  <2>8. CASE Counted' = {}
    <3>1. At("common") = {}
      <4> SUFFICES ASSUME NEW u \in At("common") PROVE FALSE
        OBVIOUS
      <4>1. spiPc[u] = "common" /\ spiPort[u] \in Counted
        BY CountedHere DEF At, Opening, Counting, CallsInv
      <4> QED BY <2>1, <2>4, <2>8, <4>1 DEF CallsInv, Opening, At
    <3>2. At("free") = {} /\ Common \subseteq pins
      BY <2>2, <3>1 DEF CountInv
    <3>3. At("free")' = {t}
      BY <2>1, <2>6, <2>8, <3>2 DEF At, CallsInv
    <3> QED BY <2>1, <2>5, <2>7, <2>8, <3>1, <3>2, <3>3 DEF CountInv, At
  <2>9. CASE Counted' # {}
    <3>1. At("free")' = At("free")
      BY <2>1, <2>6, <2>9 DEF At, CallsInv
    <3> QED BY <2>1, <2>2, <2>5, <2>7, <2>9, <3>1 DEF CountInv, At
  <2> QED BY <2>8, <2>9
<1>8. ASSUME NEW t \in Threads, FreeCommon(t) PROVE CountInv'
  <2> DEFINE p == spiPort[t]
  <2>1. /\ spiPc[t] = "free" /\ UNCHANGED <<handle, spiPortCount, spiPort>>
        /\ pins' = pins \ Common /\ spiPc' = [spiPc EXCEPT ![t] = "release"]
    BY <1>8 DEF FreeCommon
  <2>2. p \in SPIPorts
    BY <2>1 DEF CallsInv, Opening
  <2>3. p \in Counted' <=> p \in Counted
    BY <2>1, <2>2 DEF Counted, CallsInv
  <2>4. Counted' = Counted
    BY <2>1, <2>2, <2>3, CountedOf DEF Counted, CallsInv
  <2>5. At("common")' = At("common") /\ At("free")' = {} /\ At("free") # {}
    BY <2>1 DEF At, CallsInv, CountInv
  <2> QED BY <2>1, <2>4, <2>5 DEF CountInv, At
<1>9. ASSUME NEW t \in Threads, CloseDevice(t) PROVE CountInv'
  <2> DEFINE p == spiPort[t]
  <2>1. /\ spiPc[t] = "stop" /\ UNCHANGED <<spiPortCount, pins, spiPort>> /\ handle' = handle \ {p}
        /\ spiPc' = [spiPc EXCEPT ![t] = IF Onboard(p) THEN "uncount" ELSE "release"]
    BY <1>9 DEF CloseDevice, GiveBack
  <2>2. p \in SPIPorts /\ (Onboard(p) => p \in handle)
    BY <2>1 DEF CallsInv, Opening, NoStray
  <2>3. p \in Counted' <=> p \in Counted
    BY <2>1, <2>2 DEF Counted, CallsInv
  <2>4. Counted' = Counted
    BY <2>1, <2>2, <2>3, CountedOf DEF Counted, CallsInv
  <2>5. At("common")' = At("common") /\ At("free")' = At("free")
    BY <2>1 DEF At, CallsInv
  <2> QED BY <2>1, <2>4, <2>5, CountSame
<1>10. ASSUME NEW t \in Threads, Ask(t) \/ SPITransfer(t) PROVE CountInv'
  <2> DEFINE p == spiPort[t]
  <2>1. /\ spiPc[t] \in {"ask", "transfer"} /\ UNCHANGED <<spiPortCount, pins, handle>>
        /\ \/ spiPort' = spiPort /\ spiPc' = [spiPc EXCEPT ![t] = "transfer"]
           \/ spiPort' = [spiPort EXCEPT ![t] = kSpiMaxHandles] /\ spiPc' = [spiPc EXCEPT ![t] = "idle"]
    BY <1>10 DEF Ask, SPITransfer
  <2>2. p \in SPIPorts
    BY <2>1 DEF CallsInv, Opening
  <2>3. p \in Counted' <=> p \in Counted
    BY <2>1, <2>2, PortFacts DEF Counted, CallsInv
  <2>4. Counted' = Counted
    BY <2>1, <2>2, <2>3, CountedOf DEF Counted, CallsInv
  <2>5. At("common")' = At("common") /\ At("free")' = At("free")
    BY <2>1 DEF At, CallsInv
  <2> QED BY <2>1, <2>4, <2>5, CountSame
<1>11. ASSUME NEW p \in SPIPorts, UseEngine(p) PROVE CountInv'
  BY <1>11 DEF UseEngine, CountInv, Counted, At
<1> QED BY <1>1, <1>2, <1>3, <1>4, <1>5, <1>6, <1>7, <1>8, <1>9, <1>10, <1>11
        DEF SPINext, HAL_TransactionSPI, HAL_WriteSPI, HAL_ReadSPI

\* Steps that leave the pins alone, and lose no claim to one.
LEMMA OwnSame ==
  ASSUME OwnInv, CallsInv, NEW t \in Threads, UNCHANGED <<pins, handle>>,
         \A u \in Threads \ {t} : spiPort'[u] = spiPort[u] /\ spiPc'[u] = spiPc[u],
         spiPc'[t] # "open",
         spiPc[t] \in {"uncount", "free"} => spiPort'[t] = spiPort[t] /\ spiPc'[t] \in {"free", "release"},
         spiPc[t] \notin {"open", "release"}
  PROVE  OwnInv'
<1>1. \A p \in SPIPorts, u \in Threads :
        spiPort[u] = p /\ spiPc[u] \in {"open", "uncount", "free", "release"} =>
          spiPort'[u] = p /\ spiPc'[u] \in {"open", "uncount", "free", "release"}
  OBVIOUS
<1> QED BY <1>1 DEF OwnInv

LEMMA OwnStart == SPIInit => OwnInv
BY DEF SPIInit, OwnInv

LEMMA OwnStep ==
  ASSUME CallsInv, CallsInv', OwnInv, [SPINext]_spiVars
  PROVE  OwnInv'
<1> USE DEF SPIGoto, SPIReturn
<1>1. CASE UNCHANGED spiVars
  BY <1>1 DEF spiVars, OwnInv
<1>2. ASSUME NEW t \in Threads, NEW p \in SPIPorts,
             InitializeSPI(t, p) \/ CloseSPI(t, p) \/ StartTransfer(t, p)
      PROVE  OwnInv'
  <2>1. UNCHANGED <<handle, pins>> /\ spiPc[t] = "idle" /\ spiPc'[t] # "open"
    BY <1>2 DEF InitializeSPI, CloseSPI, StartTransfer, SPIBegin, CallsInv
  <2>2. \A u \in Threads \ {t} : spiPort'[u] = spiPort[u] /\ spiPc'[u] = spiPc[u]
    BY <1>2 DEF InitializeSPI, CloseSPI, StartTransfer, SPIBegin, CallsInv
  <2> QED BY <2>1, <2>2, OwnSame
<1>3. ASSUME NEW p \in SPIPorts, UseEngine(p) PROVE OwnInv'
  BY <1>3 DEF UseEngine, OwnInv
<1>4. ASSUME NEW t \in Threads, CountPort(t) \/ Uncount(t) \/ Ask(t) \/ SPITransfer(t) PROVE OwnInv'
  <2>1. UNCHANGED <<handle, pins>> /\ spiPc[t] \notin {"open", "release", "free"} /\ spiPc'[t] # "open"
    BY <1>4 DEF CountPort, Uncount, Ask, SPITransfer, CallsInv
  <2>2. \A u \in Threads \ {t} : spiPort'[u] = spiPort[u] /\ spiPc'[u] = spiPc[u]
    BY <1>4 DEF CountPort, Uncount, Ask, SPITransfer, CallsInv
  <2>3. spiPc[t] = "uncount" => spiPort'[t] = spiPort[t] /\ spiPc'[t] \in {"free", "release"}
    BY <1>4 DEF CountPort, Uncount, Ask, SPITransfer, CallsInv
  <2> QED BY <2>1, <2>2, <2>3, OwnSame
<1>5. ASSUME NEW t \in Threads, CommonPins(t) PROVE OwnInv'
  <2>1. /\ spiPc[t] = "common" /\ handle' = handle
        /\ pins' = pins \cup Common \/ pins' = pins
        /\ \A u \in Threads \ {t} : spiPort'[u] = spiPort[u] /\ spiPc'[u] = spiPc[u]
        /\ spiPc'[t] \in {"pins", "idle"}
    BY <1>5 DEF CommonPins, CallsInv
  <2>2. \A p \in SPIPorts : Pins(p) \cap pins' = Pins(p) \cap pins
    BY <2>1, PortFacts
  <2>3. \A p \in SPIPorts, u \in Threads :
          spiPort[u] = p /\ spiPc[u] \in {"open", "uncount", "free", "release"} =>
            spiPort'[u] = p /\ spiPc'[u] \in {"open", "uncount", "free", "release"}
    BY <2>1
  <2> QED BY <2>1, <2>2, <2>3 DEF OwnInv
<1>6. ASSUME NEW t \in Threads, OwnPins(t) PROVE OwnInv'
  <2>1. /\ spiPc[t] = "pins" /\ handle' = handle /\ spiPort' = spiPort
        /\ \/ pins' = pins \cup Pins(spiPort[t]) /\ spiPc' = [spiPc EXCEPT ![t] = "open"]
           \/ pins' = pins /\ \E step \in {"uncount", "release"} : spiPc' = [spiPc EXCEPT ![t] = step]
    BY <1>6 DEF OwnPins, GiveBack
  <2>2. spiPort[t] \in SPIPorts
    BY <2>1 DEF CallsInv, Opening
  <2>3. CASE pins' = pins \cup Pins(spiPort[t]) /\ spiPc' = [spiPc EXCEPT ![t] = "open"]
    <3>1. \A p \in SPIPorts : p # spiPort[t] => Pins(p) \cap pins' = Pins(p) \cap pins
      BY <2>2, <2>3, PortFacts
    <3>2. spiPc'[t] = "open" /\ \A u \in Threads \ {t} : spiPc'[u] = spiPc[u]
      BY <2>3 DEF CallsInv
    <3>3. ASSUME NEW p \in SPIPorts, Pins(p) \cap pins' # {}
          PROVE  p \in handle' \/ \E u \in Threads :
                   spiPort'[u] = p /\ spiPc'[u] \in {"open", "uncount", "free", "release"}
      <4>1. CASE p = spiPort[t]
        BY <2>1, <3>2, <4>1
      <4>2. CASE p # spiPort[t]
        <5>1. p \in handle \/ \E u \in Threads :
                spiPort[u] = p /\ spiPc[u] \in {"open", "uncount", "free", "release"}
          BY <3>1, <3>3, <4>2 DEF OwnInv
        <5> QED BY <2>1, <3>2, <5>1
      <4> QED BY <4>1, <4>2
    <3>4. pins' \subseteq Common \cup UNION {Pins(p) : p \in SPIPorts}
      BY <2>2, <2>3 DEF OwnInv
    <3>5. /\ \A p \in handle' : Pins(p) \subseteq pins'
          /\ \A u \in Threads : spiPc'[u] = "open" => Pins(spiPort'[u]) \subseteq pins'
      BY <2>1, <2>3, <3>2 DEF OwnInv
    <3> QED BY <3>3, <3>4, <3>5 DEF OwnInv
  <2>4. CASE pins' = pins /\ \E step \in {"uncount", "release"} : spiPc' = [spiPc EXCEPT ![t] = step]
    BY <2>1, <2>4, OwnSame DEF CallsInv
  <2> QED BY <2>1, <2>3, <2>4
<1>7. ASSUME NEW t \in Threads, OpenDevice(t) PROVE OwnInv'
  <2>1. spiPc[t] = "open" /\ pins' = pins
    BY <1>7 DEF OpenDevice
  <2>2. spiPort[t] \in SPIPorts /\ Pins(spiPort[t]) \subseteq pins
    BY <2>1 DEF CallsInv, Opening, OwnInv
  <2>3. spiPc'[t] # "open" /\ \A u \in Threads \ {t} : spiPort'[u] = spiPort[u] /\ spiPc'[u] = spiPc[u]
    BY <1>7 DEF OpenDevice, GiveBack, CallsInv
  <2>4. \/ handle' = handle \cup {spiPort[t]}
        \/ handle' = handle /\ spiPort' = spiPort /\ spiPc'[t] \in {"uncount", "release"}
    BY <1>7 DEF OpenDevice, GiveBack, CallsInv
  <2>5. ASSUME NEW p \in SPIPorts, Pins(p) \cap pins' # {}
        PROVE  p \in handle' \/ \E u \in Threads :
                 spiPort'[u] = p /\ spiPc'[u] \in {"open", "uncount", "free", "release"}
    <3>1. p \in handle \/ \E u \in Threads :
            spiPort[u] = p /\ spiPc[u] \in {"open", "uncount", "free", "release"}
      BY <2>1, <2>5 DEF OwnInv
    <3>2. CASE p = spiPort[t]
      BY <2>4, <3>2
    <3>3. CASE p # spiPort[t]
      BY <2>3, <2>4, <3>1, <3>3
    <3> QED BY <3>2, <3>3
  <2> QED BY <2>1, <2>2, <2>3, <2>4, <2>5 DEF OwnInv
<1>8. ASSUME NEW t \in Threads, FreeCommon(t) PROVE OwnInv'
  <2>1. /\ spiPc[t] = "free" /\ pins' = pins \ Common /\ UNCHANGED <<handle, spiPort>>
        /\ spiPc' = [spiPc EXCEPT ![t] = "release"]
    BY <1>8 DEF FreeCommon
  <2>2. \A p \in SPIPorts : Pins(p) \cap pins' = Pins(p) \cap pins
    BY <2>1, PortFacts
  <2>3. \A p \in SPIPorts, u \in Threads :
          spiPort[u] = p /\ spiPc[u] \in {"open", "uncount", "free", "release"} =>
            spiPort'[u] = p /\ spiPc'[u] \in {"open", "uncount", "free", "release"}
    BY <2>1
  <2>4. \A u \in Threads : spiPc'[u] = "open" => spiPc[u] = "open" /\ spiPort[u] \in SPIPorts
    BY <2>1 DEF CallsInv, Opening
  <2>5. /\ \A p \in handle' : Pins(p) \subseteq pins'
        /\ \A u \in Threads : spiPc'[u] = "open" => Pins(spiPort'[u]) \subseteq pins'
    BY <2>1, <2>2, <2>4 DEF OwnInv, CallsInv
  <2> QED BY <2>1, <2>2, <2>3, <2>5 DEF OwnInv
<1>9. ASSUME NEW t \in Threads, Release(t) PROVE OwnInv'
  <2>1. /\ spiPc[t] = "release" /\ pins' = pins \ Pins(spiPort[t]) /\ handle' = handle
        /\ spiPc' = [spiPc EXCEPT ![t] = "idle"]
        /\ spiPort' = [spiPort EXCEPT ![t] = kSpiMaxHandles]
    BY <1>9 DEF Release
  <2>2. spiPort[t] \in SPIPorts /\ spiPort[t] \notin handle
    BY <2>1 DEF CallsInv, Opening
  <2>3. \A p \in SPIPorts : p # spiPort[t] => Pins(p) \cap pins' = Pins(p) \cap pins
    BY <2>1, <2>2, PortFacts
  <2>4. \A u \in Threads : spiPc'[u] = "open" =>
          u # t /\ spiPc[u] = "open" /\ spiPort'[u] = spiPort[u] /\ spiPort[u] \in SPIPorts /\ spiPort[u] # spiPort[t]
    BY <2>1 DEF CallsInv, Opening
  <2>5. /\ \A p \in handle' : Pins(p) \subseteq pins'
        /\ \A u \in Threads : spiPc'[u] = "open" => Pins(spiPort'[u]) \subseteq pins'
    BY <2>1, <2>2, <2>3, <2>4 DEF OwnInv, CallsInv
  <2>6. ASSUME NEW p \in SPIPorts, Pins(p) \cap pins' # {}
        PROVE  p \in handle' \/ \E u \in Threads :
                 spiPort'[u] = p /\ spiPc'[u] \in {"open", "uncount", "free", "release"}
    <3>1. p # spiPort[t]
      BY <2>1, <2>6
    <3>2. p \in handle \/ \E u \in Threads :
            spiPort[u] = p /\ spiPc[u] \in {"open", "uncount", "free", "release"}
      BY <2>3, <2>6, <3>1 DEF OwnInv
    <3> QED BY <2>1, <3>1, <3>2 DEF CallsInv
  <2> QED BY <2>1, <2>5, <2>6 DEF OwnInv
<1>10. ASSUME NEW t \in Threads, CloseDevice(t) PROVE OwnInv'
  <2>1. /\ spiPc[t] = "stop" /\ UNCHANGED <<pins, spiPort>> /\ handle' = handle \ {spiPort[t]}
        /\ \E step \in {"uncount", "release"} : spiPc' = [spiPc EXCEPT ![t] = step]
    BY <1>10 DEF CloseDevice, GiveBack
  <2>2. ASSUME NEW p \in SPIPorts, Pins(p) \cap pins' # {}
        PROVE  p \in handle' \/ \E u \in Threads :
                 spiPort'[u] = p /\ spiPc'[u] \in {"open", "uncount", "free", "release"}
    <3>1. p \in handle \/ \E u \in Threads :
            spiPort[u] = p /\ spiPc[u] \in {"open", "uncount", "free", "release"}
      BY <2>1, <2>2 DEF OwnInv
    <3> QED BY <2>1, <3>1 DEF CallsInv
  <2> QED BY <2>1, <2>2 DEF OwnInv, CallsInv
<1> QED BY <1>1, <1>2, <1>3, <1>4, <1>5, <1>6, <1>7, <1>8, <1>9, <1>10
        DEF SPINext, HAL_TransactionSPI, HAL_WriteSPI, HAL_ReadSPI

\* For any number of threads: whatever opened, failed to open its device or to take its
\* own pins, and closed, the pins taken are those of the open ports, and the shared ones
\* with a port on board.
THEOREM PinsAreOfOpenPorts == SPISpec => []PinsOfOpenPorts
<1>1. SPIInit => PinsInv
  BY CallsStart, CountStart, OwnStart DEF PinsInv, NoStray, SPIInit
<1>2. PinsInv /\ [SPINext]_spiVars => PinsInv'
  <2> SUFFICES ASSUME PinsInv, [SPINext]_spiVars PROVE PinsInv'
    OBVIOUS
  <2>1. CallsInv'
    BY CallsStep DEF PinsInv
  <2>2. miscounted' = {} => miscounted = {}
    BY DEF SPINext, spiVars, InitializeSPI, CloseSPI, UseEngine, HAL_TransactionSPI, HAL_WriteSPI,
           HAL_ReadSPI, StartTransfer, CountPort, CommonPins, OwnPins, OpenDevice, Uncount,
           FreeCommon, Release, CloseDevice, Ask, SPITransfer
  <2> QED BY <2>1, <2>2, StrayStep, CountStep, OwnStep DEF PinsInv
<1>3. PinsInv => PinsOfOpenPorts
  <2> SUFFICES ASSUME PinsInv, miscounted = {}, \A t \in Threads : spiPc[t] \in {"idle", "ask", "transfer"}
               PROVE  pins = (UNION {Pins(p) : p \in handle})
                        \cup (IF \E p \in handle : Onboard(p) THEN Common ELSE {})
    BY DEF PinsOfOpenPorts, Quiet
  <2>1. At("common") = {} /\ At("free") = {}
    BY DEF At
  <2>2. Counted = {p \in handle : Onboard(p)}
    BY DEF Counted, PinsInv, CallsInv
  <2>3. IF \E p \in handle : Onboard(p) THEN Common \subseteq pins ELSE Common \cap pins = {}
    BY <2>1, <2>2 DEF PinsInv, CountInv
  <2>4. \A p \in SPIPorts : Pins(p) \cap pins # {} => p \in handle
    BY DEF PinsInv, OwnInv
  <2>5. pins \subseteq Common \cup UNION {Pins(p) : p \in handle}
    BY <2>4 DEF PinsInv, OwnInv
  <2>6. UNION {Pins(p) : p \in handle} \subseteq pins
    BY DEF PinsInv, OwnInv
  <2> DEFINE Own == UNION {Pins(p) : p \in handle}
  <2>7. Own \subseteq pins /\ pins \subseteq Common \cup Own
    BY <2>5, <2>6
  <2>8. Common \cap Own = {}
    BY PortFacts DEF PinsInv, CallsInv
  <2> DEFINE Shared == IF \E p \in handle : Onboard(p) THEN Common ELSE {}
  <2>9. \/ Shared = Common /\ Common \subseteq pins
        \/ Shared = {} /\ Common \cap pins = {}
    BY <2>3
  <2> HIDE DEF Own, Shared
  <2>10. pins = Own \cup Shared
    BY <2>7, <2>9
  <2> QED BY <2>10 DEF Own, Shared
<1> QED BY <1>1, <1>2, <1>3, PTL DEF SPISpec
=============================================================================
