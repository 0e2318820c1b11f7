-------------------------------- MODULE SPI --------------------------------
(***************************************************************************)
(* cpphalbackup/SPI.cpp: ports that share two pins, counted by an atomic   *)
(* that nothing locks, and one automatic engine for all of them, which     *)
(* other transfers on the same device ask about before they begin.         *)
(***************************************************************************)
EXTENDS ThreadConstants, Integers, FiniteSets

CONSTANTS
  SPIPorts,   \* four chip selects on board, and MXP
  MinCount    \* bound: the count from which no port is closed that is not open

ASSUME SPIAssumption == SPIPorts \subseteq 0 .. 4 /\ MinCount \in Int

kSpiMaxHandles == 5
Onboard(p) == p < 4

\* The DIO channels of a port's own, and those of every port on board: MISO and MOSI.
Pins(p) == CASE p = 0 -> {} [] p \in 1 .. 3 -> {25 + p} [] p = 4 -> 14 .. 17
Common == {29, 30}

VARIABLES
  handle,        \* the ports whose handle is set
  spiPortCount,
  pins,          \* the DIO channels allocated
  auto,          \* the engine: the port it was made for, and whether it runs
  spiPc, spiPort,
  miscounted     \* ghost: what has spoilt the count, "failed" or "stray"

spiVars == <<handle, spiPortCount, pins, auto, spiPc, spiPort, miscounted>>

Engine(p, running) == [port |-> p, running |-> running]

SPIInit ==
  /\ handle = {} /\ spiPortCount = 0 /\ pins = {} /\ miscounted = {}
  /\ auto = Engine(kSpiMaxHandles, FALSE)
  /\ spiPc = [t \in Threads |-> "idle"] /\ spiPort = [t \in Threads |-> kSpiMaxHandles]

SPIGoto(t, step) == spiPc' = [spiPc EXCEPT ![t] = step]
SPIReturn(t) == SPIGoto(t, "idle") /\ spiPort' = [spiPort EXCEPT ![t] = kSpiMaxHandles]

\* A call for port p; only one thread at a time opens or closes a port.
SPIBegin(t, p, step) ==
  /\ spiPc[t] = "idle" /\ SPIGoto(t, step)
  /\ step \in {"count", "pins", "stop"} =>
       \A u \in Threads : spiPort[u] = p => spiPc[u] \in {"ask", "transfer"}
  /\ spiPort' = [spiPort EXCEPT ![t] = p]

\* HAL_InitializeSPI: a port that is open is left as it is.
InitializeSPI(t, p) ==
  /\ p \notin handle
  /\ SPIBegin(t, p, IF Onboard(p) THEN "count" ELSE "pins")
  /\ UNCHANGED <<handle, spiPortCount, pins, auto, miscounted>>

\* CommonSPIPortInit: the first one allocates, the others do not wait for it.  When it
\* fails nobody counts down.
CountPort(t) ==
  /\ spiPc[t] = "count"
  /\ spiPortCount' = spiPortCount + 1
  /\ SPIGoto(t, IF spiPortCount = 0 THEN "common" ELSE "pins")
  /\ UNCHANGED <<handle, pins, auto, spiPort, miscounted>>

CommonPins(t) ==
  /\ spiPc[t] = "common"
  /\ \/ pins \cap Common = {} /\ pins' = pins \cup Common
        /\ SPIGoto(t, "pins") /\ UNCHANGED <<spiPort, miscounted>>
     \/ miscounted' = miscounted \cup {"failed"} /\ SPIReturn(t) /\ UNCHANGED pins
  /\ UNCHANGED <<handle, spiPortCount, auto>>

\* Mutated form: the count and the shared pins are forgotten.
GiveBackOwn(t) == SPIGoto(t, "release") /\ UNCHANGED spiPort

\* The call gives back what it has: CommonSPIPortFree, and then the port's own pins.
GiveBack(t) == SPIGoto(t, IF Onboard(spiPort[t]) THEN "uncount" ELSE "release") /\ UNCHANGED spiPort

\* The port's own pins, any of which may be in use as a digital port.
OwnPins(t) ==
  LET p == spiPort[t]
  IN  /\ spiPc[t] = "pins"
      /\ \/ pins' = pins \cup Pins(p) /\ SPIGoto(t, "open") /\ UNCHANGED spiPort
         \/ Pins(p) # {} /\ GiveBack(t) /\ UNCHANGED pins
      /\ UNCHANGED <<handle, spiPortCount, auto, miscounted>>

\* open(), and HAL_SetSPIHandle; a failure sets no status.
OpenDevice(t) ==
  /\ spiPc[t] = "open"
  /\ \/ handle' = handle \cup {spiPort[t]} /\ SPIReturn(t)
     \/ GiveBack(t) /\ UNCHANGED handle
  /\ UNCHANGED <<spiPortCount, pins, auto, miscounted>>

\* CommonSPIPortFree: count down, then free.
Uncount(t) ==
  /\ spiPc[t] = "uncount"
  /\ spiPortCount' = spiPortCount - 1
  /\ SPIGoto(t, IF spiPortCount = 1 THEN "free" ELSE "release")
  /\ UNCHANGED <<handle, pins, auto, spiPort, miscounted>>

FreeCommon(t) ==
  /\ spiPc[t] = "free" /\ SPIGoto(t, "release")
  /\ pins' = pins \ Common
  /\ UNCHANGED <<handle, spiPortCount, auto, spiPort, miscounted>>

Release(t) ==
  /\ spiPc[t] = "release" /\ SPIReturn(t)
  /\ pins' = pins \ Pins(spiPort[t])
  /\ UNCHANGED <<handle, spiPortCount, auto, miscounted>>

Conflicts(p, q) == p # kSpiMaxHandles /\ (Onboard(p) <=> Onboard(q))

\* HAL_CloseSPI: HAL_FreeSPIAuto, and then the file, the handle and the pins.  Nothing
\* asks whether the port is open.
CloseSPI(t, p) ==
  /\ SPIBegin(t, p, "stop")
  /\ auto' = IF auto.port = p THEN Engine(kSpiMaxHandles, FALSE) ELSE auto
  /\ IF p \in handle \/ ~Onboard(p)
     THEN UNCHANGED miscounted
     ELSE spiPortCount > MinCount /\ miscounted' = miscounted \cup {"stray"}
  /\ UNCHANGED <<handle, spiPortCount, pins>>

CloseDevice(t) ==
  /\ spiPc[t] = "stop" /\ GiveBack(t)
  /\ handle' = handle \ {spiPort[t]}
  /\ UNCHANGED <<spiPortCount, pins, auto, miscounted>>

\* The engine's calls, each under spiAutoMutex; all but the first want its port.
InitSPIAuto(p) == auto.port = kSpiMaxHandles /\ auto' = [auto EXCEPT !.port = p]
FreeSPIAuto(p) == auto.port = p /\ auto' = Engine(kSpiMaxHandles, FALSE)
StartSPIAuto(p) == auto.port = p /\ auto' = Engine(p, TRUE)
StopSPIAuto(p) == auto.port = p /\ auto' = Engine(p, FALSE)

UseEngine(p) ==
  /\ InitSPIAuto(p) \/ FreeSPIAuto(p) \/ StartSPIAuto(p) \/ StopSPIAuto(p)
  /\ UNCHANGED <<handle, spiPortCount, pins, spiPc, spiPort, miscounted>>

\* A transfer asks SPIInUseByAuto: the flag first, the port under the lock after it;
\* then it locks the port.
StartTransfer(t, p) ==
  /\ SPIBegin(t, p, IF auto.running THEN "ask" ELSE "transfer")
  /\ UNCHANGED <<handle, spiPortCount, pins, auto, miscounted>>

Ask(t) ==
  /\ spiPc[t] = "ask"
  /\ IF Conflicts(auto.port, spiPort[t]) THEN SPIReturn(t)
     ELSE SPIGoto(t, "transfer") /\ UNCHANGED spiPort
  /\ UNCHANGED <<handle, spiPortCount, pins, auto, miscounted>>

SPITransfer(t) ==
  /\ spiPc[t] = "transfer" /\ SPIReturn(t)
  /\ UNCHANGED <<handle, spiPortCount, pins, auto, miscounted>>

HAL_TransactionSPI(t, p) == StartTransfer(t, p)
HAL_WriteSPI(t, p) == StartTransfer(t, p)
HAL_ReadSPI(t, p) == StartTransfer(t, p)

SPINext ==
  \/ \E p \in SPIPorts : UseEngine(p)
  \/ \E t \in Threads :
    \/ \E p \in SPIPorts : \/ InitializeSPI(t, p) \/ CloseSPI(t, p)
                        \/ HAL_TransactionSPI(t, p) \/ HAL_WriteSPI(t, p) \/ HAL_ReadSPI(t, p)
    \/ CountPort(t) \/ CommonPins(t) \/ OwnPins(t) \/ OpenDevice(t) \/ Uncount(t)
    \/ FreeCommon(t) \/ Release(t) \/ CloseDevice(t) \/ Ask(t) \/ SPITransfer(t)

-----------------------------------------------------------------------------
Quiet == \A t \in Threads : spiPc[t] \in {"idle", "ask", "transfer"}

\* Whatever opens, fails to open its device or to take its own pins, and closes at once:
\* when all is quiet the pins taken are those of the open ports, and the shared ones if
\* one of them is on board.  Excepted is the time after CommonSPIPortInit failed, and
\* after a port on board was closed that was not open: both spoil the count.
PinsOfOpenPorts ==
  miscounted = {} /\ Quiet
    => pins = (UNION {Pins(p) : p \in handle})
               \cup (IF \E p \in handle : Onboard(p) THEN Common ELSE {})

\* The "SPI engine conflicts with any other chip selects on the same SPI device" (line
\* 54): no transfer is made on a device while the engine runs on it.
ClearOfEngine ==
  \A t \in Threads : spiPc[t] = "transfer" => ~(auto.running /\ Conflicts(auto.port, spiPort[t]))
=============================================================================
