# A TLA+ model of the OpenSourceRoboRIO HAL

OpenSourceRoboRIO is a port of WPILib's hardware abstraction layer (HAL): a C
API, implemented in C++, through which a robot program on a roboRIO uses the
FPGA, the serial ports and the CAN bus. This directory holds TLA+ modules that
model the parts of it in which several threads, several programs or the hardware
meet, TLC configurations that check them on small instances, and proofs for
every size of the instances.

Paths and line numbers in this file are relative to `src/main/native/`.

## 1. The system and its components

A robot program has many threads, all of which may call the HAL. The HAL has
threads of its own (one for notifiers, two for CAN), tables of *handles* that
stand for opened devices, and one FPGA session. The FPGA runs beside it: its
clock counts, its alarm fires, edges assert interrupts, counters count, whatever
the program does. Other programs, the previous robot program first of all, share
the machine; other devices share the CAN bus.

| Component | State it keeps | Operations | Talks to | Module |
|---|---|---|---|---|
| Notifiers (`cpp/Notifier.cpp`) | `notifierMutex`, `closestTrigger`, the reference count, the thread; of each notifier two times, a flag, a mutex and a condition variable | initialize, stop, clean, update, cancel, wait; `alarmCallback` on its thread; an `atexit` handler | the FPGA's one alarm, all API threads | `Notifier` |
| FPGA time (`cpp/HAL.cpp`) | none; the FPGA's two 32-bit registers | `HAL_GetFPGATime`, `HAL_ExpandFPGATime` | everybody who asks for the time | `FPGAClock` |
| HAL initialization (`cpp/HAL.cpp`, `cpp/HALInitializer.h`) | `initialized`, `HAL_IsInitialized`, a mutex, the tables, the FPGA session | `HAL_Initialize`, `CheckInit` at the head of many calls | every component's `Initialize*` | `HALInit` |
| Program lock (`killExistingProgram` in `cpp/HAL.cpp`) | `/var/lock/frc.pid` | read, signal, truncate, write | other programs, the kernel's process ids | `ProgramLock` |
| NiFpga (`fpga/NiFpga.c`) | the library's handle, one pointer per function | load, look up, unload, call through a pointer | `libNiFpga.so`, every FPGA access | `NiFpga` |
| Digital ports (`cpp/DigitalInternal.*`, `cpp/DIO.cpp`, `cpp/PWM.cpp`) | `digitalChannelHandles`, the one-time initialization | initialize, use and free a DIO or PWM port; numbering of channels | the FPGA's outputs, interrupts and counters (routing) | `DigitalPorts` |
| PWM scaling (`cpp/PWM.cpp`) | five limits and a flag of a port | configure, set and get speed and position | the FPGA's PWM values | `PWM` |
| Interrupts (`cpp/Interrupts.cpp`) | `interruptHandles`, the FPGA's configuration clusters | initialize, clean, request, choose edges, wait | the FPGA's IRQs | `Interrupts` |
| Counters (`cpp/Counter.cpp`) | a counter's configuration in the FPGA | allocate, choose mode, sources and edges, reset, read | routing of digital ports | `Counter` |
| Relays (`cpp/Relay.cpp`) | `relayHandles`, two registers, a mutex | initialize, free, set, get | the FPGA's relay registers | `Relay` |
| CAN driver (`cpp/CAN.cpp`) | received messages, two threads, `runThreads` | send, receive, exit handler | the CAN session, the CAN API | `CAN` |
| CAN API (`cpp/CANAPI.cpp`) | per device: periodic sends, last received messages | write, repeat, stop, read new / latest / timeout, clean | the CAN driver | `CANAPI` |
| Serial ports (`cpp/SerialPort.cpp`) | handles, a file per port | open, set, read, write, close | the operating system's files | `SerialPort` |
| Serial port names (`cpp/cpp/SerialHelper.cpp`) | the resource lists, two assigned names | find, sort, assign | VISA, `/sys` | `SerialHelper` |
| SPI (`cpphalbackup/SPI.cpp`) | handles, pins, a count, the automatic engine | open, transfer, close, automatic transfers | DIO pins, files, the FPGA's engine | `SPI` |
| DMA (`cpphalbackup/DMA.cpp`) | a handle's enabled sources and layout | add a source, start, stop, read, decode | the FPGA's DMA | `DMA` |
| Driver station (`cpphalbackup/FRCDriverStation.cpp`) | a counter of packets with its condition variable, the last error messages | wait, release, send an error | the vendor's library | `DriverStation` |
| Pneumatics (`cpphalbackup/Solenoid.cpp`, `Compressor.cpp`, `ctre/PCM.cpp`) | one control frame per module | solenoids, pulses, closed loop | the CTRE node | `Pneumatics` |
| CTRE node (`cpphalbackup/ctre/CtreCanNode.cpp`) | received frames with their times | poll, transmit | the CAN session | `CtreCanNode` |
| PDP (`cpphalbackup/PDP.cpp`) | one CAN handle per module | initialize, clean, decode currents | the CAN API | `PDP` |
| Main loop (`cppshared/Main.cpp`) | the registered main, a flag, a condition variable | set, run, exit | the program's main thread | - |
| Analog and accelerometer (`cpp/Analog*.cpp`, `cpp/Accelerometer.cpp`) | handles, a sample rate | initialize, read, convert | the FPGA | - |
| Handles (`cppshared/handles/`) | none of their own | pack an index and a type | all of the above | - |

`cpphalbackup/` and `cppbackup/` are not in the build: they hold files of
WPILib's HAL that wait to be ported, and superseded copies. Those with a state
machine of their own are modelled, for the day they are ported. The condition
variables, mutexes and handle templates are in headers outside the repository
and are modelled from how `cpp/` uses them, as are the FPGA, the CAN session,
`libNiFpga.so` and the operating system.

What is hard in these components, and what makes them correct:

* **Notifiers.** One hardware alarm serves all notifiers. An update sets a
  notifier's time under the notifier's lock, then moves the alarm under another
  lock, and between them anything may run. The register has 32 bits, the times
  have 64. `notify_all` comes after the unlock. `exit()` runs a destructor while
  other threads still call. *Correct*: no alarm is lost, no wake-up is lost, an
  alarm fires only while it is set and due, and it fires in the end.
* **FPGA time.** The halves of the clock move between the reads. *Correct*: the
  result is a time of the call; a hardware timestamp is expanded exactly.
* **Initialization.** Unlocked first check, locked second check, and a failure
  after half of the work. *Correct*: whoever is told true can go on; what cannot
  be done twice is not; every call returns.
* **Program lock.** Programs crash at any step and leave the file; ids are used
  again. *Correct*: the previous program is dead before the next one runs; no
  program kills itself.
* **NiFpga.** A lookup may fail in the middle; other threads call meanwhile.
  *Correct*: nobody is inside a library that is not loaded; success means that
  every required function works.
* **Digital ports.** The handle of a freed port equals that of the next one on
  the channel; freeing waits for the use count, but not for ever. *Correct*:
  after a free nobody uses the port; the first initialization turns nothing off
  that is on; two channels are never one in the FPGA.
* **PWM.** The limits are written and read without a lock, and nothing checks raw
  ones. *Correct*: an output stays within what was configured, what was set is read
  back, and full speed is not refused.
* **Interrupts, counters.** Edges arrive between waiting and acknowledging, or
  between two steps of a configuration that is read, changed and written back;
  the next owner of a counter gets the last one's settings and count. *Correct*:
  an edge of one IRQ is not lost with that of another, changing one part keeps the other, and a count is of the
  sources the counter has.
* **Relays.** All relays share two registers. *Correct*: no switch undoes another.
* **CAN.** A packet is sent before its id is recorded, the driver may refuse it, a
  message is taken before it is stored, and times are differences of 32-bit numbers
  of two clocks. *Correct*: after a clean nothing is repeated that the driver let it
  stop; a frame is new once; a read without a new frame is judged on the newest one.
* **Devices on the bus.** Every caller edits bit-fields of one control frame in place
  while others send it; a poll is stored later than made, with a clock that may be
  set back; handles are shared and given again. *Correct*: what calls leave in memory
  is sent; silence is noticed; a module's handle is its own.
* **Serial and SPI ports.** Opening fails at any of several steps, numbers of
  closed files are given again, pins are shared by a count nobody locks, handles are
  used and closed when they are stale. *Correct*: nothing stays open or taken, no
  call uses another port's file, and no transfer meets the automatic engine.
* **Waiting for packets.** The notification comes without the mutex. *Correct*:
  waits end; a message is repeated only if it was forgotten or is old.

## 2. Modules and how they correspond to the code

A step of a model is what no other thread can see the inside of: a critical
section that takes one lock, a register access, a call that keeps no state. `pc`
(`serialPc`, `spiPc`, ...) gives each thread's next step; actions have the names
of the functions or sections they model. Variables have the names of the code's
variables; those marked *ghost* record history for the properties and no guard
reads them. An operator commented "Mutated form" stands before the definition
that it is a wrong version of; nothing uses it. It shows which bug a property
catches.

`ThreadConstants` declares the threads, and `MutexConstants` who holds a mutex,
for the components that are checked in one run.

### Time and start

**Notifier** models `cpp/Notifier.cpp` whole, line by line in control. The
objects that `make_shared` returns are `Notifiers`, each used once: `fresh`,
`claimed` by the call that creates it, `live` while its handle is, then `freed`;
a thread that got the pointer before may go on with a freed one. `nt` is the
notifier thread: it waits for the interrupt, locks, visits every handle in any
order (`ForEach`, the table's order is not a promise), with the unlocked read of
`triggerTime` (line 88) and the locked one (line 91) as two steps, then arms the
alarm again with two writes. `HAL_UpdateNotifierAlarm` is two sections, and the
second writes two registers under `notifierMutex`. The FPGA is `clock`, `alarm`
and `irq`: the alarm fires when the low bits of the clock have reached it, and
disables itself. `Wrap` is the width of the alarm register; `HardwareTime` is the
truncation of line 102. `exit()` is the destructors' three steps, and
`std::terminate` is `terminated`.

**AlarmService** is the promise behind it, without threads, locks or registers:
each open notifier has a deadline and a report; a deadline fires once, only while
set, with a time after it; a stopped one reports 0. `Notifier` implements it:
`triggerTime` is the deadline, `triggeredTime` the report, all else is hidden.

**FPGAClock** models lines 259 to 300 of `cpp/HAL.cpp`. A 64-bit time is a pair
of halves of `Half` values. Every register read is a step and may fail
(`ReadsFail`). A call's steps are less than one wrap of the lower half (71
minutes) apart: `Tick` assumes it, as the code does.

**HALInit** models `HAL_Initialize` and `CheckInit`. The thirty `Initialize*`
functions are the step that sets the tables, with the one exception that counts:
`InitializeCAN` assigns two `std::thread`s, which is fatal when they are joinable.

**ProgramLock** models `killExistingProgram`. `Programs` are all programs ever
started; each gets an unused id of `Pids`, may die at any step, and writes its id
when it runs. `Foreign` programs cannot be signalled, `Overlap` allows two to
start at once.

**NiFpga** models `fpga/NiFpga.c`. `NiFpga_functions` is the table of the source,
functions that are declared together being one entry; `NiFpga_Initialize` looks
them up one step at a time (`Resolve`), `NiFpga_Finalize` sets them back
(`NullOut`), and any thread may call through a pointer that is not null. Which
functions an `installed` library lacks is a choice of the initial state.

### Inputs and outputs

**DigitalPorts** models `initializeDigital`, and allocation, use and freeing in
`cpp/DIO.cpp` and `cpp/PWM.cpp`, whose ports share one table (PWM index = channel
+ 31). A port is an object, told apart from the earlier and later ones on its
index; `port[t]` is the `shared_ptr` a thread holds and `UseCount` its
`use_count`. The channel numberings of `cpp/DigitalInternal.*` are operators.

**PWM** models one port's limits and the calls that use them, lines 29 to 394 of
`cpp/PWM.cpp`. A port starts with the default configuration, whose center and upper
end of the deadband are one value after truncation. `HAL_SetPWMConfig` converts times
to steps: `Times` are its arguments in microseconds, and `Short` holds those whose
steps floating point puts just below an integer (1.501 ms is one). `Raws` are the
arguments of `HAL_SetPWMConfigRaw`, any integers. `Valid` says which configurations leave
speeds on both sides; it is a condition in the properties that need it, not an
assumption. `pending` is what a configuring call has still to write, `call` and
`got` what a scaling call reads and has read, in any order. Speeds are fractions
of `Unit`, so that the arithmetic is exact; truncation and rounding are the code's.

**Interrupts** models `cpp/Interrupts.cpp`: threads configure (read, change, write
as two steps) and wait (reserve, ignore, wait, acknowledge as steps), while edges
assert IRQs. An edge may come at any time; one whose IRQ is asserted already is the
same assertion, and `late` records that it came when that IRQ was about to be
acknowledged. What a call reads from an array nobody filled is any value.

**Counter** models the configuration register of `cpp/Counter.cpp`: every call
reads it, edits it and writes it, and a call that chooses a source resets the
count as a third step, while edges count. A read that fails leaves what was on the
stack (`Rubbish`). `from` collects the sources of what was counted.

**Relay** models `cpp/Relay.cpp`: a switch is a read and a write of a register
under `digitalRelayMutex`. Opening a relay is one step: the fields of the object that
`HAL_InitializeRelayPort` fills are read by nobody who has not got the handle from it.

**DMA** models `cpphalbackup/DMA.cpp`: `HAL_StartDMA` lays out the enabled sources
in the order the FPGA sends them (`accum_size`, the sum that `SET_SIZE` keeps), a sample carries a copy of that layout
(`capture`), and the getters find their words with it (`ReadDMAValue`). The
sample's words carry the name of the source they are of.

**SPI** models `cpphalbackup/SPI.cpp`: opening takes the port's pins and, for the
ports on board, two shared ones counted by an atomic; `HAL_InitSPIAuto` asks
whether the engine is free. A transfer looks at the engine's flag, then at its port
under the lock, and then locks its own port: three steps. `HAL_CloseSPI` does not ask
whether the port is open, and neither does `CloseSPI`; the count may go below zero.
Only one thread at a time opens or closes a port, as in `SPIBegin`.

**SerialPort** models `cpp/SerialPort.cpp`. An *object* is what the handle table
points to; `object[p]` is that of a port, and a call keeps the object and then the
file number it took. `file` says whose each open file number is; a closed number
is given again. Calls may come with the handle of an object that has gone: freeing it
empties the port's index, whatever object is there by then. Terminal settings are not
modelled: their setters are calls that use the file.

**SerialHelper** models the search, sorting and assignment of USB devices. The
comparison of the sort is not an order, so any order comes out; `Unused` is the two
erases of the loop that follows.

### The world outside

**CAN** models `cpp/CAN.cpp`: the vendor's session with its queue, the thread that
keeps the last frame under every key, the exit handler. `runThreads` starts as
FALSE in the source and nothing changes it, so reception ends at once;
`StartThreads` also holds TRUE, so that the loop is checked as written. The driver may
refuse any frame it is to send (`Accepted`), whatever the session. It stamps frames in
a unit nothing states: `Stamps` gives the stamps a frame may have.

**CANAPI** models `cpp/CANAPI.cpp` on top of it (it EXTENDS `CAN`). A write is
*send* then *record*, a read *take* then *store or answer*; `HAL_CleanCAN` takes
the handle away and stops everything it knows in a second step. `requested` is the
period last sent per identifier, `newest` the data frame last answered as new. A stop
that the driver refuses in `HAL_CleanCAN`, which nobody notices, is `unstopped`.

**CtreCanNode** and **Pneumatics** model `ctre/CtreCanNode.cpp`: the first its
receiving half with a clock that may be set back, the second the one control frame
that solenoids and the compressor edit without a lock: a call reads the bit-field's unit
(`ReadUnit`) and writes it back in another step (`WriteUnit`), with the neighbouring
fields as they were read or without them (`Written`), and `FlushTx` is a third.

**PDP** models the handles of `cpphalbackup/PDP.cpp`, and the unpacking of a status
frame, whatever is in it (`PDPFrames`), as operators over bits (`Raw`).

**DriverStation** models the waits of `FRCDriverStation.cpp`, with the look at the
counter and the wait as two steps, and the memory of `HAL_SendError`.

### Composition

`MC*` modules give the constants their values. `MCInputs`, `MCPorts`, `MCOutside`
and `MCWaits` hold several components each. These share threads but no state, so a
behaviour chooses one `component` at the start and runs that one: their states add
up instead of multiplying, and nothing is lost, for no step of one depends on
another. Components that do interact are one specification: `CANAPI` over `CAN`,
the notifiers over their hardware, pneumatics over the node's transmit half.

`*Proofs` modules hold the theorems: `WaitsProofs` those of `HALInit` and
`DriverStation`; `InputsProofs` those of `Interrupts`, `FPGAClock`, `Counter` and
`DMA`; `PortsProofs` those of `Relay` and `SPI`; `SerialPortProofs` those of
`SerialPort` and `SerialHelper`; `OutsideProofs` those of what `MCOutside` checks.
`NotifierProofs` holds the refinement too.

## 3. What the runs show

| Run | Instance | Shows |
|---|---|---|
| `notifier` | 2 threads, 2 notifiers, clock 0..1, alarm register of 1 value, `exit()` allowed | `TypeOK`, `NoLostAlarm`, `NoLostWakeup`, `ImplementsAlarmService` |
| `notifier_live` | 2 threads, 1 notifier, register wider than the clock, fair | `ImplementsFairAlarmService`, `SleeperWakes` |
| `notifier_recreate` | 1 thread, 2 notifiers | *violated*: `CreatedOnlyIfNotCreated` |
| `waits` | 3 threads that initialize with 2 failures; 2 readers and a counter of 4 values; 4 messages and room for 2; 3 callers of a CTRE node, 2 frames, a limit of 2, a clock set back twice by up to 4; fair | `TrueMeansFinished`, `TerminatedOnlyByRetry`, `CallReturns`; `WaitEnds`; `RepeatsOnlyForgotten`; `SilenceIsTold` |
| `waits_release` | 2 readers, packets that end | *violated*: `ReleaseEndsWaits` |
| `inputs` | 2 threads; 1 interrupt with 2 IRQs and 4 contexts; halves of 3 values to 2; 1 counter; 12 DMA sources in 3 selections | `NoEdgeLost`, `SourceSurvives`; `TimeIsOfTheCall`, `ExpandIsExact`; `CountsItsSources`; `DecodesOwnWords` |
| `interrupts_edges` | 1 thread, 1 interrupt | *violated*: `EdgesSurviveRequest` |
| `ports` | 2 threads; header 0, SPI channel 26, PWM channel 0; a PWM port with speeds and positions in halves under its default configuration and a narrow one, and with the ends of the range under one out of order; 2 relays; SPI ports 0, 1 and 4; 2 serial ports, 2 file numbers, 3 openings; 3 USB devices | `FreedIsUnused`, `OutputsStayOn`; `ReadBack`, `StableNeverFails`, `WithinConfigured`; `AsSwitched`; `PinsOfOpenPorts`; `OwnFile`, `NoFileLeaked`; `NamesAreKept` |
| `ports_bits` | 1 thread, header 0 and MXP channel 16 | *violated*: `DistinctBits` |
| `ports_usb` | 3 USB devices | *violated*: `DistinctDevices` |
| `ports_engine` | 2 threads, SPI ports 0 and 1 | *violated*: `ClearOfEngine` |
| `outside` | 2 threads; 2 CAN identifiers to write and 1 to read, 2 frames, a queue of 1, two kinds of stamps, ages that wrap at 3; 2 solenoids; 2 panels; every library that lacks at most one function; 4 programs with 3 ids | `NewOnce`, `StoppedAfterClean`, `VerdictOfNewest`; `SentIsCurrent`; `HandleOfModule`, `ChannelsArePacked`; `CallsAreLoaded`, `SuccessMeansWorking`; `KillsPrevious`, `NeverKillsItself` |

Each property is stated in words above its definition. Some leave out the calls
that the code does not protect from each other, and say so; the ghosts that record
these are `shared` (two threads wait for or configure one interrupt), `late` (an edge
repeats the one that is about to be acknowledged; a CAN handle was cleaned while a
write for it was under way), `disturbed` (two calls for one counter overlapped, or a
read or write of it failed), `lost` (a failed read whose status the next one
overwrote), `crossed` (two reads of one CAN handle overlapped), `unstopped` (the driver
refused to stop an identifier), `overlapped` (calls of two threads on one DMA handle; a
PDP handle made while one was removed), `raced` (a serial port was closed under a call,
or used or closed with a stale handle), `miscounted` (a failed `CommonSPIPortInit` kept its
count, or a port was closed that was not open),
`refused` (the session refused the control frame) and `cut` (the lookups in a library
stopped). What happens in those cases is in the models all the same.

### Bounds, and why they are enough

* *Threads.* Every lock here is held by one thread, and every race is between two
  steps; two threads give every order of them. Initialization has three, so that
  one may wait for the lock while another fails and the third retries.
* *Notifiers.* Two: one that is updated, and one whose alarm may be the closer,
  equal or later one. The notifier thread is there besides.
* *Clock.* `MaxTime = 1` gives a time that has passed, the present one, a later
  one and "never", which is all that the code's comparisons tell apart. With
  `Wrap = 1` the alarm register cannot tell any two times apart, the extreme of
  what 32 of 64 bits cannot tell: the alarm fires early, and the callback re-arms.
  The proofs cover every width.
* *Halves.* Three values and two wraps: a carry before, between and after the
  reads, and a timestamp just before a wrap.
* *Programs.* Four, with three ids: a running one, one that crashes while it
  starts, one that gets a used id, and the one that must find what is left.
* *Channels.* One of each group at a border; all 31 are covered by the proof of
  `DistinctSources`.
* *Contexts, failures.* Enough to use some up, and to meet the limit.
* *PWM.* Scales of odd and even width, so that a half is exact and is not; raw limits
  out of order and below zero. All orders of five writes and five reads. Pulses of
  whole microseconds and at least half a millisecond, and raw limits whose differences
  fit an `int32_t`.
* *CAN.* Keys do not interact but in `HAL_CleanCAN`, so writers have two identifiers,
  one of which the driver may refuse, and readers one with a data and a remote key; two
  frames of one key for a queue of one, so that a frame is overwritten and one is
  lost; ages 0 to 3 with a width of 3, so that an age is below, at and above the
  limit and one is past what the timestamps tell. Threads either write or read in
  one behaviour (`CANWorkloads`): the two share no variable but the handle. Where
  they write, frames do not arrive and the clock stands, which writers never see.
* *Pneumatics.* Two solenoids share the byte of the outputs; the calls come in the
  groups of fields they edit (`AirWorkloads`).
* *CTRE node.* Ages past the limit are not told apart; the clock goes back by less and
  by more than the limit.
* *PDP.* Two modules, three handles: one of each and one that is given again. The
  bytes have patterns in which every bit is told from its neighbours.
* *Counter, DMA.* One counter; registers of different counters do not meet. DMA
  selections (`DMAWorkloads`) hold every kind of source between them, the ones of
  several words at the border between their neighbours.
* *SPI, serial.* A port on board beside another, and the MXP one; a count that goes to
  one below zero (`MinCount`), where the next closing of a closed port is left out; fewer file
  numbers than openings, so that numbers are given again.
* *Messages.* Twice as many as are remembered, with a second of four ticks.

Symmetry is used where threads, programs or notifiers are interchangeable and no
liveness is checked. The `notifier` run has a `VIEW` that drops the fields of a
freed notifier that no call refers to, which no step reads again. Deadlock is
checked except where the system may stop: after `exit()` or its hanging join, after
`std::terminate` in `waits` and when its bounded clock has ended, when waits have
nothing to wait for (`waits_release`), and in `outside` when all programs are dead
or a bound is reached. In `ports` the bound on openings has a step of its own.

### Fairness

`notifier_live` assumes that the clock counts and the alarm fires when it can
(weak fairness of the FPGA's steps), and that a thread that can run again and
again does (strong fairness of each thread's `Continue` and of the notifier
thread). Strong fairness is needed for mutexes only: a thread that finds a mutex
free again and again gets it in the end, which the code's design takes for
granted. Nobody is made to start a call, and spurious wake-ups may happen but
need not. In `waits`, each thread inside a call of `HALInit` is strongly fair for
the same reason, on account of `initializeMutex`. A reader inside
`HAL_WaitForDSDataTimeout` is weakly fair: nothing holds its mutex for more than a
step. Packets are weakly fair: a driver station sends one every 20 ms, and `WaitEnds`
says what happens while they come; `waits_release` is the run in which they stop.
Of the CTRE node it is assumed that time passes, and nothing of the callers: `SilenceIsTold` is
about the calls there are.

The liveness run of the notifiers has an alarm register wider than the clock. With
a narrow one the bounded clock would stand still while the alarm fires early for
ever, which is a property of the bound and not of the code.

## 4. What is proved

The proofs are checked by TLAPS and hold for every value of the constants that
satisfies the modules' `ASSUME`s: any number of threads, notifiers, programs,
channels, counters, ports, devices and messages, any width of a register and any
configuration. Every invariant and every action property that a passing run checks is
a theorem.

| Theorem | States | Argument |
|---|---|---|
| `NotifierProofs!Typing` | `TypeOK` | with: a callback that visits something visits a notifier |
| `NotifierProofs!NoAlarmIsLost` | `NoLostAlarm` | below |
| `NotifierProofs!NoWakeupIsLost` | `NoLostWakeup` | below |
| `NotifierProofs!Refinement` | `ImplementsAlarmService` | each step is one of the service's or none, by the same invariant |
| `InputsProofs!ClockTyping` | types of the clock | with: a call past its first reads has an upper half to compare |
| `InputsProofs!ReadIsOfTheCall` | `TimeIsOfTheCall` | what a thread knows of the clock after each read |
| `InputsProofs!ExpansionIsExact` | `ExpandIsExact` | the same invariant, and less than one wrap since the stamp |
| `WaitsProofs!Typing`, `DigitalPortsProofs!Typing`, `InputsProofs!Typing`, `PortsProofs!RelayTyping` | types of `HALInit`, `DigitalPorts`, `Interrupts`, `Relay` | part of the invariants |
| `WaitsProofs!TrueIsFinished` | `TrueMeansFinished` | mutual exclusion, and what each step of the holder has done |
| `WaitsProofs!FirstAttemptIsSafe` | `TerminatedOnlyByRetry` | the same invariant |
| `WaitsProofs!RepeatsAreOfForgotten` | `RepeatsOnlyForgotten` | below |
| `DigitalPortsProofs!FreedPortsAreUnused` | `FreedIsUnused` | below |
| `DigitalPortsProofs!OutputsAreKept` | `OutputsStayOn` | before the flag is set there are no ports and no outputs |
| `DigitalPortsProofs!SourcesAreDistinct` | two channels are never one source | arithmetic |
| `PWMProofs!Typing` | types of `PWM` | part of the invariant |
| `PWMProofs!OutputsStayWithin` | `WithinConfigured` | below |
| `PWMProofs!StableCallsSucceed` | `StableNeverFails` | below |
| `PWMProofs!SetIsReadBack` | `ReadBack` | below |
| `InputsProofs!EdgesAreNotLost` | `NoEdgeLost` | below |
| `InputsProofs!SourcesSurvive` | `SourceSurvives` | a cluster about to be written has the requested source |
| `InputsProofs!CountsAreOfTheirSources` | `CountsItsSources` | below |
| `InputsProofs!SamplesAreDecoded` | `DecodesOwnWords`, but for the second accumulator | below |
| `PortsProofs!RelaysAreAsSwitched` | `AsSwitched` | what the holder of the mutex has read is still in the register |
| `PortsProofs!PinsAreOfOpenPorts` | `PinsOfOpenPorts` | below |
| `SerialPortProofs!FilesAreNotLeaked` | `NoFileLeaked` | below |
| `SerialPortProofs!CallsUseTheirFile` | `OwnFile` | below |
| `SerialPortProofs!PortsKeepTheirNames` | `NamesAreKept` | below |
| `OutsideProofs!FramesAreNewOnce` | `NewOnce` | below |
| `OutsideProofs!CleanStops` | `StoppedAfterClean` | below |
| `OutsideProofs!VerdictsAreOfNewest` | `VerdictOfNewest` | below |
| `OutsideProofs!PointersAreLoaded` | `CallsAreLoaded` | below |
| `OutsideProofs!SuccessIsWorking` | `SuccessMeansWorking` | the same invariant |
| `OutsideProofs!LastFrameIsCurrent` | `SentIsCurrent` | a frame in memory that was not sent has a call on its way to send it |
| `OutsideProofs!ModulesHaveTheirHandles` | `HandleOfModule` | a kept number is that of a handle made for the module, or is being removed |
| `OutsideProofs!ChannelsAreTheirs` | `ChannelsArePacked` | below |
| `OutsideProofs!NobodyKillsItself` | `NeverKillsItself` | a target is never the program's own id |
| `OutsideProofs!PreviousIsKilled` | `KillsPrevious` | below |

*Notifiers.* `NoLostAlarm` speaks of quiet states only, so it is not inductive.
`IInv` says who holds which lock (`LockInv`), which notifier a section is about
(`ClaimInv`, `CallInv`, `VisitInv`), what `closestTrigger` promises of the
registers outside the sections (`HardwareInv`), and, of every live notifier that
expects an alarm, who takes care of it (`CoveredInv`): `closestTrigger` is no
later, or an update with its time has yet to take the second lock, or the callback
has yet to look at it. An update whose time has meanwhile been replaced by another
call takes care of nothing any more, and arms the alarm early at worst: the later
call has an update of its own.

*Program lock.* Assumed: `Cooperative`, that is, one start at a time and
programs that can be signalled. The invariant: a program that runs has its id in
the file until the next one has read it, and in that one's `target` until it has
killed it; so nobody runs when the file is truncated. It needs that ids of living
programs differ.

*Digital ports.* A freed object is neither in the table nor in anybody's hands
(`Gone`). Two facts carry it: a use count of one means that nobody else has the
object, and a new object is a new one, for there are more objects than threads
to hold them (the pigeonhole principle on finite sets, hence the assumption that
`Threads` is finite).

*PWM.* `IInv` has four parts. `ConfigInv`: every field, written or pending, is one of
some configuration. `CallInv`: what a call has read are integers, and the ends it
checks against are a minimum and a maximum of configurations, maybe two. `StableInv`: a
call that saw no change has read the configuration there is. `AskedInv`: what was asked
is still the port's value as computed, if the configuration is valid. None assumes
that any configuration is: `WithinConfigured` needs the second part only, for the last
check is against what was read, and clamping keeps an order; `StableNeverFails` needs
the third, and that scaling stays between the ends of a valid configuration (`TruncateIs`, `RoundStays`); `ReadBack` the fourth, and that the inverse of a
rounding is half a step off (`RoundIs`, `HalfStep`). The products are of a scale and
an argument: each is compared through its bounds, once per sign of the argument.

*Interrupts.* What a thread is about to acknowledge is still asserted, and has been
reported unless an edge repeated it meanwhile, between lines 157 and 167, which `late`
has: such an edge is lost, and nothing in the code can tell. Both theorems leave out interrupts that two calls of one kind have
used at once, which `shared` records.

*Counters.* `CounterInv` follows a counter that was never disturbed: one call is on
it at most, what was counted is of its sources unless that call has a reset to
come, and an edit that no reset follows brings no source.

*DMA.* `DMAInv`: unless two calls overlapped, while DMA runs nobody adds a source and
what is captured is what is enabled and what every sample in the FIFO has; so a
sample is taken apart with the channels it was taken with. Then it is arithmetic: `OffsetsAre`, an enabled channel begins behind the end of every
enabled one before it, so in `WordsAreFound` a word is in one channel only, and
`GettersAre` says that each getter looks in the channel its source was added to, at
words that channel has. `OffsetsAre` is about a recursive function: there is a
least channel that it fails for, and it does not fail for that one.

*Error messages.* `RepeatsOnlyForgotten` speaks of one message at the moment it is
sent; `ErrorInv` says what the slots mean all along: a slot in use has its message
and when that was last sent; no two have the same message or time, and the later of
two was sent since the earlier (`InOrder`); a message that was sent and is in no slot
had all those that are in one sent since it (`ForgottenForOthers`). The last is kept
because the slot given away is the oldest (`OldestIs`), and since the messages of the
slots differ they are as many as there are slots (`ForgottenForMany`, by a bijection).

*CAN: what is sent.* `SendInv`: a period on the bus is either recorded, so that
`HAL_CleanCAN` will try to stop it, or its write is between the two steps, which `late`
sees; what it tries in vain is `unstopped`. No write begins once the handle has gone.

*CAN: what is received.* `FrameInv`: a frame that waits, in the queue or unread, is
the only one with its number and has been given to nobody. It rests on what the
least element of a set of places is (`LeastOf`, by well-foundedness of the natural
numbers) and on what storing does to the sequence (`StoredIs`, `StoredApart`).
`ReadInv`: in a handle whose reads never overlapped one thread at most is between
taking and storing, and the store has the newest frame unless that thread is about
to put it there; frames are not of the future, so their ages are below the width
of the clock exactly when the difference of the numbers says so. That is of a frame
whose stamp is a reading of the HAL's clock, as it was when the frame came in; of
another (`CAN.cpp:140` narrows whatever the driver says) the verdict is about the
number it bears, and says nothing of its age.

*NiFpga.* `LibraryInv`: without a library no pointer is set and nobody is inside;
while looking up, every function that is past is there if it is required; a
library that is loaded and idle has all of them unless `cut`.

*SPI.* The shared pins are not inductive by themselves. As long as no port was closed
that is not counted and no failed opening was counted (`miscounted` is empty),
`CountInv` says that the count is the number of ports on board that are open or in a
call that opens or closes them (by finite cardinality) and says when the shared pins
are in transit. `OwnInv` holds always: a port's own pins are taken exactly while it is
open or a call is about to open it or to release them. What spoils the count is in
section 5.

*Serial ports.* `FilesInv` holds unless a handle was closed under a call (`raced`);
beside types it has four parts. `TableInv`: objects are made once, and a file is the one its
object has the number of. `CallsInv`: a call with an object finds it at its port, and is
alone with it when it opens or closes. `OpenInv`: an object in the table has its file
or a call is about to give it one. `KeptInv`: a file without a handle is about to be
closed, on every error path. So a number that is given again is in nobody's hands.
The exclusion is needed: `Free(handle)` empties the index whatever it holds by then.

*USB names.* The two ports never have the same path, and what is given to a port
is an element of `Unused`, which is no port's: an erase takes out the first
occurrence, and the paths in the list differ, so there is no other (`ErasedIs`). An
answer is the element of the list that was found by comparing it with the path.

*PDP.* Whatever its bytes, the frame is eight numbers below 256. The k-th channel
begins at bit `(10 * k) % 8` of byte `(10 * k) \div 8` (`FieldsAre`), which leaves four
ways to straddle two bytes; for each, the high bits times a power of two and the low
ones are the ten bits of the pair (`TenBits`).

Assumptions are the modules' `ASSUME`s and no others: names that stand for "no
thread" are not threads (`ThreadAssumption`, `ConstantsAssumption`,
`InitAssumption`), bounds and widths are natural numbers (`ClockAssumption`,
`CANAssumption`, `CANAPIAssumption`, `NodeAssumption`, `PDPAssumption`), file
numbers are not 0 (`SerialAssumption`), SPI ports are 0 to 4 (`SPIAssumption`), an
identifier's handle is a handle, "no frame" is no frame (`CANAPIAssumption`), what a
failed read leaves is some configuration (`CounterAssumption`), sources are ones that
calls take (`DMAAssumption`), bytes have eight bits (`PDPAssumption`), a message is
not the empty slot and there are a slot and a second (`ErrorAssumption`), pulses are
longer than half a millisecond and raw limits have 30 bits and a sign
(`PWMAssumption`), sets that a default
is chosen from are not empty (`InterruptsAssumption`), and the
others of this kind at the head of the modules. TLC evaluates each of them.

### Only model-checked

* Liveness (`SleeperWakes`, `CallReturns`, `WaitEnds`, `SilenceIsTold`,
  `ImplementsFairAlarmService`): the prover does not treat fairness. The safety half
  of the last is `Refinement`.
* `DecodesOwnWords` of the second accumulator is false, and neither checked nor proved
  (section 5).
* The violated properties, which are false.

## 5. Where the code differs from what it says

Six runs show a property violated that a comment or the program of the
repository relies on:

* `Notifier.cpp:135` says "create manager and alarm if not already created", but
  `notifierThreadCreated` is never set: after the last notifier is cleaned, the
  next one assigns to a joinable `std::thread`, and the process terminates
  (`notifier_recreate`).
* `DigitalInternal.h:106` compares with the number of MXP channels and not with
  the first channel after them: `HAL_GetDIO` on MXP channels 16 to 25 reads the
  headers' bits (`ports_bits`).
* `Interrupts.cpp:223`-`225` unpacks an array that nothing was read into:
  requesting a source replaces the edges chosen before, in the order in which
  `src/main/exe/c/main.c:48`-`52` calls (`interrupts_edges`).
* `SerialHelper.cpp:288` says "Remove all used ports", but erases them from one of
  two parallel lists and takes the name from the other: the second USB port is
  given the first one's device (`ports_usb`).
* `FRCDriverStation.cpp:451` releases waiting threads for a "proper shutdown", but
  notifies without their mutex: a thread between its look at the counter and its
  wait is not woken (`waits_release`).
* `SPI.cpp:54` says that the engine conflicts with other uses of the device;
  `HAL_TransactionSPI` asks about it on line 248 and transfers on line 257 under another
  lock, and the engine may start in between (`ports_engine`).

Others are in the models and can be read off the code, so no run is spent on them:

* `runThreads` in `cpp/CAN.cpp` is never set to true, so the receive thread ends at
  once (line 41) and no CAN frame is ever received.
* `HAL.cpp` never calls `InitializeCounter`: every counter call dereferences a null
  table today. `Counter` models the calls as they would be with one.
* `exit()` with no alarm set joins a thread that waits without a timeout
  (`Notifier.cpp:112`, in spite of "Force cleanup", line 110): `ExitJoin` blocks.
* Two programs that start at once may both run (`ProgramLock` with
  `Overlap = TRUE`); a program that cannot be signalled goes on running and the
  new one starts all the same (`Foreign`), although `HAL.cpp:384` expects false.
* IRQ contexts are reserved by every wait and never given back
  (`Interrupts.cpp:144`), though `fpga/NiFpga.h:1795` says they must be.
* A forward relay on a channel from 4 to 7 takes a reverse relay's index
  (`Relay.cpp:64`); `HAL_CheckRelayChannel` is not called.
* A second attempt to initialize after a failed one assigns the CAN threads
  again: `TerminatedOnlyByRetry` says that nothing else does.
* A failed read of a half of the clock is overwritten by the next read's status
  (`HAL.cpp:265`): the ghost `lost` marks such calls.
* Two writes of one CAN identifier may be recorded in another order than sent
  (`CANAPI.cpp:120`): a stop that is sent last may be recorded first.
* `SPI.cpp:74` takes a count of zero for "Have not been initialized yet", but line 73
  counts before anything is allocated, and a failure (lines 76, 82, 90) does not count
  down: the next port opens without MISO and MOSI.
* `SPI.cpp:43` says what `spiPortCount` counts; `HAL_CloseSPI` counts down on line 308
  without asking whether the port is open, and the opening of lines 118-123 fails
  without a status.
* `CtreCanNode.cpp:91` calls the frame it stores a "fresh update". It was polled before
  the lock was taken: of two callers the one with the older frame may store last.
* `CtreCanNode.cpp:113` says that "our last update was recent enough" of an age between
  two readings of a clock that can be set back.
* `PCM.cpp:129` speaks of the "identified solenoid", and line 205 of "2bits for this
  channel", but bits of the shared frame are read, changed and written without a lock: a
  call about another channel is undone.
* A second `HAL_CleanCAN` of one handle would lock the mutex of a null pointer
  (`CANAPI.cpp:93`-`96`).
* A getter of the second accumulator reads two of its words from the first one's
  channel (`DMA.cpp:960`). The module has it so; the selections of `DMAWorkloads` leave
  that accumulator out, for `DecodesOwnWords` is false of it.
* Beside the models: 16 bytes of automatic SPI data are allowed and counted in four
  bits (`SPI.cpp:592`); choosing XON/XOFF clears all other input flags instead of
  setting two (`SerialPort.cpp:340`); a sample size out of range is refused and set all
  the same (`Counter.cpp:453`).

Hazards that no property covers, beside those: serial settings that the driver refused
stay in the object, and are edited without a lock (`SerialPort.cpp:241`-`244`), while
nothing says what a setter owes after a failure; two first uses of one PCM module both
construct it (`PCMInternal.cpp:33`), after which the first uses a deleted object;
`HAL_IsInitialized` is true before
the session is open (`HAL.cpp:376`), and its relaxed load need not see the tables
(`HALInitializer.h:17`); a position scaled with a torn configuration has no range
check (`PWM.cpp:310`); a freed port's handle equals its successor's (`PWM.cpp:107`),
which is why `FreedIsUnused` speaks of objects; and statuses of register writes that
overwrite each other (`Notifier.cpp:225`).

## 6. Not modelled

* The main loop (`cppshared/Main.cpp`): one flag under a mutex with a condition
  variable that is waited for with a predicate.
* Analog inputs and outputs, the accelerometer: each call is one register access or
  a conversion of one value; their one-time initialization has the shape of
  `initializeDigital`.
* Of counters: the timer's register (average size, maximum period), pulse lengths
  and the getters. Of DMA: pausing, the rate and the trigger. Of SPI: speed, mode and
  what the engine transmits. Of serial ports: the terminal settings, the
  bytes and the terminator. Of the
  driver station: the calls that pass on what the vendor's library answers.
* Thread priorities, simulation stubs, constants and ports: system calls or no state.
* Parts of digital I/O that are commented out in the source (filters, pulses,
  digital PWM).
* `HAL_GetPWMCycleStartTime` and the period scale: one register access, or the
  read that `FPGAClock` models.
* Weak memory: all modules are sequentially consistent. `CheckInit`'s relaxed
  load is the place where that matters.
* Failing register writes in `Notifier`, whose statuses overwrite each other.
* The rest of the backup directories (I2C, accumulators, gyros, triggers, encoders,
  LEDs, power, and superseded copies), and the FPGA's program, which is binary.

## 7. Plan

Done, in order of importance: `Notifier` with `AlarmService` and the refinement,
`FPGAClock`, `HALInit`, `ProgramLock`, `DigitalPorts`, `PWM`, `Interrupts`, `Relay`;
`CAN` with `CANAPI`, `NiFpga`, `Counter`, `SerialPort`, `SerialHelper`, `SPI`, `DMA`,
`DriverStation`, `Pneumatics`, `CtreCanNode`, `PDP`; proofs of all the invariants and
action properties that the runs check.

Next:

1. A refinement of `HALInit` and of the waits of `DriverStation` by what they promise
   their callers, as `AlarmService` is one of the notifiers.
2. The accumulators, gyros and encoders, when they are ported into the build.
