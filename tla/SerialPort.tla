----------------------------- MODULE SerialPort -----------------------------
(***************************************************************************)
(* cpp/SerialPort.cpp: a handle per port, and the file behind it.  The     *)
(* calls take the object from the table and use its file number after:     *)
(* the operating system gives a number that was closed to the next file,   *)
(* and a handle that was given back is the handle of the port's next one.  *)
(***************************************************************************)
EXTENDS ThreadConstants, Naturals

CONSTANTS
  SerialPorts, Files,
  MaxOpens     \* bound on the files opened

ASSUME SerialAssumption == Files \subseteq Nat \ {0} /\ MaxOpens \in Nat

VARIABLES
  object,      \* per port: its object in the handle table, 0 if none
  opens,       \* objects made so far
  portId,      \* the file number of an object, 0 until it is opened
  file,        \* per file number: the object it was opened for, 0 if closed
  serialPc, arg,
  raced        \* ghost: a port was closed while another call opened, used or closed it

serialVars == <<object, opens, portId, file, serialPc, arg, raced>>

SerialObjects == 1 .. MaxOpens
Call(p, o, fd) == [port |-> p, object |-> o, fd |-> fd]
NoCall == Call(0, 0, 0)

SerialInit ==
  /\ object = [p \in SerialPorts |-> 0] /\ opens = 0
  /\ portId = [o \in SerialObjects |-> 0] /\ file = [f \in Files |-> 0]
  /\ serialPc = [t \in Threads |-> "idle"] /\ arg = [t \in Threads |-> NoCall]
  /\ raced = FALSE

SerialGoto(t, step) == serialPc' = [serialPc EXCEPT ![t] = step]
SerialReturn(t) == SerialGoto(t, "idle") /\ arg' = [arg EXCEPT ![t] = NoCall]
Users(o) == {u \in Threads : arg[u].object = o}

\* HAL_InitializeSerialPortDirect: the handle, ...
AllocateSerial(t, p) ==
  /\ serialPc[t] = "idle" /\ object[p] = 0 /\ opens < MaxOpens
  /\ opens' = opens + 1 /\ object' = [object EXCEPT ![p] = opens + 1]
  /\ SerialGoto(t, "open") /\ arg' = [arg EXCEPT ![t] = Call(p, opens + 1, 0)]
  /\ UNCHANGED <<portId, file, raced>>

\* A handle that is freed empties its port's place, whatever object is there by now.
FreeSerial(p) == object' = [object EXCEPT ![p] = 0]

\* ... the file, without which the handle is given back, ...
OpenSerial(t) ==
  LET o == arg[t].object
  IN  /\ serialPc[t] = "open"
      /\ \/ \E f \in Files :
              /\ file[f] = 0 /\ \A g \in Files : file[g] = 0 => f <= g
              /\ portId' = [portId EXCEPT ![o] = f]
              /\ file' = [file EXCEPT ![f] = o]
              /\ SerialGoto(t, "setup") /\ arg' = [arg EXCEPT ![t].fd = f] /\ UNCHANGED object
         \/ FreeSerial(arg[t].port) /\ SerialReturn(t) /\ UNCHANGED <<portId, file>>
      /\ UNCHANGED <<opens, raced>>

\* Mutated forms: the handle or the file is forgotten.
KeepsHandle(t) ==
  /\ serialPc[t] = "setup" /\ SerialReturn(t)
  /\ UNCHANGED file \/ file' = [file EXCEPT ![arg[t].fd] = 0]
  /\ UNCHANGED <<object, opens, portId, raced>>

KeepsFile(t) ==
  /\ serialPc[t] = "setup" /\ SerialReturn(t)
  /\ UNCHANGED object \/ FreeSerial(arg[t].port)
  /\ UNCHANGED <<opens, portId, file, raced>>

\* ... and raw mode, without which the file is closed and the handle given back.
Setup(t) ==
  /\ serialPc[t] = "setup" /\ SerialReturn(t)
  /\ \/ UNCHANGED <<object, file>>
     \/ file' = [file EXCEPT ![arg[t].fd] = 0] /\ FreeSerial(arg[t].port)
  /\ UNCHANGED <<opens, portId, raced>>

\* A call gets the object: a closed handle may be that of a port opened again, and one
\* that finds nothing returns, but from HAL_CloseSerial.
SerialGet(t, p, step) ==
  LET o == object[p]
  IN  /\ serialPc[t] = "idle"
      /\ o # 0 \/ step = "free"
      /\ SerialGoto(t, step)
      /\ arg' = [arg EXCEPT ![t] = Call(p, o, IF o = 0 THEN 0 ELSE portId[o])]
      /\ raced' = (raced \/ \E u \in Users(o) : o # 0 /\ (step = "free" \/ serialPc[u] # "transfer"))
      /\ UNCHANGED <<object, opens, portId, file>>

\* HAL_CloseSerial frees the handle, then closes the file if it got one.
FreeHandle(t) ==
  LET p == arg[t].port
  IN  /\ serialPc[t] = "free"
      /\ FreeSerial(p)
      /\ raced' = (raced \/ object[p] # arg[t].object)
      /\ IF arg[t].object = 0 THEN SerialReturn(t) ELSE SerialGoto(t, "close") /\ UNCHANGED arg
      /\ UNCHANGED <<opens, portId, file>>

CloseSerial(t) ==
  /\ serialPc[t] = "close" /\ SerialReturn(t)
  /\ file' = [file EXCEPT ![arg[t].fd] = 0]
  /\ UNCHANGED <<object, opens, portId, raced>>

\* The read and the write loop: a byte or some bytes at a time, until the count, the
\* terminator, an error or the timeout.
TransferSerial(t) ==
  /\ serialPc[t] = "transfer"
  /\ SerialReturn(t) \/ UNCHANGED <<serialPc, arg>>
  /\ UNCHANGED <<object, opens, portId, file, raced>>

\* The calls that use the file; those that set, flush or count do so once.
HAL_ReadSerial(t, p) == SerialGet(t, p, "transfer")
HAL_WriteSerial(t, p) == SerialGet(t, p, "transfer")
HAL_FlushSerial(t, p) == SerialGet(t, p, "transfer")
HAL_SetSerialBaudRate(t, p) == SerialGet(t, p, "transfer")
HAL_SetSerialDataBits(t, p) == SerialGet(t, p, "transfer")
HAL_SetSerialParity(t, p) == SerialGet(t, p, "transfer")
HAL_SetSerialStopBits(t, p) == SerialGet(t, p, "transfer")
HAL_SetSerialFlowControl(t, p) == SerialGet(t, p, "transfer")
HAL_SetSerialTimeout(t, p) == SerialGet(t, p, "transfer")
UseSerial(t, p) ==
  \/ HAL_ReadSerial(t, p) \/ HAL_WriteSerial(t, p) \/ HAL_FlushSerial(t, p)
  \/ HAL_SetSerialBaudRate(t, p) \/ HAL_SetSerialDataBits(t, p) \/ HAL_SetSerialParity(t, p)
  \/ HAL_SetSerialStopBits(t, p) \/ HAL_SetSerialFlowControl(t, p) \/ HAL_SetSerialTimeout(t, p)

HAL_CloseSerial(t, p) == SerialGet(t, p, "free")

SerialCall(t) ==
  \/ \E p \in SerialPorts : AllocateSerial(t, p) \/ UseSerial(t, p) \/ HAL_CloseSerial(t, p)
  \/ OpenSerial(t) \/ Setup(t) \/ FreeHandle(t) \/ CloseSerial(t) \/ TransferSerial(t)

SerialNext == \E t \in Threads : SerialCall(t)

-----------------------------------------------------------------------------
\* Unless a port was closed while another call opened, used or closed it, no call reads,
\* writes, sets or closes the file of another port, though file numbers are reused.
OwnFile ==
  \A t \in Threads : ~raced /\ serialPc[t] \in {"transfer", "close"}
                       => file[arg[t].fd] = arg[t].object

\* Nor is a file left open once its handle is gone, on every error path of opening.
NoFileLeaked ==
  \A f \in Files : ~raced /\ file[f] # 0 =>
     \/ \E p \in SerialPorts : object[p] = file[f]
     \/ \E t \in Threads : arg[t].object = file[f] /\ arg[t].fd = f
=============================================================================
