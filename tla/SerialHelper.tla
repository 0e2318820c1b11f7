---------------------------- MODULE SerialHelper ----------------------------
(***************************************************************************)
(* cpp/cpp/SerialHelper.cpp: which of the plugged USB devices is USB port  *)
(* 0 or 1.  A device is the hub path it hangs on.  The comparison given to *)
(* std::sort answers true both ways, so the order it leaves is any order.  *)
(***************************************************************************)
EXTENDS Naturals, Sequences, SequencesExt

CONSTANTS Devices, NoDevice

USBPorts == {0, 1}

VARIABLES
  plugged,
  usbNames,   \* m_usbNames: the hub path a port was assigned, NoDevice while it is ""
  answered    \* ghost: the device whose name the last query of a port returned

usbVars == <<plugged, usbNames, answered>>

USBInit ==
  /\ plugged = {}
  /\ usbNames = [p \in USBPorts |-> NoDevice] /\ answered = [p \in USBPorts |-> NoDevice]

\* QueryHubPaths finds them afresh in every helper.
Plug(d) == plugged' = (plugged \ {d}) \cup ({d} \ plugged) /\ UNCHANGED <<usbNames, answered>>

\* Mutated form: used paths are not removed.
AllPaths(sorted) == sorted

\* "Remove all used ports": one find and one erase for each port.
Unused(sorted) == RemoveFirst(RemoveFirst(sorted, usbNames[0]), usbNames[1])

\* The ports that have no path, in order, take the unused paths in order.
Rank(p) == 1 + Cardinality({q \in USBPorts : q < p /\ usbNames[q] = NoDevice})

\* GetIndexForPort, under m_nameMutex.  The paths in use are erased from the vector in
\* which the port's own path is looked up, but not from the names it then indexes.
Searched(p, sorted) == IF usbNames[p] = NoDevice THEN Unused(sorted) ELSE sorted
PathOf(p, sorted) ==
  IF usbNames[p] # NoDevice THEN usbNames[p]
  ELSE IF Rank(p) <= Len(Unused(sorted)) THEN Unused(sorted)[Rank(p)] ELSE NoDevice

Named(p, sorted) ==
  LET found == {i \in DOMAIN Searched(p, sorted) : Searched(p, sorted)[i] = PathOf(p, sorted)}
  IN  IF found = {} THEN NoDevice ELSE sorted[Min(found)]

\* GetOSSerialPortName and GetVISASerialPortName.
GetOSSerialPortName(p) ==
  \E sorted \in SetToSeqs(plugged) :
    /\ usbNames' = [usbNames EXCEPT ![p] = PathOf(p, sorted)]
    /\ answered' = [answered EXCEPT ![p] = Named(p, sorted)]
    /\ UNCHANGED plugged

USBNext == (\E d \in Devices : Plug(d)) \/ (\E p \in USBPorts : GetOSSerialPortName(p))

-----------------------------------------------------------------------------
\* A port that was assigned a path keeps it, the two ports never have the same one, and
\* a port asked for again is answered the device on its path or none.
NamesAreKept ==
  [][\A p \in USBPorts :
       /\ usbNames[p] # NoDevice => usbNames'[p] = usbNames[p]
       /\ usbNames'[p] # NoDevice => usbNames'[1 - p] # usbNames'[p]
       /\ answered'[p] # answered[p] /\ usbNames[p] # NoDevice
            => answered'[p] \in {usbNames[p], NoDevice}]_usbVars

\* "Remove all used ports": the port that is assigned a path is answered a device that
\* is not the other port's.
DistinctDevices ==
  [][\A p \in USBPorts :
       usbNames'[p] # usbNames[p] => answered'[p] # usbNames[1 - p]]_usbVars
=============================================================================
