------------------------------- MODULE Relay -------------------------------
(***************************************************************************)
(* cpp/Relay.cpp: threads open, switch and close relays.  All relays of a  *)
(* direction are bits of one register that is read, changed and written    *)
(* back.  A thread starts a call only with the handle of an open relay;    *)
(* the relay may be closed, and its handle given out again, meanwhile.     *)
(***************************************************************************)
EXTENDS MutexConstants, Integers

CONSTANTS
  Channels,    \* what relays are opened with
  Bits         \* the bits of a register in use

ASSUME RelayAssumption == Channels \subseteq Bits /\ Bits \subseteq Nat

kNumRelayChannels == 8
kNumRelayHeaders == kNumRelayChannels \div 2

Directions == {"forward", "reverse"}
Relays == [direction : Directions, channel : Bits]
NoRelay == [direction |-> "reverse", channel |-> -1]

VARIABLES
  relays,      \* relayHandles: index -> relay, or NoRelay
  registers,   \* the bits that are set
  digitalRelayMutex,
  relayPc, relayPort,
  on,          \* the argument of HAL_SetRelay
  seen,        \* its local copy of the register
  switched     \* ghost: the relays whose last completed switch was on

relayLocals == <<relayPc, relayPort, on, seen>>
relayVars == <<relays, registers, digitalRelayMutex, relayLocals, switched>>

RelayIndexes == 0 .. kNumRelayChannels - 1

RelayTypeOK ==
  /\ relays \in [RelayIndexes -> Relays \cup {NoRelay}]
  /\ registers \in [Directions -> SUBSET Bits]
  /\ digitalRelayMutex \in Threads \cup {NoThread}
  /\ relayPc \in [Threads -> {"idle", "lock", "write"}]
  /\ relayPort \in [Threads -> Relays \cup {NoRelay}]
  /\ on \in [Threads -> BOOLEAN]
  /\ seen \in [Threads -> SUBSET Bits]
  /\ switched \subseteq Relays

\* initializeDigital has set all relays to off.
RelayInit ==
  /\ relays = [i \in RelayIndexes |-> NoRelay]
  /\ registers = [d \in Directions |-> {}]
  /\ digitalRelayMutex = NoThread
  /\ relayPc = [t \in Threads |-> "idle"]
  /\ relayPort = [t \in Threads |-> NoRelay]
  /\ on = [t \in Threads |-> FALSE]
  /\ seen = [t \in Threads |-> {}]
  /\ switched = {}

\* "add 4 to reverse channels"
IndexOf(direction, channel) ==
  IF direction = "reverse" THEN channel + kNumRelayHeaders ELSE channel

\* Allocate fails on an index that is out of range or in use.
CanAllocate(i) == i \in RelayIndexes /\ relays[i] = NoRelay

InitializeRelayPort(direction, channel) ==
  LET i == IndexOf(direction, channel) IN
    /\ CanAllocate(i)
    /\ relays' = [relays EXCEPT ![i] = [direction |-> direction, channel |-> channel]]
    /\ UNCHANGED <<registers, digitalRelayMutex, relayLocals, switched>>

FreeRelayPort(i) ==
  /\ relays[i] # NoRelay
  /\ relays' = [relays EXCEPT ![i] = NoRelay]
  /\ UNCHANGED <<registers, digitalRelayMutex, relayLocals, switched>>

SetRelay(t, i, value) ==
  /\ relayPc[t] = "idle" /\ relayPc' = [relayPc EXCEPT ![t] = "lock"]
  /\ relays[i] # NoRelay
  /\ relayPort' = [relayPort EXCEPT ![t] = relays[i]]
  /\ on' = [on EXCEPT ![t] = value]
  /\ UNCHANGED <<relays, registers, digitalRelayMutex, seen, switched>>

\* Mutated form: no mutex.
Unprotected == TRUE

Unlocked == digitalRelayMutex = NoThread

ReadRegister(t) ==
  /\ relayPc[t] = "lock" /\ relayPc' = [relayPc EXCEPT ![t] = "write"]
  /\ Unlocked
  /\ digitalRelayMutex' = t
  /\ seen' = [seen EXCEPT ![t] = registers[relayPort[t].direction]]
  /\ UNCHANGED <<relays, registers, relayPort, on, switched>>

\* relays |= 1 << port->channel, relays &= ~(1 << port->channel)
Changed(t) ==
  IF on[t] THEN seen[t] \cup {relayPort[t].channel} ELSE seen[t] \ {relayPort[t].channel}

WriteRegister(t) ==
  /\ relayPc[t] = "write" /\ relayPc' = [relayPc EXCEPT ![t] = "idle"]
  /\ registers' = [registers EXCEPT ![relayPort[t].direction] = Changed(t)]
  /\ digitalRelayMutex' = NoThread
  /\ switched' = IF on[t] THEN switched \cup {relayPort[t]} ELSE switched \ {relayPort[t]}
  /\ relayPort' = [relayPort EXCEPT ![t] = NoRelay]
  /\ on' = [on EXCEPT ![t] = FALSE]
  /\ seen' = [seen EXCEPT ![t] = {}]
  /\ UNCHANGED relays

RelayNext ==
  \/ \E d \in Directions, c \in Channels : InitializeRelayPort(d, c)
  \/ \E i \in RelayIndexes : FreeRelayPort(i)
  \/ \E t \in Threads :
       \/ \E i \in RelayIndexes, value \in BOOLEAN : SetRelay(t, i, value)
       \/ ReadRegister(t) \/ WriteRegister(t)

RelaySpec == RelayInit /\ [][RelayNext]_relayVars

-----------------------------------------------------------------------------
\* Threads switch relays of one register at once: every relay is as it was switched
\* last, and none is switched by switching another one, or by opening and closing.
AsSwitched ==
  \A r \in Relays : r.channel \in registers[r.direction] <=> r \in switched

=============================================================================
