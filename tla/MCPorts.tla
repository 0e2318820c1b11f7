------------------------------ MODULE MCPorts ------------------------------
(***************************************************************************)
(* What ports are given and give back, for TLC: the digital channels, the  *)
(* values of a PWM port, relays, SPI ports and their pins, serial ports    *)
(* and their files, and the names of USB serial ports.  They share no      *)
(* state, so a behaviour runs one of them, chosen at the start, and the    *)
(* states add up.                                                          *)
(***************************************************************************)
EXTENDS DigitalPorts, PWM, Relay, SPI, SerialPort, SerialHelper, TLC

CONSTANT Components

VARIABLE component

allVars == <<component, vars, pwmVars, relayVars, spiVars, serialVars, usbVars>>

MCInit ==
  /\ component \in Components
  /\ Init /\ PWMInit /\ RelayInit /\ SPIInit /\ SerialInit /\ USBInit

\* A PWM port is configured with times, and set to any speed or position of the instance;
\* or with raw limits, and set to the speeds at the ends of the range and in its middle.
SetByTimes == PWMNext /\ ~SetPWMConfigRaw
SetByRaws == PWMNext /\ ~SetPWMConfig /\ ~call'.position /\ call'.arg \in {-Unit, 0, Unit}

MCNext ==
  /\ UNCHANGED component
  /\ \/ /\ component = "digital" /\ Next
        /\ UNCHANGED <<pwmVars, relayVars, spiVars, serialVars, usbVars>>
     \/ /\ component = "PWM" /\ SetByTimes
        /\ UNCHANGED <<vars, relayVars, spiVars, serialVars, usbVars>>
     \/ /\ component = "rawPWM" /\ SetByRaws
        /\ UNCHANGED <<vars, relayVars, spiVars, serialVars, usbVars>>
     \/ /\ component = "relay" /\ RelayNext
        /\ UNCHANGED <<vars, pwmVars, spiVars, serialVars, usbVars>>
     \/ /\ component = "SPI" /\ SPINext
        /\ UNCHANGED <<vars, pwmVars, relayVars, serialVars, usbVars>>
     \/ /\ component = "serial" /\ SerialNext
        /\ UNCHANGED <<vars, pwmVars, relayVars, spiVars, usbVars>>
     \/ component = "serial" /\ opens = MaxOpens /\ UNCHANGED allVars   \* at the bound
     \/ /\ component = "USB" /\ USBNext
        /\ UNCHANGED <<vars, pwmVars, relayVars, spiVars, serialVars>>

MCSpec == MCInit /\ [][MCNext]_allVars

Symmetry == Permutations(Threads)

HeaderSPIAndPWM == {0, 26, 31}
HeaderAndMXP == {0, 16}
TwoHeaders == {0, 1}
MinusOne == -1

Config(max, deadbandMax, center, deadbandMin, min) ==
  [maxPwm |-> max, deadbandMaxPwm |-> deadbandMax, centerPwm |-> center,
   deadbandMinPwm |-> deadbandMin, minPwm |-> min]

\* A narrow servo range.
Narrow == {Config(1510, 1501, 1500, 1499, 1490)}

\* Limits out of order that reach below zero.
Crossed == {Config(1499, 999, 1600, 998, -3)}

\* What doubles make of 1.501.
OneOff == {1501}
=============================================================================
