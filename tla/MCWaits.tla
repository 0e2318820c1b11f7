------------------------------- MODULE MCWaits ------------------------------
(***************************************************************************)
(* What callers are told in the end, for TLC: the initialization of the    *)
(* HAL, the waits for the driver station, with its error messages, and the *)
(* polls of a CTRE node.  They share no state, so a behaviour runs one of  *)
(* them, chosen at the start, and the states add up.                       *)
(***************************************************************************)
EXTENDS HALInit, DriverStation, CtreCanNode

CONSTANT Components

VARIABLE component

allVars == <<component, vars, dsVars, errorVars, nodeVars>>

MCInit ==
  /\ component \in Components
  /\ Init /\ DSInit /\ ErrorInit /\ NodeInit

MCNext ==
  /\ UNCHANGED component
  /\ \/ component = "HAL" /\ Next /\ UNCHANGED <<dsVars, errorVars, nodeVars>>
     \/ component = "waits" /\ DSNext /\ UNCHANGED <<vars, errorVars, nodeVars>>
     \/ component = "messages" /\ ErrorNext /\ UNCHANGED <<vars, dsVars, nodeVars>>
     \/ component = "node" /\ NodeNext /\ UNCHANGED <<vars, dsVars, errorVars>>

\* The fairness of the component that was chosen.
MCFairness ==
  /\ \A t \in Threads : SF_vars(component = "HAL" /\ ~terminated /\ Continue(t))
  /\ \A r \in Readers : WF_dsVars(component = "waits" /\ ContinueWait(r))
  /\ WF_nodeVars(component = "node" /\ Advance)
  /\ WF_dsVars(component = "waits" /\ (Packet \/ ReleaseDSMutex))

MCSpec == MCInit /\ [][MCNext]_allVars /\ MCFairness
=============================================================================
