------------------------------ MODULE MCOutside ------------------------------
(***************************************************************************)
(* What a robot program shares with the world outside its process, for     *)
(* TLC: the CAN bus and the devices on it, the vendor's library and the    *)
(* file with its process id.  The parts share no state, so a behaviour     *)
(* runs one of them, chosen at the start, and the states add up instead of *)
(* multiplying.                                                            *)
(***************************************************************************)
EXTENDS CANAPI, Pneumatics, PDP, NiFpga, ProgramLock, TLC

CONSTANT Components

VARIABLE component

allVars == <<component, vars, airVars, pdpVars, niVars, lockVars>>

\* What the other parts may start with is fixed in a behaviour that does not run them.
MCInit ==
  /\ component \in Components
  /\ Init /\ AirInit /\ PDPInit /\ NiInit /\ LockInit
  /\ component = "CAN" \/ (~runThreads /\ workload = CHOOSE w \in Workloads : TRUE)
  /\ component = "air" \/ airWorkload = CHOOSE w \in SolenoidWorkloads : TRUE
  /\ component = "library" \/ installed = Functions

\* Writes of two identifiers of one handle, or reads of one identifier.
Writes == {"once", "repeat", "stop"} \X Ids
Reads == {"new", "latest", "timeout"} \X {1}
CANWorkloads == {Writes, Reads}

MCNext ==
  /\ UNCHANGED component
  /\ \/ /\ component = "CAN" /\ Next
        /\ workload = Writes => arrived' = arrived /\ clock' = clock   \* writers see neither
        /\ workload = Reads => \A f \in ToSet(queue') : f.id = 1      \* nobody reads others
        /\ UNCHANGED <<airVars, pdpVars, niVars, lockVars>>
     \/ /\ component = "air" /\ AirNext
        /\ UNCHANGED <<vars, pdpVars, niVars, lockVars>>
     \/ /\ component = "panel" /\ PDPNext
        /\ UNCHANGED <<vars, airVars, niVars, lockVars>>
     \/ /\ component = "library" /\ NiNext
        /\ UNCHANGED <<vars, airVars, pdpVars, lockVars>>
     \/ /\ component = "programs" /\ LockNext
        /\ UNCHANGED <<vars, airVars, pdpVars, niVars>>

MCSpec == MCInit /\ [][MCNext]_allVars

Symmetry == Permutations(Threads)

\* The driver's clock is the one the code assumes, or counts twice as fast.
TwoStamps(time) == {time, 2 * time}
OneHandle(id) == CHOOSE h \in Handles : TRUE
BothStarts == BOOLEAN
AirWorkloads == {{"bits", "loop"}, {"shots"}, {"durations"}}
ThreePids == 2 .. 4

\* Two byte values in turn.
TwoBytes == {[i \in 0 .. 7 |-> IF i % 2 = 0 THEN a ELSE b] : a, b \in {0, 1, 77, 170, 255}}
=============================================================================
