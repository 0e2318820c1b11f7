------------------------------- MODULE CANAPI -------------------------------
(***************************************************************************)
(* The device calls of cpp/CANAPI.cpp on top of the CAN driver.  A write   *)
(* sends first and records the period under the handle's mapMutex after;  *)
(* a read takes the frame from the driver first and stores it after: other *)
(* threads come in between.  A handle is a device, its ids are its own.    *)
(***************************************************************************)
EXTENDS CAN, ThreadConstants

CONSTANTS
  Handles,
  IdOf(_),       \* the handle of an identifier (CreateCANId joins handle and apiId)
  Wrap,          \* 2^32 in the source
  Timeouts,      \* the timeouts callers pass
  Workloads,     \* sets of calls with their identifiers: a behaviour makes those of one of them
  NoFrame

ASSUME CANAPIAssumption ==
  /\ \A i \in Ids : IdOf(i) \in Handles
  /\ "data" \in Flags /\ NoFrame \notin Frames
  /\ Wrap \in Nat \ {0}

VARIABLES
  workload,
  handles,       \* "none", "live" or "clean" per handle
  periodicSends, \* per identifier: "absent", or the period last recorded
  receives,      \* the last frame stored under a key
  pc, arg,       \* the calls under way
  requested,     \* ghost: the period last sent to the bus per identifier
  taken,         \* ghost: how often each arrival was answered as new
  newest,        \* ghost: the last data frame answered as new, per identifier
  crossed,       \* ghost: the handles with two reads that overlapped
  late,          \* ghost: the handles cleaned while a write was under way
  unstopped      \* ghost: the identifiers whose stop the driver refused in HAL_CleanCAN

apiVars == <<workload, handles, periodicSends, receives, pc, arg,
             requested, taken, newest, crossed, late, unstopped>>
vars == <<canVars, apiVars>>

Idle == [op |-> "none", id |-> CHOOSE i \in Ids : TRUE, frame |-> NoFrame, limit |-> 0]

Init ==
  /\ CANInit
  /\ workload \in Workloads
  /\ handles = [h \in Handles |-> "none"]
  /\ periodicSends = [i \in Ids |-> "absent"]
  /\ receives = [k \in Ids \X Flags |-> NoFrame]
  /\ pc = [t \in Threads |-> "idle"] /\ arg = [t \in Threads |-> Idle]
  /\ requested = [i \in Ids |-> "once"]
  /\ taken = [n \in 1 .. MaxFrames |-> 0]
  /\ newest = [i \in Ids |-> NoFrame]
  /\ crossed = {} /\ late = {} /\ unstopped = {}

\* A call returns.
Done(t) == pc' = [pc EXCEPT ![t] = "idle"] /\ arg' = [arg EXCEPT ![t] = Idle]

In(t, h, steps) == pc[t] \in steps /\ IdOf(arg[t].id) = h

HAL_InitializeCAN(h) ==
  /\ handles[h] = "none" /\ session # "none"
  /\ handles' = [handles EXCEPT ![h] = "live"]
  /\ UNCHANGED <<canVars, workload, periodicSends, receives, pc, arg, requested, taken, newest, crossed, late, unstopped>>

\* The shared pointer taken from the table outlives HAL_CleanCAN.
BeginWrite(t, id, op) ==
  /\ pc[t] = "idle" /\ handles[IdOf(id)] = "live" /\ <<op, id>> \in workload
  /\ pc' = [pc EXCEPT ![t] = "send"]
  /\ arg' = [arg EXCEPT ![t] = [Idle EXCEPT !.op = op, !.id = id]]
  /\ UNCHANGED <<canVars, workload, handles, periodicSends, receives, requested, taken, newest, crossed, late, unstopped>>

\* A frame the driver refuses is not recorded.
Send(t) ==
  /\ pc[t] = "send"
  /\ \E sent \in Accepted({arg[t].id}) :
       IF sent = {}
       THEN Done(t) /\ UNCHANGED requested
       ELSE /\ requested' = [requested EXCEPT ![arg[t].id] = arg[t].op]
            /\ pc' = [pc EXCEPT ![t] = "record"] /\ UNCHANGED arg
  /\ UNCHANGED <<canVars, workload, handles, periodicSends, receives, taken, newest, crossed, late, unstopped>>

Record(t) ==
  /\ pc[t] = "record" /\ Done(t)
  /\ periodicSends' = [periodicSends EXCEPT ![arg[t].id] =
                         IF arg[t].op = "repeat" THEN "repeat" ELSE "none"]
  /\ UNCHANGED <<canVars, workload, handles, receives, requested, taken, newest, crossed, late, unstopped>>

\* HAL_CleanCAN: the handle leaves the table, then every identifier ever recorded is
\* told to stop, under mapMutex.  A handle is cleaned once: a second call would lock
\* the mutex of a null pointer.
HAL_CleanCAN(h) ==
  /\ handles[h] = "live" /\ handles' = [handles EXCEPT ![h] = "freed"]
  /\ late' = IF \E t \in Threads : In(t, h, {"send", "record"}) THEN late \cup {h} ELSE late
  /\ UNCHANGED <<canVars, workload, periodicSends, receives, pc, arg, requested, taken, newest, crossed, unstopped>>

\* Mutated form: only what was last recorded with a period is stopped.
StopsRepeating(id) == periodicSends[id] = "repeat"

Stops(id) == periodicSends[id] # "absent"

\* Nobody looks at the status of these sends: a stop that is refused is not repeated.
StopAll(h) ==
  /\ handles[h] = "freed" /\ handles' = [handles EXCEPT ![h] = "clean"]
  /\ LET stopped == {i \in Ids : IdOf(i) = h /\ Stops(i)}
     IN  \E sent \in Accepted(stopped) :
           /\ periodicSends' = [i \in Ids |-> IF i \in stopped THEN "none" ELSE periodicSends[i]]
           /\ requested' = [i \in Ids |-> IF i \in sent THEN "stop" ELSE requested[i]]
           /\ unstopped' = unstopped \cup (stopped \ sent)
  /\ UNCHANGED <<canVars, workload, receives, pc, arg, taken, newest, crossed, late>>

\* The three reads, up to the driver's answer.
BeginRead(t, id, op, limit) ==
  /\ pc[t] = "idle" /\ handles[IdOf(id)] = "live" /\ <<op, id>> \in workload
  /\ crossed' = IF \E u \in Threads : In(u, IdOf(id), {"store"})
                THEN crossed \cup {IdOf(id)} ELSE crossed
  /\ IF Unread(id) # {}
     THEN LET f == Answer(id)
          IN  /\ arg' = [arg EXCEPT ![t] = [op |-> op, id |-> id, frame |-> f, limit |-> limit]]
              /\ received' = MarkRead(id)
              /\ taken' = [taken EXCEPT ![f.n] = @ + 1]
              /\ newest' = IF f.flag = "data" THEN [newest EXCEPT ![id] = f] ELSE newest
     ELSE /\ arg' = [arg EXCEPT ![t] = [op |-> op, id |-> id, frame |-> NoFrame, limit |-> limit]]
          /\ UNCHANGED <<received, taken, newest>>
  /\ pc' = [pc EXCEPT ![t] = "store"]
  /\ UNCHANGED <<session, runThreads, receiver, queue, arrived, clock, exiting, workload, handles,
                 periodicSends, receives, requested, late, unstopped>>

\* A new frame is stored under the identifier the driver gave back, flags included.
Store(t) ==
  /\ pc[t] = "store" /\ arg[t].frame # NoFrame
  /\ receives' = [receives EXCEPT ![<<arg[t].id, arg[t].frame.flag>>] = arg[t].frame]
  /\ Done(t)
  /\ UNCHANGED <<canVars, workload, handles, periodicSends, requested, taken, newest, crossed, late, unstopped>>

\* The stored frame that stands in for a missing new one: the lookup has no flags.
Cached(id) == receives[<<id, "data">>]

\* Mutated form: a frame as old as the limit is too old.
OldAtLimit(f, limit) == (clock - f.at) % Wrap >= limit

\* GetPacketBaseTime() and the timestamps are 32 bits wide.
TooOld(f, limit) == (clock - f.at) % Wrap > limit

Verdict(t) ==
  LET f == Cached(arg[t].id)
  IN  IF arg[t].op = "new" \/ f = NoFrame THEN "missing"
      ELSE IF arg[t].op = "timeout" /\ TooOld(f, arg[t].limit) THEN "timeout" ELSE "cached"

Answers(t) ==
  /\ pc[t] = "store" /\ arg[t].frame = NoFrame
  /\ Done(t)
  /\ UNCHANGED <<canVars, workload, handles, periodicSends, receives, requested, taken, newest, crossed, late, unstopped>>

HAL_WriteCANPacket(t, id) == BeginWrite(t, id, "once")
HAL_WriteCANPacketRepeating(t, id) == BeginWrite(t, id, "repeat")
HAL_WriteCANRTRFrame(t, id) == BeginWrite(t, id, "once")
HAL_StopCANPacketRepeating(t, id) == BeginWrite(t, id, "stop")
HAL_ReadCANPacketNew(t, id) == BeginRead(t, id, "new", 0)
HAL_ReadCANPacketLatest(t, id) == BeginRead(t, id, "latest", 0)
HAL_ReadCANPacketTimeout(t, id, limit) == BeginRead(t, id, "timeout", limit)

Call(t) ==
  \/ \E id \in Ids :
       \/ HAL_WriteCANPacket(t, id) \/ HAL_WriteCANPacketRepeating(t, id)
       \/ HAL_WriteCANRTRFrame(t, id) \/ HAL_StopCANPacketRepeating(t, id)
       \/ HAL_ReadCANPacketNew(t, id) \/ HAL_ReadCANPacketLatest(t, id)
       \/ \E limit \in Timeouts : HAL_ReadCANPacketTimeout(t, id, limit)
  \/ Send(t) \/ Record(t) \/ Store(t) \/ Answers(t)

Next ==
  \/ CANNext /\ UNCHANGED apiVars
  \/ \E t \in Threads : Call(t)
  \/ \E h \in Handles : HAL_InitializeCAN(h) \/ HAL_CleanCAN(h) \/ StopAll(h)

Spec == Init /\ [][Next]_vars

-----------------------------------------------------------------------------
\* Every frame is answered as new at most once, whichever threads ask.
NewOnce == \A n \in 1 .. MaxFrames : taken[n] <= 1

\* As long as the reads of a handle do not overlap, what a read answers from the
\* store is judged on the last data frame any read was given, and a timeout is
\* reported exactly when that frame is older than the limit: for frames the driver
\* stamped with the clock's milliseconds, up to the ages 32 bits can tell apart.
VerdictOfNewest ==
  [][\A t \in Threads :
       Answers(t) /\ IdOf(arg[t].id) \notin crossed /\ arg[t].op # "new" =>
         LET f == newest[arg[t].id] IN
         /\ Verdict(t) = "missing" <=> f = NoFrame
         /\ f # NoFrame /\ f.at = f.born /\ clock - f.born < Wrap =>
              (Verdict(t) = "timeout" <=> arg[t].op = "timeout" /\ clock - f.born > arg[t].limit)]_vars

\* After HAL_CleanCAN, unless a write was under way when it was called, no identifier of
\* the handle was last sent with a period, in whatever order writes recorded what they
\* had sent.  A stop that the driver refuses costs its own identifier only.
StoppedAfterClean ==
  \A i \in Ids : handles[IdOf(i)] = "clean" /\ IdOf(i) \notin late /\ i \notin unstopped
               => requested[i] # "repeat"
=============================================================================
