-------------------------------- MODULE CAN --------------------------------
(***************************************************************************)
(* The CAN driver, cpp/CAN.cpp: a session of the vendor's driver, a thread *)
(* that keeps the last frame received under every key, and the two calls   *)
(* above it.  A frame's payload and length are those of one arrival, so    *)
(* its number stands for them.  A key is an identifier with its flags: bit *)
(* 30 for a standard frame, bit 31 for a remote one.                       *)
(***************************************************************************)
EXTENDS Naturals, Sequences, FiniteSetsExt

CONSTANTS
  Ids,           \* the 29-bit identifiers in use
  Flags,         \* "data", "standard", "remote"
  StartThreads,  \* what runThreads starts as: FALSE in the source, which nothing changes
                 \* to TRUE, so that reception ends at once; TRUE is the loop as written
  QueueSize,     \* frames the session queues, 32 in the source
  Stamps(_),     \* the driver's timestamps for a frame that arrives at a time: nothing in
                 \* the repository says in which unit the driver counts, or from when
  MaxFrames,     \* bound on the frames that arrive
  MaxClock       \* bound on the clock, CLOCK_MONOTONIC in milliseconds

ASSUME CANAssumption ==
  MaxFrames \in Nat /\ MaxClock \in Nat /\ \A c \in 0 .. MaxClock : Stamps(c) \subseteq Nat

VARIABLES session, runThreads, receiver, queue, received, arrived, clock, exiting

canVars == <<session, runThreads, receiver, queue, received, arrived, clock, exiting>>

\* The driver's stamp, at, is what the code has; born is when the frame arrived.
Frames == [id : Ids, flag : Flags, n : 1 .. MaxFrames, at : Nat, born : 0 .. MaxClock]

CANInit ==
  /\ session = "none" /\ receiver = "none" /\ exiting = FALSE
  /\ runThreads \in StartThreads
  /\ queue = <<>> /\ received = <<>> /\ arrived = 0 /\ clock = 0

\* Opening may fail, and starting may fail, which closes the session again.
InitializeCAN ==
  /\ session = "none" /\ ~exiting
  /\ \E s \in {"open", "failed"} :
       session' = s /\ receiver' = IF s = "open" THEN "loop" ELSE "none"
  /\ UNCHANGED <<runThreads, queue, received, arrived, clock, exiting>>

\* The bus: a frame that finds the session's queue full is lost.
Arrive(id, flag) ==
  /\ session = "open" /\ arrived < MaxFrames
  /\ arrived' = arrived + 1
  /\ \E at \in Stamps(clock) :
       LET f == [id |-> id, flag |-> flag, n |-> arrived + 1, at |-> at, born |-> clock]
       IN  queue' = IF Len(queue) < QueueSize THEN Append(queue, f) ELSE queue
  /\ UNCHANGED <<session, runThreads, receiver, received, clock, exiting>>

Tick == clock < MaxClock /\ clock' = clock + 1
        /\ UNCHANGED <<session, runThreads, receiver, queue, received, arrived, exiting>>

SameKey(f, g) == f.id = g.id /\ f.flag = g.flag

\* The entry of f's key is overwritten where it stands; a new key goes to the end.
Stored(f) ==
  LET entry == [frame |-> f, fresh |-> TRUE]
      found == {i \in DOMAIN received : SameKey(received[i].frame, f)}
  IN  IF found = {} THEN Append(received, entry)
      ELSE [received EXCEPT ![Min(found)] = entry]

\* One round of the loop; a read that fails or times out starts the next one.
Loop ==
  /\ receiver = "loop"
  /\ receiver' = IF runThreads THEN "read" ELSE "ended"
  /\ UNCHANGED <<session, runThreads, queue, received, arrived, clock, exiting>>

Read ==
  /\ receiver = "read" /\ receiver' = "loop"
  /\ \/ queue # <<>> /\ queue' = Tail(queue) /\ received' = Stored(Head(queue))
     \/ queue = <<>> /\ UNCHANGED <<queue, received>>
  /\ UNCHANGED <<session, runThreads, arrived, clock, exiting>>

\* The exit handler: stop the threads, join them, close the session.
Exit ==
  /\ session = "open" /\ ~exiting
  /\ exiting' = TRUE /\ runThreads' = FALSE
  /\ UNCHANGED <<session, receiver, queue, received, arrived, clock>>

Close ==
  /\ exiting /\ session = "open" /\ receiver = "ended"
  /\ session' = "closed"
  /\ UNCHANGED <<runThreads, receiver, queue, received, arrived, clock, exiting>>

\* HAL_CAN_SendMessage, under canSendMutex: which of the frames of these identifiers the
\* driver takes.  It may refuse any, and has no session to send them on unless it opened
\* one; its status is passed on.  The period is not used.
Accepted(ids) == IF session = "open" THEN SUBSET ids ELSE {{}}

\* HAL_CAN_ReceiveMessage with the mask CANAPI gives it, which hides the flags: the
\* first unread entry is the answer, and is marked read.
Unread(id) == {i \in DOMAIN received : received[i].fresh /\ received[i].frame.id = id}
Answer(id) == received[Min(Unread(id))].frame

\* Mutated form: the answer stays unread.
LeftUnread(id) == received

MarkRead(id) == [received EXCEPT ![Min(Unread(id))].fresh = FALSE]

CANNext ==
  \/ InitializeCAN \/ Tick \/ Loop \/ Read \/ Exit \/ Close
  \/ \E id \in Ids, flag \in Flags : Arrive(id, flag)
=============================================================================
