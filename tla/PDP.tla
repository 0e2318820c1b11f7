-------------------------------- MODULE PDP --------------------------------
(***************************************************************************)
(* The power distribution panels of cpphalbackup/PDP.cpp: one CAN handle   *)
(* per module, shared by whoever initializes it, and the currents packed   *)
(* into the status frames.  Handles come from the table of CANAPI, which   *)
(* gives the lowest free number again.                                     *)
(***************************************************************************)
EXTENDS ThreadConstants, Integers

CONSTANTS Modules, MaxHandles, PDPFrames   \* the status frames that panels send

ASSUME PDPAssumption ==
  /\ Modules \subseteq Nat /\ MaxHandles \in Nat
  /\ \A f \in PDPFrames : f \in [0 .. 7 -> 0 .. 255]

VARIABLES
  owner,       \* per CAN handle: the module it was made for, -1 if it is free
  pdpHandles,  \* per module: its handle, 0 is invalid
  cleaning,    \* per user: the handle HAL_CleanPDP has freed and not yet removed, or 0
  frame,       \* the bytes of the last status frame
  overlapped   \* ghost: a handle was made while one was being removed

pdpVars == <<owner, pdpHandles, cleaning, frame, overlapped>>

Numbers == 1 .. MaxHandles

PDPInit ==
  /\ owner = [h \in Numbers |-> -1]
  /\ pdpHandles = [m \in Modules |-> 0]
  /\ cleaning = [u \in Threads |-> 0]
  /\ frame = [i \in 0 .. 7 |-> 0] /\ overlapped = FALSE

\* Under pdpHandleMutex: the module's handle, or a new one.
HAL_InitializePDP(m) ==
  /\ pdpHandles[m] = 0
  /\ \E h \in Numbers :
       /\ owner[h] = -1 /\ \A g \in Numbers : owner[g] = -1 => h <= g
       /\ owner' = [owner EXCEPT ![h] = m]
       /\ pdpHandles' = [pdpHandles EXCEPT ![m] = h]
  /\ overlapped' = (overlapped \/ \E u \in Threads : cleaning[u] # 0)
  /\ UNCHANGED <<cleaning, frame>>

\* Without the mutex: the CAN handle is freed first; a handle freed before would be a
\* null pointer there, so the callers free what is theirs.
HAL_CleanPDP(u, h) ==
  /\ cleaning[u] = 0 /\ owner[h] # -1
  /\ owner' = [owner EXCEPT ![h] = -1]
  /\ cleaning' = [cleaning EXCEPT ![u] = h]
  /\ UNCHANGED <<pdpHandles, frame, overlapped>>

\* Mutated form: the module keeps the number of the freed handle.
KeepsNumber(u) ==
  /\ cleaning[u] # 0 /\ cleaning' = [cleaning EXCEPT ![u] = 0]
  /\ UNCHANGED <<owner, pdpHandles, frame, overlapped>>

\* The first module with that handle number loses it.
RemoveModule(u) ==
  /\ cleaning[u] # 0 /\ cleaning' = [cleaning EXCEPT ![u] = 0]
  /\ LET Has(m) == pdpHandles[m] = cleaning[u]
     IN  \/ (\A m \in Modules : ~Has(m)) /\ UNCHANGED pdpHandles
         \/ \E m \in Modules :
              /\ Has(m) /\ \A l \in Modules : Has(l) => m <= l
              /\ pdpHandles' = [pdpHandles EXCEPT ![m] = 0]
  /\ UNCHANGED <<owner, frame, overlapped>>

\* A status frame arrives.
StatusFrame(f) ==
  /\ frame' = f
  /\ UNCHANGED <<owner, pdpHandles, cleaning, overlapped>>

\* Mutated form: the fifth byte is taken for the end of a channel only.
NoByteSkipped == [k \in 0 .. 5 |-> k]

\* The bit fields of the status frames: the byte and width of the high bits of the
\* k-th channel; the low bits are at the top of the next byte.
HighByte == [k \in 0 .. 5 |-> IF k < 4 THEN k ELSE k + 1]
HighBits == [k \in 0 .. 5 |-> 8 - 2 * (k % 4)]

\* HAL_GetPDPChannelCurrent, in eighths of an ampere.
Raw(k) ==
  LET low == 10 - HighBits[k]
      i == HighByte[k]
  IN  (frame[i] % 2^HighBits[k]) * 2^low + frame[i + 1] \div 2^(8 - low)

\* The second frame is packed like the first; the third holds the last four channels so.
HAL_GetPDPAllChannelCurrents == [k \in 0 .. 5 |-> Raw(k)]

PDPNext ==
  \/ \E m \in Modules : HAL_InitializePDP(m)
  \/ \E u \in Threads : RemoveModule(u) \/ \E h \in Numbers : HAL_CleanPDP(u, h)
  \/ \E f \in PDPFrames : StatusFrame(f)

-----------------------------------------------------------------------------
\* While nobody is in HAL_CleanPDP, a module's handle is live and was made for that
\* module; but a handle made in the middle of HAL_CleanPDP may take the number that is
\* being removed, and the wrong module may lose it.
HandleOfModule ==
  ~overlapped /\ (\A u \in Threads : cleaning[u] = 0) =>
     \A m \in Modules : pdpHandles[m] # 0 => owner[pdpHandles[m]] = m

\* Every channel is ten consecutive bits of the frame, most significant first.
ChannelsArePacked ==
  \A k \in 0 .. 5 :
    LET byte == (10 * k) \div 8
        pair == 256 * frame[byte] + frame[byte + 1]
    IN  HAL_GetPDPAllChannelCurrents[k] = (pair \div 2^(6 - ((10 * k) % 8))) % 1024
=============================================================================
