--------------------------- MODULE OutsideProofs ---------------------------
(***************************************************************************)
(* What holds with the world outside, for every number of threads,         *)
(* devices, modules and programs: CAN frames are answered once and what    *)
(* was sent with a period is stopped, the vendor's library is used only    *)
(* when it is there, the frame sent to the solenoids is the one in memory, *)
(* and no program kills itself.                                            *)
(***************************************************************************)
EXTENDS CANAPI, NiFpga, Pneumatics, PDP, ProgramLock, SequenceTheorems,
        WellFoundedInduction, TLAPS

LibrarySpec == NiInit /\ [][NiNext]_niVars

LastFunction == Len(NiFpga_functions)

\* The table is a sequence of entries ...
LEMMA Table ==
  /\ LastFunction \in Nat /\ LastFunction >= 1
  /\ \A j \in 1 .. LastFunction : NiFpga_functions[j] \in Functions
<1>1. DOMAIN NiFpga_functions = 1 .. 18 /\ LastFunction = 18
  BY DEF NiFpga_functions, LastFunction
<1> QED BY <1>1 DEF Functions, ToSet

\* ... that lists them all.
LEMMA TableIsComplete == \A f \in Functions : \E j \in 1 .. LastFunction : f = NiFpga_functions[j]
<1>1. DOMAIN NiFpga_functions = 1 .. 18 /\ LastFunction = 18
  BY DEF NiFpga_functions, LastFunction
<1> QED BY <1>1 DEF Functions, ToSet

\* The j-th lookup has been made, and did not stop the looking up.
Looked(j) == NiFpga_functions[j].required => NiFpga_functions[j] \in pointers

LibraryTypes ==
  /\ library \in BOOLEAN /\ cut \in BOOLEAN
  /\ niPc \in {"idle", "resolve", "null"}
  /\ next \in 1 .. LastFunction
  /\ pointers \subseteq Functions
  /\ DOMAIN inside = Threads

\* Without a library no pointer is set and nobody is inside; a lookup that is past
\* has its pointer, unless the looking up stopped.
LibraryInv ==
  /\ LibraryTypes
  /\ niPc # "null" => pointers \subseteq loaded
  /\ niPc = "resolve" => library
  /\ niPc = "null" => ~library
  /\ ~library => Quiet /\ initResult \in {"none", "ResourceNotFound"}
  /\ ~library /\ niPc = "idle" => pointers = {}
  /\ niPc = "resolve" => initResult # "Success" /\ \A j \in 1 .. next - 1 : Looked(j)
  /\ library /\ niPc = "idle" /\ ~cut => \A j \in 1 .. LastFunction : Looked(j)
  /\ initResult = "Success" => library /\ niPc = "idle"
  /\ CallsAreLoaded

LEMMA LibraryStart == NiInit => LibraryInv
<1> SUFFICES ASSUME NiInit PROVE LibraryInv
  OBVIOUS
<1>1. LibraryTypes
  <2>1. next \in 1 .. LastFunction
    BY Table DEF NiInit
  <2> QED BY <2>1 DEF NiInit, LibraryTypes
<1>2. Quiet /\ CallsAreLoaded /\ pointers = {} /\ initResult = "none" /\ niPc = "idle" /\ ~library
  BY DEF NiInit, Quiet, CallsAreLoaded
<1> QED BY <1>1, <1>2 DEF LibraryInv

LEMMA LibraryStep == LibraryInv /\ [NiNext]_niVars => LibraryInv'
<1> SUFFICES ASSUME LibraryInv, [NiNext]_niVars PROVE LibraryInv'
  OBVIOUS
<1> USE DEF LibraryInv, LibraryTypes, Quiet, CallsAreLoaded, Looked
<1>0. 1 \in 1 .. LastFunction
  BY Table
<1>1. CASE UNCHANGED niVars
  BY <1>1 DEF niVars
<1>2. CASE Install
  BY <1>2 DEF Install
<1>3. CASE NiFpga_Initialize
  <2>1. CASE library' = library
    <3>1. initResult' = IF library THEN "Success" ELSE "ResourceNotFound"
      BY <1>3, <2>1 DEF NiFpga_Initialize
    <3>2. UNCHANGED <<library, loaded, next, niPc, cut, pointers, inside>> /\ niPc = "idle"
      BY <1>3, <2>1 DEF NiFpga_Initialize
    <3> QED BY <3>1, <3>2
  <2>2. CASE library' # library
    <3>1. /\ library' = TRUE /\ pointers' = {} /\ cut' = FALSE /\ next' = 1
          /\ niPc' = "resolve" /\ initResult' = initResult /\ inside' = inside
          /\ initResult # "Success" /\ Quiet
      BY <1>3, <2>2 DEF NiFpga_Initialize
    <3>2. \A j \in 1 .. next' - 1 : Looked(j)'
      BY <3>1
    <3> QED BY <3>1, <3>2, <1>0
  <2> QED BY <2>1, <2>2
<1>4. CASE Resolve
  <2> DEFINE f == NiFpga_functions[next]
  <2>0. /\ library /\ ~(initResult = "Success") /\ UNCHANGED <<library, loaded, inside>> /\ niPc # "null"
    BY <1>4 DEF Resolve
  <2>1. f \in Functions
    BY Table
  <2>2. pointers' \subseteq Functions /\ pointers' \subseteq loaded'
    BY <1>4, <2>1 DEF Resolve
  <2>3. ~Failed(f) => \A j \in 1 .. next : Looked(j)'
    BY <1>4, <2>1 DEF Resolve, Failed
  <2>4. CASE Failed(f)
    <3>1. niPc' = "idle" /\ next' = 1 /\ cut' = TRUE /\ initResult' = "VersionMismatch"
      BY <1>4, <2>4 DEF Resolve
    <3> QED BY <2>0, <2>2, <3>1, <1>0
  <2>5. CASE ~Failed(f) /\ next = LastFunction
    <3>1. niPc' = "idle" /\ next' = 1 /\ cut' \in BOOLEAN /\ initResult' = "Success"
      BY <1>4, <2>5 DEF Resolve, Failed, LastFunction
    <3> QED BY <2>0, <2>2, <2>3, <2>5, <3>1, <1>0
  <2>6. CASE ~Failed(f) /\ next # LastFunction
    <3>1. niPc' = "resolve" /\ next' = next + 1 /\ cut' \in BOOLEAN /\ initResult' = initResult
      BY <1>4, <2>6 DEF Resolve, Failed, LastFunction
    <3>2. next' \in 1 .. LastFunction
      BY <2>6, <3>1, Table
    <3> QED BY <2>0, <2>2, <2>3, <2>6, <3>1, <3>2
  <2> QED BY <2>4, <2>5, <2>6
<1>5. CASE NiFpga_Finalize
  BY <1>5, <1>0 DEF NiFpga_Finalize
<1>6. CASE NullOut
  <2>1. ~library /\ initResult # "Success" /\ Quiet
    BY <1>6 DEF NullOut
  <2>2. pointers' = {}
    BY <1>6 DEF NullOut, Nulled
  <2> QED BY <1>6, <2>1, <2>2 DEF NullOut
<1>7. ASSUME NEW c \in Threads, NEW f \in Functions, CallThrough(c, f) PROVE LibraryInv'
  BY <1>7 DEF CallThrough
<1>8. ASSUME NEW c \in Threads, Leave(c) PROVE LibraryInv'
  BY <1>8 DEF Leave
<1> QED BY <1>1, <1>2, <1>3, <1>4, <1>5, <1>6, <1>7, <1>8 DEF NiNext

\* However NiFpga_Initialize and NiFpga_Finalize went and interleaved, a caller that goes
\* through a pointer of NiFpga.c goes into a library that is loaded.
THEOREM PointersAreLoaded == LibrarySpec => []CallsAreLoaded
<1>1. LibraryInv => CallsAreLoaded
  BY DEF LibraryInv
<1> QED BY <1>1, LibraryStart, LibraryStep, PTL DEF LibrarySpec

\* After NiFpga_Initialize answers Success every required function works, but for the
\* Success of a call that took over a library in which the lookups had stopped.
THEOREM SuccessIsWorking == LibrarySpec => []SuccessMeansWorking
<1>1. LibraryInv => SuccessMeansWorking
  <2> SUFFICES ASSUME LibraryInv, initResult = "Success", ~cut, NEW f \in Functions, f.required
               PROVE  Status(f) = "Success"
    BY DEF SuccessMeansWorking
  <2>1. PICK j \in 1 .. LastFunction : f = NiFpga_functions[j]
    BY TableIsComplete
  <2>2. Looked(j)
    BY DEF LibraryInv
  <2>3. f \in pointers
    BY <2>1, <2>2 DEF Looked
  <2> QED BY <2>3 DEF Status
<1> QED BY <1>1, LibraryStart, LibraryStep, PTL DEF LibrarySpec

-----------------------------------------------------------------------------
AirSpec == AirInit /\ [][AirNext]_airVars

\* The session has the frame that is in memory, unless a call is on its way to send it or
\* the session refused the last one.
AirInv ==
  /\ DOMAIN airPc = Threads
  /\ (\A t \in Threads : airPc[t] # "flush") /\ ~refused => sent = tx

LEMMA AirStart == AirInit => AirInv
BY DEF AirInit, AirInv

\* A call that leaves the frame alone and has nothing to send.
LEMMA FrameStays ==
  ASSUME AirInv, UNCHANGED <<tx, sent, refused>>, NEW t \in Threads, airPc[t] # "flush",
         NEW step, airPc' = [airPc EXCEPT ![t] = step]
  PROVE  AirInv'
BY DEF AirInv

LEMMA AirStep == AirInv /\ [AirNext]_airVars => AirInv'
<1> SUFFICES ASSUME AirInv, [AirNext]_airVars PROVE AirInv'
  OBVIOUS
<1>1. CASE UNCHANGED airVars
  BY <1>1 DEF airVars, AirInv
<1>2. ASSUME NEW c \in Channels, HAL_FreeSolenoidPort(c) PROVE AirInv'
  BY <1>2 DEF HAL_FreeSolenoidPort, AirInv
<1>3. ASSUME NEW t \in Threads, NEW c \in Channels, InitializePCM(t, c) PROVE AirInv'
  BY <1>3, FrameStays DEF InitializePCM, AirGoto
<1>4. ASSUME NEW t \in Threads, Construct(t) PROVE AirInv'
  <2>1. /\ airPc' = [airPc EXCEPT ![t] = "allocate"] /\ airPc[t] = "construct"
        /\ sent' = tx' \/ refused'
    BY <1>4 DEF Construct, AirGoto
  <2> QED BY <2>1 DEF AirInv
<1>5. ASSUME NEW t \in Threads, Allocate(t) PROVE AirInv'
  BY <1>5, FrameStays DEF Allocate, AirGoto
<1>6. ASSUME NEW t \in Threads, NEW f, NEW new, ReadUnit(t, f, new)
      PROVE  AirInv'
  BY <1>6, FrameStays DEF ReadUnit, AirGoto
<1>7. ASSUME NEW t \in Threads, WriteUnit(t) PROVE AirInv'
  <2>1. airPc' = [airPc EXCEPT ![t] = "flush"]
    BY <1>7 DEF WriteUnit, AirGoto
  <2>2. airPc'[t] = "flush" /\ DOMAIN airPc' = Threads
    BY <2>1 DEF AirInv
  <2> QED BY <2>2 DEF AirInv
<1>8. ASSUME NEW t \in Threads, FlushTx(t) PROVE AirInv'
  BY <1>8 DEF FlushTx, AirGoto, AirInv
<1>9. ASSUME NEW t \in Threads, NEW c \in Channels, HAL_SetOneShotDuration(t, c) PROVE AirInv'
  BY <1>9 DEF HAL_SetOneShotDuration, AirInv
<1> QED BY <1>1, <1>2, <1>3, <1>4, <1>5, <1>6, <1>7, <1>8, <1>9
        DEF AirNext, AirCall, HAL_FireOneShot, HAL_SetSolenoid, HAL_SetAllSolenoids,
            HAL_SetCompressorClosedLoopControl

\* For any number of threads and channels, and whatever a write of a bit-field writes with
\* it: when the calls of PCM.cpp have returned, the session has the frame in memory, unless
\* it refused the last one.
THEOREM LastFrameIsCurrent == AirSpec => []SentIsCurrent
<1>1. AirInv => SentIsCurrent
  BY DEF AirInv, SentIsCurrent
<1> QED BY <1>1, AirStart, AirStep, PTL DEF AirSpec

-----------------------------------------------------------------------------
PDPSpec == PDPInit /\ [][PDPNext]_pdpVars

PDPTypes ==
  /\ owner \in [Numbers -> Modules \cup {-1}]
  /\ pdpHandles \in [Modules -> Numbers \cup {0}]
  /\ cleaning \in [Threads -> Numbers \cup {0}]

\* As long as no handle was made while one was being removed: a number is one
\* module's, and live unless somebody is removing it.
PDPInv ==
  /\ PDPTypes
  /\ ~overlapped =>
       /\ \A h \in Numbers : owner[h] # -1 => pdpHandles[owner[h]] = h
       /\ \A m \in Modules : pdpHandles[m] # 0 =>
            \/ owner[pdpHandles[m]] = m
            \/ \E u \in Threads : cleaning[u] = pdpHandles[m]
       /\ \A u \in Threads : cleaning[u] # 0 => owner[cleaning[u]] = -1
       /\ \A m, l \in Modules : pdpHandles[m] # 0 /\ pdpHandles[m] = pdpHandles[l] => m = l

LEMMA PDPStart == PDPInit => PDPInv
BY DEF PDPInit, PDPInv, PDPTypes, Numbers

LEMMA PDPStep == PDPInv /\ [PDPNext]_pdpVars => PDPInv'
<1> SUFFICES ASSUME PDPInv, [PDPNext]_pdpVars PROVE PDPInv'
  OBVIOUS
<1>0. 0 \notin Numbers /\ -1 \notin Modules
  BY PDPAssumption DEF Numbers
<1> USE DEF PDPInv, PDPTypes
<1>1. CASE UNCHANGED pdpVars
  BY <1>1 DEF pdpVars
<1>2. ASSUME NEW m \in Modules, HAL_InitializePDP(m) PROVE PDPInv'
  <2>1. PICK h \in Numbers :
          /\ owner[h] = -1 /\ pdpHandles[m] = 0
          /\ owner' = [owner EXCEPT ![h] = m]
          /\ pdpHandles' = [pdpHandles EXCEPT ![m] = h]
    BY <1>2 DEF HAL_InitializePDP
  <2>2. cleaning' = cleaning /\ PDPTypes'
    BY <1>2, <2>1 DEF HAL_InitializePDP
  <2>3. ASSUME ~overlapped' PROVE ~overlapped /\ \A u \in Threads : cleaning[u] = 0
    BY <1>2, <2>3 DEF HAL_InitializePDP
  <2>4. ASSUME ~overlapped' PROVE \A l \in Modules : pdpHandles[l] # h
    BY <1>0, <2>1, <2>3, <2>4
  <2> QED BY <1>0, <2>1, <2>2, <2>3, <2>4
<1>3. ASSUME NEW u \in Threads, NEW h \in Numbers, HAL_CleanPDP(u, h) PROVE PDPInv'
  <2>1. /\ cleaning[u] = 0 /\ owner[h] # -1 /\ owner' = [owner EXCEPT ![h] = -1]
        /\ cleaning' = [cleaning EXCEPT ![u] = h]
        /\ pdpHandles' = pdpHandles /\ overlapped' = overlapped
    BY <1>3 DEF HAL_CleanPDP
  <2>2. PDPTypes'
    BY <2>1
  <2>3. ASSUME ~overlapped, NEW m \in Modules, pdpHandles[m] # 0
        PROVE  \/ owner'[pdpHandles[m]] = m
               \/ \E t \in Threads : cleaning'[t] = pdpHandles[m]
    <3>1. CASE pdpHandles[m] = h
      BY <2>1, <3>1
    <3>2. CASE pdpHandles[m] # h
      BY <2>1, <2>3, <3>2
    <3> QED BY <3>1, <3>2
  <2> QED BY <1>0, <2>1, <2>2, <2>3
<1>4. ASSUME NEW u \in Threads, RemoveModule(u) PROVE PDPInv'
  <2>1. /\ cleaning[u] # 0 /\ cleaning' = [cleaning EXCEPT ![u] = 0]
        /\ owner' = owner /\ overlapped' = overlapped
    BY <1>4 DEF RemoveModule
  <2>2. CASE pdpHandles' = pdpHandles /\ \A m \in Modules : pdpHandles[m] # cleaning[u]
    BY <1>0, <2>1, <2>2
  <2>3. ASSUME NEW m \in Modules, pdpHandles[m] = cleaning[u],
               pdpHandles' = [pdpHandles EXCEPT ![m] = 0]
        PROVE  PDPInv'
    <3>1. PDPTypes'
      BY <2>1, <2>3
    <3>2. ASSUME ~overlapped, NEW l \in Modules, pdpHandles'[l] # 0
          PROVE  l # m /\ pdpHandles[l] # cleaning[u] /\ pdpHandles'[l] = pdpHandles[l]
      BY <2>1, <2>3, <3>2
    <3>3. ASSUME ~overlapped, NEW h \in Numbers, owner[h] # -1
          PROVE  pdpHandles'[owner[h]] = h
      BY <1>0, <2>1, <2>3, <3>3
    <3> QED BY <2>1, <2>3, <3>1, <3>2, <3>3
  <2> QED BY <1>4, <2>2, <2>3 DEF RemoveModule
<1>5. ASSUME NEW f \in PDPFrames, StatusFrame(f) PROVE PDPInv'
  BY <1>5 DEF StatusFrame
<1> QED BY <1>1, <1>2, <1>3, <1>4, <1>5 DEF PDPNext

\* For any number of modules and handles: outside HAL_CleanPDP the handle kept for a
\* module is one that was made for it.
THEOREM ModulesHaveTheirHandles == PDPSpec => []HandleOfModule
<1>1. PDPInv => HandleOfModule
  BY DEF PDPInv, PDPTypes, HandleOfModule
<1> QED BY <1>1, PDPStart, PDPStep, PTL DEF PDPSpec

\* A status frame is eight bytes.
EightBytes == frame \in [0 .. 7 -> 0 .. 255]

LEMMA Powers == 2^8 = 256 /\ 2^6 = 64 /\ 2^4 = 16 /\ 2^2 = 4 /\ 2^0 = 1
OBVIOUS

\* Ten bits that begin at bit skip of the high byte: its low bits are their high bits, and
\* the low bits are the high ones of the next byte.
LEMMA TenBits ==
  ASSUME NEW high \in 0 .. 255, NEW low \in 0 .. 255
  PROVE  /\ (high % 256) * 4 + low \div 64 = ((256 * high + low) \div 64) % 1024
         /\ (high % 64) * 16 + low \div 16 = ((256 * high + low) \div 16) % 1024
         /\ (high % 16) * 64 + low \div 4 = ((256 * high + low) \div 4) % 1024
         /\ (high % 4) * 256 + low \div 1 = ((256 * high + low) \div 1) % 1024
<1>1. (high % 256) * 4 + low \div 64 = ((256 * high + low) \div 64) % 1024
  OBVIOUS
<1>2. (high % 64) * 16 + low \div 16 = ((256 * high + low) \div 16) % 1024
  OBVIOUS
<1>3. (high % 16) * 64 + low \div 4 = ((256 * high + low) \div 4) % 1024
  OBVIOUS
<1>4. (high % 4) * 256 + low \div 1 = ((256 * high + low) \div 1) % 1024
  OBVIOUS
<1> QED BY <1>1, <1>2, <1>3, <1>4

\* Where the source looks for the k-th channel.
LEMMA FieldsAre ==
  /\ \A k \in 0 .. 5 : HighByte[k] = (10 * k) \div 8 /\ HighByte[k] \in 0 .. 6
  /\ \A k \in {0, 4} : HighBits[k] = 8 /\ (10 * k) % 8 = 0
  /\ \A k \in {1, 5} : HighBits[k] = 6 /\ (10 * k) % 8 = 2
  /\ HighBits[2] = 4 /\ (10 * 2) % 8 = 4
  /\ HighBits[3] = 2 /\ (10 * 3) % 8 = 6
BY DEF HighByte, HighBits

\* Whatever bytes a frame has: HAL_GetPDPAllChannelCurrents reads every channel as the
\* ten consecutive bits that are its own, across the byte that is skipped.
THEOREM ChannelsAreTheirs == PDPSpec => []ChannelsArePacked
<1>1. PDPInit => EightBytes
  BY DEF PDPInit, EightBytes
<1>2. EightBytes /\ [PDPNext]_pdpVars => EightBytes'
  <2> SUFFICES ASSUME EightBytes, [PDPNext]_pdpVars PROVE EightBytes'
    OBVIOUS
  <2>1. ASSUME NEW f \in PDPFrames, StatusFrame(f) PROVE EightBytes'
    BY <2>1, PDPAssumption DEF StatusFrame, EightBytes
  <2>2. UNCHANGED frame => EightBytes'
    BY DEF EightBytes
  <2> QED BY <2>1, <2>2 DEF PDPNext, HAL_InitializePDP, HAL_CleanPDP, RemoveModule, pdpVars
<1>3. EightBytes => ChannelsArePacked
  <2>0. \A k \in 0 .. 5 : HAL_GetPDPAllChannelCurrents[k] = Raw(k)
    BY Zenon DEF HAL_GetPDPAllChannelCurrents
  <2> DEFINE Field(k) == ((256 * frame[(10 * k) \div 8] + frame[((10 * k) \div 8) + 1])
                            \div 2^(6 - ((10 * k) % 8))) % 1024
  <2>1. (\A k \in 0 .. 5 : HAL_GetPDPAllChannelCurrents[k] = Field(k)) => ChannelsArePacked
    BY DEF ChannelsArePacked
  <2>2. ASSUME EightBytes, NEW k \in 0 .. 5 PROVE Raw(k) = Field(k)
    <3> DEFINE byte == (10 * k) \div 8
               rest == 6 - ((10 * k) % 8)
               high == frame[byte]
               low == frame[byte + 1]
               bits == HighBits[k]
               packed == ((256 * high + low) \div 2^rest) % 1024
    <3>1. byte \in 0 .. 6 /\ HighByte[k] = byte /\ byte + 1 \in 0 .. 7 /\ byte \in 0 .. 7
      <4>1. HighByte[k] = byte /\ HighByte[k] \in 0 .. 6
        BY FieldsAre
      <4> HIDE DEF byte
      <4> QED BY <4>1
    <3>2. high \in 0 .. 255 /\ low \in 0 .. 255
      <4> HIDE DEF byte
      <4> QED BY <2>2, <3>1 DEF EightBytes
    <3>3. Raw(k) = (high % 2^bits) * 2^(10 - bits) + low \div 2^(8 - (10 - bits))
      <4> HIDE DEF byte
      <4> QED BY <3>1 DEF Raw
    <3> SUFFICES Raw(k) = packed
      OBVIOUS
    <3>4. /\ k \in {0, 4} => bits = 8 /\ rest = 6
          /\ k \in {1, 5} => bits = 6 /\ rest = 4
          /\ k = 2 => bits = 4 /\ rest = 2
          /\ k = 3 => bits = 2 /\ rest = 0
      BY FieldsAre
    <3> HIDE DEF high, low, byte, rest, bits
    <3>5. CASE bits = 8 /\ rest = 6
      <4>1. Raw(k) = (high % 256) * 4 + low \div 64 /\ 2^rest = 64
        BY <3>3, <3>5, Powers
      <4> QED BY <3>2, <4>1, TenBits
    <3>6. CASE bits = 6 /\ rest = 4
      <4>1. Raw(k) = (high % 64) * 16 + low \div 16 /\ 2^rest = 16
        BY <3>3, <3>6, Powers
      <4> QED BY <3>2, <4>1, TenBits
    <3>7. CASE bits = 4 /\ rest = 2
      <4>1. Raw(k) = (high % 16) * 64 + low \div 4 /\ 2^rest = 4
        BY <3>3, <3>7, Powers
      <4> QED BY <3>2, <4>1, TenBits
    <3>8. CASE bits = 2 /\ rest = 0
      <4>1. Raw(k) = (high % 4) * 256 + low \div 1 /\ 2^rest = 1
        BY <3>3, <3>8, Powers
      <4> QED BY <3>2, <4>1, TenBits
    <3> QED BY <3>4, <3>5, <3>6, <3>7, <3>8
  <2> HIDE DEF Field
  <2> QED BY <2>0, <2>1, <2>2
<1> QED BY <1>1, <1>2, <1>3, PTL DEF PDPSpec

-----------------------------------------------------------------------------
LockTypes ==
  /\ frcPid \in Pids \cup {0}
  /\ programPc \in [Programs -> LockSteps]
  /\ pid \in [Programs -> Pids \cup {0}]
  /\ target \in [Programs -> Pids \cup {0}]
  /\ victims \in [Programs -> SUBSET Programs]
  /\ previous \in [Programs -> SUBSET Programs]

\* What a program is about to kill is not itself.
TargetIsAnother == \A p \in Programs : programPc[p] \in {"term", "check"} => target[p] # pid[p]

Safe == LockTypes /\ TargetIsAnother /\ NeverKillsItself

\* A process id is one program's, while it lives.
Distinct ==
  /\ \A p \in Programs : Alive(p) => pid[p] \in Pids
  /\ \A p, q \in Programs : Alive(p) /\ Alive(q) /\ pid[p] = pid[q] => p = q

\* One program starts at a time.
OneStarts == \A p, q \in Programs : Starting(p) /\ Starting(q) => p = q

\* Whoever runs can be found: by the file, until the next program has read it, and by
\* what that program has read, until it has killed it.
Known ==
  \A p, q \in Programs : programPc[q] = "running" =>
    /\ programPc[p] \in {"term", "check"} => target[p] = pid[q]
    /\ programPc[p] \notin {"write", "truncate"}
    /\ pid[q] = frcPid

Past ==
  \A p \in Programs : \A q \in previous[p] : programPc[q] \in {"running", "dead"}

PastIsDead ==
  \A p \in Programs : programPc[p] \in {"truncate", "write", "running"} =>
    \A q \in previous[p] : programPc[q] = "dead"

Alone == Distinct /\ OneStarts /\ Known /\ Past /\ PastIsDead

-----------------------------------------------------------------------------

LEMMA InitEstablishes == LockInit => Safe /\ Alone
BY ProgramAssumption
   DEF LockInit, Safe, LockTypes, LockSteps, TargetIsAnother, NeverKillsItself, Alone, Distinct,
       OneStarts, Known, Past, PastIsDead, Alive, Starting

\* No step makes a program its own victim.
LEMMA SafePreserved == Safe /\ [LockNext]_lockVars => Safe'
<1> SUFFICES ASSUME Safe, [LockNext]_lockVars PROVE Safe'
  OBVIOUS
<1> USE ProgramAssumption DEF Safe, LockTypes, LockSteps, TargetIsAnother, NeverKillsItself
<1>1. CASE UNCHANGED lockVars
  BY <1>1 DEF lockVars
<1>2. ASSUME NEW p \in Programs, Start(p) PROVE Safe'
  BY <1>2 DEF Start
<1>3. ASSUME NEW p \in Programs, Die(p) PROVE Safe'
  BY <1>3 DEF Die
<1>4. ASSUME NEW p \in Programs, ReadPid(p) PROVE Safe'
  BY <1>4 DEF ReadPid, Existing
<1>5. ASSUME NEW p \in Programs, Terminate(p) PROVE Safe'
  BY <1>5 DEF Terminate, Signal, Signalled
<1>6. ASSUME NEW p \in Programs, ForceKill(p) PROVE Safe'
  BY <1>6 DEF ForceKill, Signal, Signalled, Killed
<1>7. ASSUME NEW p \in Programs, Truncate(p) PROVE Safe'
  BY <1>7 DEF Truncate
<1>8. ASSUME NEW p \in Programs, WritePid(p) PROVE Safe'
  BY <1>8 DEF WritePid
<1> QED BY <1>1, <1>2, <1>3, <1>4, <1>5, <1>6, <1>7, <1>8 DEF LockNext

\* However process ids are reused and whoever crashes, no program sends a signal to
\* itself.
THEOREM NobodyKillsItself == LockSpec => []NeverKillsItself
<1>1. Safe => NeverKillsItself
  BY DEF Safe
<1> QED BY <1>1, InitEstablishes, SafePreserved, PTL DEF LockSpec

-----------------------------------------------------------------------------
\* What killExistingProgram relies on: nobody starts another program meanwhile, and
\* kill() may reach every program.
Cooperative == ~Overlap /\ Foreign = {}

LEMMA AlonePreserved ==
  ASSUME Cooperative
  PROVE  Safe /\ Alone /\ [LockNext]_lockVars => Alone'
<1> SUFFICES ASSUME Safe, Alone, [LockNext]_lockVars PROVE Alone'
  OBVIOUS
<1> USE ProgramAssumption
    DEF Cooperative, Safe, LockTypes, LockSteps, TargetIsAnother, Alone, Distinct, OneStarts, Known,
        Past, PastIsDead, Alive, Starting
<1>1. CASE UNCHANGED lockVars
  BY <1>1 DEF lockVars
<1>2. ASSUME NEW p \in Programs, Start(p) PROVE Alone'
  BY <1>2 DEF Start
<1>3. ASSUME NEW p \in Programs, Die(p) PROVE Alone'
  BY <1>3 DEF Die
<1>4. ASSUME NEW p \in Programs, ReadPid(p) PROVE Alone'
  BY <1>4 DEF ReadPid, Existing, Around
<1>5. ASSUME NEW p \in Programs, Terminate(p) PROVE Alone'
  BY <1>5 DEF Terminate
<1>6. ASSUME NEW p \in Programs, ForceKill(p) PROVE Alone'
  BY <1>6 DEF ForceKill, Signalled, Killed
<1>7. ASSUME NEW p \in Programs, Truncate(p) PROVE Alone'
  BY <1>7 DEF Truncate
<1>8. ASSUME NEW p \in Programs, WritePid(p) PROVE Alone'
  BY <1>8 DEF WritePid
<1> QED BY <1>1, <1>2, <1>3, <1>4, <1>5, <1>6, <1>7, <1>8 DEF LockNext

\* Whatever crashed and left its id in the file: once a program runs, none of those
\* that ran when it started is alive.
THEOREM PreviousIsKilled ==
  ASSUME Cooperative
  PROVE  LockSpec => []KillsPrevious
<1>1. Safe /\ Alone => KillsPrevious
  BY DEF Alone, PastIsDead, KillsPrevious
<1> QED BY <1>1, InitEstablishes, SafePreserved, AlonePreserved, PTL DEF LockSpec

-----------------------------------------------------------------------------
\* The CAN calls: what is sent.
\* Types, as far as stopping depends on them; a call under way is for an identifier.
SendTypes ==
  /\ DOMAIN handles = Handles /\ DOMAIN periodicSends = Ids /\ DOMAIN requested = Ids
  /\ DOMAIN pc = Threads /\ DOMAIN arg = Threads
  /\ \A t \in Threads : pc[t] # "idle" => arg[t].id \in Ids

\* Who writes has sent and not recorded, or recorded: a period that went to the bus is
\* known to HAL_CleanCAN unless its write is under way, and no write begins after it.
SendInv ==
  /\ SendTypes
  /\ \A i \in Ids : requested[i] = "repeat" =>
       periodicSends[i] # "absent" \/ \E t \in Threads : pc[t] = "record" /\ arg[t].id = i
  /\ \A h \in Handles \ late : handles[h] \in {"freed", "clean"} =>
       \A t \in Threads : ~In(t, h, {"send", "record"})
  /\ StoppedAfterClean

LEMMA SendStart == Init => SendInv
<1> SUFFICES ASSUME Init PROVE SendInv
  OBVIOUS
<1>1. /\ \A h \in Handles : handles[h] = "none"
      /\ \A i \in Ids : requested[i] = "once"
      /\ \A t \in Threads : pc[t] = "idle"
  BY DEF Init
<1>2. SendTypes
  BY DEF Init, SendTypes
<1> QED BY <1>1, <1>2, CANAPIAssumption DEF SendInv, StoppedAfterClean

\* Steps that neither write nor close a handle.
LEMMA OtherThanWrite ==
  ASSUME SendInv, UNCHANGED <<handles, periodicSends, requested, late, unstopped>>, SendTypes',
         \A t \in Threads, step \in {"send", "record"} :
           /\ pc'[t] = step <=> pc[t] = step
           /\ pc[t] = step => arg'[t] = arg[t]
  PROVE  SendInv'
<1>2. \A i \in Ids : requested'[i] = "repeat" =>
        periodicSends'[i] # "absent" \/ \E t \in Threads : pc'[t] = "record" /\ arg'[t].id = i
  <2> SUFFICES ASSUME NEW i \in Ids, requested[i] = "repeat", periodicSends[i] = "absent"
               PROVE  \E t \in Threads : pc'[t] = "record" /\ arg'[t].id = i
    OBVIOUS
  <2>1. PICK t \in Threads : pc[t] = "record" /\ arg[t].id = i
    BY DEF SendInv
  <2> QED BY <2>1
<1>3. \A h \in Handles \ late' : handles'[h] \in {"freed", "clean"} =>
        \A t \in Threads : ~In(t, h, {"send", "record"})'
  BY DEF SendInv, In
<1>4. StoppedAfterClean'
  BY CANAPIAssumption DEF SendInv, StoppedAfterClean
<1> QED BY <1>2, <1>3, <1>4 DEF SendInv

LEMMA SendStep == SendInv /\ [Next]_vars => SendInv'
<1> SUFFICES ASSUME SendInv, [Next]_vars PROVE SendInv'
  OBVIOUS
<1> USE CANAPIAssumption
<1>t. SendTypes
  BY DEF SendInv
<1>1. CASE UNCHANGED vars \/ (CANNext /\ UNCHANGED apiVars)
  <2>1. UNCHANGED apiVars
    BY <1>1 DEF vars
  <2>2. SendTypes'
    BY <1>t, <2>1 DEF apiVars, SendTypes
  <2> QED BY <2>1, <2>2, OtherThanWrite DEF apiVars
<1>2. ASSUME NEW t \in Threads, NEW id \in Ids, NEW op, BeginWrite(t, id, op) PROVE SendInv'
  <2>1. /\ pc[t] = "idle" /\ handles[IdOf(id)] = "live" /\ pc'[t] = "send" /\ arg'[t].id = id
        /\ \A u \in Threads \ {t} : pc'[u] = pc[u] /\ arg'[u] = arg[u]
        /\ UNCHANGED <<handles, periodicSends, requested, late, unstopped>>
    BY <1>2, <1>t DEF BeginWrite, SendTypes, canVars, Idle
  <2>2. SendTypes'
    BY <1>2, <1>t, <2>1 DEF BeginWrite, SendTypes
  <2>3. \A i \in Ids : requested'[i] = "repeat" =>
          periodicSends'[i] # "absent" \/ \E u \in Threads : pc'[u] = "record" /\ arg'[u].id = i
    <3> SUFFICES ASSUME NEW i \in Ids, requested[i] = "repeat", periodicSends[i] = "absent"
                 PROVE  \E u \in Threads : pc'[u] = "record" /\ arg'[u].id = i
      BY <2>1
    <3>1. PICK u \in Threads : pc[u] = "record" /\ arg[u].id = i
      BY DEF SendInv
    <3> QED BY <2>1, <3>1
  <2>4. \A h \in Handles \ late' : handles'[h] \in {"freed", "clean"} =>
          \A u \in Threads : ~In(u, h, {"send", "record"})'
    BY <2>1 DEF SendInv, In
  <2>5. StoppedAfterClean'
    BY <2>1 DEF SendInv, StoppedAfterClean
  <2> QED BY <2>2, <2>3, <2>4, <2>5 DEF SendInv
<1>3. ASSUME NEW t \in Threads, Send(t) PROVE SendInv'
  <2>1. /\ pc[t] = "send" /\ arg[t].id \in Ids
        /\ UNCHANGED <<handles, periodicSends, late, unstopped>>
    BY <1>3, <1>t DEF Send, SendTypes, canVars
  <2>s. PICK accepted \in Accepted({arg[t].id}) :
          IF accepted = {}
          THEN Done(t) /\ UNCHANGED requested
          ELSE /\ requested' = [requested EXCEPT ![arg[t].id] = arg[t].op]
               /\ pc' = [pc EXCEPT ![t] = "record"] /\ UNCHANGED arg
    BY <1>3 DEF Send
  <2>2. CASE accepted # {}
    <3>1. /\ requested' = [requested EXCEPT ![arg[t].id] = arg[t].op]
          /\ pc' = [pc EXCEPT ![t] = "record"] /\ arg' = arg
      BY <2>2, <2>s
    <3>2. SendTypes'
      BY <1>t, <2>1, <3>1 DEF SendTypes
    <3>3. \A i \in Ids : requested'[i] = "repeat" =>
            periodicSends'[i] # "absent" \/ \E u \in Threads : pc'[u] = "record" /\ arg'[u].id = i
      <4> SUFFICES ASSUME NEW i \in Ids, requested'[i] = "repeat", periodicSends[i] = "absent"
                   PROVE  \E u \in Threads : pc'[u] = "record" /\ arg'[u].id = i
        BY <2>1
      <4>1. CASE i = arg[t].id
        BY <1>t, <3>1, <4>1 DEF SendTypes
      <4>2. CASE i # arg[t].id
        <5>1. requested[i] = "repeat"
          BY <1>t, <3>1, <4>2 DEF SendTypes
        <5>2. PICK u \in Threads : pc[u] = "record" /\ arg[u].id = i
          BY <5>1 DEF SendInv
        <5> QED BY <1>t, <2>1, <3>1, <5>2 DEF SendTypes
      <4> QED BY <4>1, <4>2
    <3>4. \A h \in Handles \ late' : handles'[h] \in {"freed", "clean"} =>
            \A u \in Threads : ~In(u, h, {"send", "record"})'
      BY <1>t, <2>1, <3>1 DEF SendInv, SendTypes, In
    <3>5. StoppedAfterClean'
      <4> SUFFICES ASSUME NEW i \in Ids, handles[IdOf(i)] = "clean", IdOf(i) \notin late,
                          i \notin unstopped
                   PROVE  requested'[i] # "repeat"
        BY <2>1 DEF StoppedAfterClean
      <4>1. i # arg[t].id
        BY <2>1 DEF SendInv, In
      <4> QED BY <1>t, <3>1, <4>1 DEF SendInv, SendTypes, StoppedAfterClean
    <3> QED BY <2>1, <3>2, <3>3, <3>4, <3>5 DEF SendInv
  <2>3. CASE accepted = {}
    <3>1. Done(t) /\ requested' = requested
      BY <2>3, <2>s
    <3>2. pc'[t] = "idle" /\ \A u \in Threads \ {t} : pc'[u] = pc[u] /\ arg'[u] = arg[u]
      BY <1>t, <3>1 DEF Done, SendTypes
    <3>3. SendTypes'
      BY <1>t, <2>1, <3>1, <3>2 DEF Done, SendTypes
    <3>4. \A i \in Ids : requested'[i] = "repeat" =>
            periodicSends'[i] # "absent" \/ \E u \in Threads : pc'[u] = "record" /\ arg'[u].id = i
      <4> SUFFICES ASSUME NEW i \in Ids, requested[i] = "repeat", periodicSends[i] = "absent"
                   PROVE  \E u \in Threads : pc'[u] = "record" /\ arg'[u].id = i
        BY <2>1, <3>1
      <4>1. PICK u \in Threads : pc[u] = "record" /\ arg[u].id = i
        BY DEF SendInv
      <4> QED BY <2>1, <3>2, <4>1
    <3>5. \A h \in Handles \ late' : handles'[h] \in {"freed", "clean"} =>
            \A u \in Threads : ~In(u, h, {"send", "record"})'
      BY <2>1, <3>2 DEF SendInv, In
    <3>6. StoppedAfterClean'
      BY <2>1, <3>1 DEF SendInv, StoppedAfterClean
    <3> QED BY <2>1, <3>3, <3>4, <3>5, <3>6 DEF SendInv
  <2> QED BY <2>2, <2>3
<1>4. ASSUME NEW t \in Threads, Record(t) PROVE SendInv'
  <2>1. /\ pc[t] = "record" /\ arg[t].id \in Ids /\ Done(t)
        /\ periodicSends'[arg[t].id] # "absent"
        /\ \A i \in Ids \ {arg[t].id} : periodicSends'[i] = periodicSends[i]
        /\ UNCHANGED <<handles, requested, late, unstopped>>
    BY <1>4, <1>t DEF Record, SendTypes, canVars
  <2>2. pc'[t] = "idle" /\ \A u \in Threads \ {t} : pc'[u] = pc[u] /\ arg'[u] = arg[u]
    BY <1>t, <2>1 DEF Done, SendTypes
  <2>3. SendTypes'
    BY <1>4, <1>t, <2>1, <2>2 DEF Record, Done, SendTypes
  <2>4. \A i \in Ids : requested'[i] = "repeat" =>
          periodicSends'[i] # "absent" \/ \E u \in Threads : pc'[u] = "record" /\ arg'[u].id = i
    <3> SUFFICES ASSUME NEW i \in Ids, requested[i] = "repeat", i # arg[t].id, periodicSends[i] = "absent"
                 PROVE  \E u \in Threads : pc'[u] = "record" /\ arg'[u].id = i
      BY <2>1
    <3>1. PICK u \in Threads : pc[u] = "record" /\ arg[u].id = i
      BY DEF SendInv
    <3> QED BY <2>2, <3>1
  <2>5. \A h \in Handles \ late' : handles'[h] \in {"freed", "clean"} =>
          \A u \in Threads : ~In(u, h, {"send", "record"})'
    BY <2>1, <2>2 DEF SendInv, In
  <2>6. StoppedAfterClean'
    BY <2>1 DEF SendInv, StoppedAfterClean
  <2> QED BY <2>1, <2>3, <2>4, <2>5, <2>6 DEF SendInv
<1>5. ASSUME NEW h \in Handles, HAL_InitializeCAN(h) PROVE SendInv'
  <2>1. /\ handles' = [handles EXCEPT ![h] = "live"]
        /\ UNCHANGED <<pc, arg, periodicSends, requested, late, unstopped>>
    BY <1>5 DEF HAL_InitializeCAN, canVars
  <2>2. SendTypes'
    BY <1>t, <2>1 DEF SendTypes
  <2>3. \A g \in Handles : handles'[g] \in {"freed", "clean"} => handles'[g] = handles[g]
    BY <1>t, <2>1 DEF SendTypes
  <2>4. \A g \in Handles \ late' : handles'[g] \in {"freed", "clean"} =>
          \A u \in Threads : ~In(u, g, {"send", "record"})'
    BY <2>1, <2>3 DEF SendInv, In
  <2>5. StoppedAfterClean'
    BY <2>1, <2>3 DEF SendInv, StoppedAfterClean
  <2> QED BY <2>1, <2>2, <2>4, <2>5 DEF SendInv
<1>6. ASSUME NEW h \in Handles, HAL_CleanCAN(h) PROVE SendInv'
  <2>1. /\ handles[h] = "live" /\ handles' = [handles EXCEPT ![h] = "freed"]
        /\ late \subseteq late'
        /\ h \in late' \/ \A t \in Threads : ~In(t, h, {"send", "record"})
        /\ UNCHANGED <<pc, arg, periodicSends, requested, unstopped>>
    BY <1>6 DEF HAL_CleanCAN, canVars
  <2>2. SendTypes'
    BY <1>t, <2>1 DEF SendTypes
  <2>3. /\ \A g \in Handles \ {h} : handles'[g] = handles[g]
        /\ handles'[h] = "freed"
    BY <1>t, <2>1 DEF SendTypes
  <2>4. \A g \in Handles \ late' : handles'[g] \in {"freed", "clean"} =>
          \A u \in Threads : ~In(u, g, {"send", "record"})'
    BY <2>1, <2>3 DEF SendInv, In
  <2>5. StoppedAfterClean'
    BY <2>1, <2>3 DEF SendInv, StoppedAfterClean
  <2> QED BY <2>1, <2>2, <2>4, <2>5 DEF SendInv
<1>7. ASSUME NEW h \in Handles, StopAll(h) PROVE SendInv'
  <2> DEFINE stopped == {i \in Ids : IdOf(i) = h /\ Stops(i)}
  <2>1. PICK accepted \in Accepted(stopped) :
        /\ handles[h] = "freed" /\ handles' = [handles EXCEPT ![h] = "clean"]
        /\ periodicSends' = [i \in Ids |-> IF i \in stopped THEN "none" ELSE periodicSends[i]]
        /\ requested' = [i \in Ids |-> IF i \in accepted THEN "stop" ELSE requested[i]]
        /\ unstopped' = unstopped \cup (stopped \ accepted)
        /\ UNCHANGED <<pc, arg, late>>
    BY <1>7 DEF StopAll, canVars
  <2>2. SendTypes'
    BY <1>t, <2>1 DEF SendTypes
  <2>3. /\ \A g \in Handles \ {h} : handles'[g] = handles[g]
        /\ handles'[h] = "clean"
    BY <1>t, <2>1 DEF SendTypes
  <2>4. \A i \in Ids : /\ requested'[i] = "repeat" => requested[i] = "repeat"
                       /\ periodicSends'[i] = "absent" <=> periodicSends[i] = "absent"
    BY <2>1 DEF Stops
  <2>5. \A i \in Ids : requested'[i] = "repeat" =>
          periodicSends'[i] # "absent" \/ \E u \in Threads : pc'[u] = "record" /\ arg'[u].id = i
    BY <2>1, <2>4 DEF SendInv
  <2>6. \A g \in Handles \ late' : handles'[g] \in {"freed", "clean"} =>
          \A u \in Threads : ~In(u, g, {"send", "record"})'
    BY <2>1, <2>3 DEF SendInv, In
  <2>7. StoppedAfterClean'
    <3> SUFFICES ASSUME NEW i \in Ids, handles'[IdOf(i)] = "clean", IdOf(i) \notin late,
                        i \notin unstopped', requested'[i] = "repeat"
                 PROVE  FALSE
      BY <2>1 DEF StoppedAfterClean
    <3>1. CASE IdOf(i) # h
      BY <2>1, <2>3, <2>4, <3>1 DEF SendInv, StoppedAfterClean
    <3>2. CASE IdOf(i) = h
      <4>1. periodicSends[i] = "absent"
        BY <2>1, <3>2 DEF Stops
      <4>2. PICK u \in Threads : pc[u] = "record" /\ arg[u].id = i
        BY <2>4, <4>1 DEF SendInv
      <4> QED BY <2>1, <3>2, <4>2 DEF SendInv, In
    <3> QED BY <3>1, <3>2
  <2> QED BY <2>1, <2>2, <2>5, <2>6, <2>7 DEF SendInv
<1>8. ASSUME NEW t \in Threads, NEW id \in Ids, NEW op, NEW limit, BeginRead(t, id, op, limit) PROVE SendInv'
  <2>1. /\ pc[t] = "idle" /\ pc' = [pc EXCEPT ![t] = "store"]
        /\ \E f : arg' = [arg EXCEPT ![t] = [op |-> op, id |-> id, frame |-> f, limit |-> limit]]
        /\ UNCHANGED <<handles, periodicSends, requested, late, unstopped>>
    BY <1>8 DEF BeginRead
  <2>2. SendTypes'
    BY <1>t, <2>1 DEF SendTypes
  <2>3. \A u \in Threads, step \in {"send", "record"} :
          (pc'[u] = step <=> pc[u] = step) /\ (pc[u] = step => arg'[u] = arg[u])
    BY <1>t, <2>1 DEF SendTypes
  <2> QED BY <2>1, <2>2, <2>3, OtherThanWrite
<1>9. ASSUME NEW t \in Threads, Store(t) \/ Answers(t) PROVE SendInv'
  <2>1. pc[t] = "store" /\ Done(t) /\ UNCHANGED <<handles, periodicSends, requested, late, unstopped>>
    BY <1>9 DEF Store, Answers, canVars
  <2>2. SendTypes'
    BY <1>t, <2>1 DEF SendTypes, Done
  <2>3. \A u \in Threads, step \in {"send", "record"} :
          (pc'[u] = step <=> pc[u] = step) /\ (pc[u] = step => arg'[u] = arg[u])
    BY <1>t, <2>1 DEF SendTypes, Done
  <2> QED BY <2>1, <2>2, <2>3, OtherThanWrite
<1>10. ASSUME NEW t \in Threads, Call(t) PROVE SendInv'
  <2>1. CASE Send(t) \/ Record(t) \/ Store(t) \/ Answers(t)
    BY <2>1, <1>3, <1>4, <1>9
  <2>2. ASSUME NEW id \in Ids,
               \/ HAL_WriteCANPacket(t, id) \/ HAL_WriteCANPacketRepeating(t, id)
               \/ HAL_WriteCANRTRFrame(t, id) \/ HAL_StopCANPacketRepeating(t, id)
        PROVE  SendInv'
    BY <2>2, <1>2 DEF HAL_WriteCANPacket, HAL_WriteCANPacketRepeating, HAL_WriteCANRTRFrame, HAL_StopCANPacketRepeating
  <2>3. ASSUME NEW id \in Ids,
               \/ HAL_ReadCANPacketNew(t, id) \/ HAL_ReadCANPacketLatest(t, id)
               \/ \E limit \in Timeouts : HAL_ReadCANPacketTimeout(t, id, limit)
        PROVE  SendInv'
    BY <2>3, <1>8 DEF HAL_ReadCANPacketNew, HAL_ReadCANPacketLatest, HAL_ReadCANPacketTimeout
  <2> QED BY <1>10, <2>1, <2>2, <2>3 DEF Call
<1> QED BY <1>1, <1>5, <1>6, <1>7, <1>10 DEF Next

\* For any number of threads, handles and identifiers, and whichever frames the driver
\* refuses: once HAL_CleanCAN is over, no identifier of the handle is repeated, unless a
\* write was under way when it began or the driver refused to stop that identifier.
THEOREM CleanStops == Spec => []StoppedAfterClean
<1>1. SendInv => StoppedAfterClean
  BY DEF SendInv
<1> QED BY SendStart, SendStep, <1>1, PTL DEF Spec

-----------------------------------------------------------------------------
\* The CAN calls: what is received.
\* A set of numbers has a least one: what Min chooses is one of them.
LEMMA LeastOf == ASSUME NEW S, S \subseteq Nat, S # {} PROVE Min(S) \in S
<1> DEFINE R == {ss \in Nat \X Nat : ss[1] < ss[2]}
<1>1. R = OpToRel(<, Nat)
  BY Zenon DEF OpToRel
<1> HIDE DEF R
<1>2. PICK x \in S : \A y \in S : <<y, x>> \notin R
  BY <1>1, NatLessThanWellFounded, WFMin, Zenon
<1>3. ASSUME NEW y \in S PROVE x <= y
  <2>1. <<y, x>> \in Nat \X Nat /\ ~(y < x)
    BY <1>2 DEF R
  <2> QED BY <2>1
<1> QED BY <1>3 DEF Min

Entries == [frame : Frames, fresh : BOOLEAN]

FrameTypes ==
  /\ queue \in Seq(Frames) /\ received \in Seq(Entries)
  /\ arrived \in 0 .. MaxFrames /\ clock \in 0 .. MaxClock
  /\ taken \in [1 .. MaxFrames -> Nat]

\* What the sequences hold.
LEMMA FrameFacts ==
  ASSUME FrameTypes
  PROVE  /\ Len(queue) \in Nat /\ DOMAIN queue = 1 .. Len(queue)
         /\ \A i \in DOMAIN queue : queue[i] \in Frames /\ queue[i].n \in 1 .. MaxFrames
         /\ Len(received) \in Nat /\ DOMAIN received = 1 .. Len(received)
         /\ \A i \in DOMAIN received : received[i] \in Entries /\ received[i].frame.n \in 1 .. MaxFrames
<1>1. /\ Len(queue) \in Nat /\ DOMAIN queue = 1 .. Len(queue)
      /\ Len(received) \in Nat /\ DOMAIN received = 1 .. Len(received)
  BY LenProperties DEF FrameTypes
<1>2. ASSUME NEW i \in DOMAIN queue PROVE queue[i] \in Frames /\ queue[i].n \in 1 .. MaxFrames
  <2>1. queue[i] \in Frames
    BY <1>1, ElementOfSeq DEF FrameTypes
  <2> QED BY <2>1 DEF Frames
<1>3. ASSUME NEW i \in DOMAIN received PROVE received[i] \in Entries /\ received[i].frame.n \in 1 .. MaxFrames
  <2>1. received[i] \in Entries
    BY <1>1, ElementOfSeq DEF FrameTypes
  <2> QED BY <2>1 DEF Entries, Frames
<1> QED BY <1>1, <1>2, <1>3

\* A frame that waits, in the queue or unread, is alone with its number, ...
Apart(q, r) ==
  /\ \A i, j \in DOMAIN q : i # j => q[i].n # q[j].n
  /\ \A i, j \in DOMAIN r : i # j /\ r[i].fresh /\ r[j].fresh => r[i].frame.n # r[j].frame.n
  /\ \A i \in DOMAIN q, j \in DOMAIN r : r[j].fresh => q[i].n # r[j].frame.n

\* ... has arrived, and nobody was given it.
Untaken(q, r, a, k) ==
  /\ \A i \in DOMAIN q : q[i].n <= a /\ k[q[i].n] = 0
  /\ \A i \in DOMAIN r : r[i].fresh => r[i].frame.n <= a /\ k[r[i].frame.n] = 0
  /\ \A n \in 1 .. MaxFrames : n > a => k[n] = 0

FrameInv == FrameTypes /\ Apart(queue, received) /\ Untaken(queue, received, arrived, taken) /\ NewOnce

LEMMA FrameStart == Init => FrameInv
<1> SUFFICES ASSUME Init PROVE FrameInv
  OBVIOUS
<1>1. queue = <<>> /\ received = <<>> /\ arrived = 0 /\ clock = 0 /\ taken = [n \in 1 .. MaxFrames |-> 0]
  BY DEF Init, CANInit
<1>2. FrameTypes
  BY <1>1, CANAssumption DEF FrameTypes
<1> QED BY <1>1, <1>2 DEF FrameInv, Apart, Untaken, NewOnce

\* What is stored takes one place; the entries in the others are as they were.
LEMMA StoredIs ==
  ASSUME FrameTypes, NEW f \in Frames
  PROVE  \E k \in 1 .. Len(received) + 1 :
           /\ Stored(f) \in Seq(Entries) /\ k \in DOMAIN Stored(f)
           /\ Stored(f)[k] = [frame |-> f, fresh |-> TRUE]
           /\ \A i \in DOMAIN Stored(f) : i # k => i \in DOMAIN received /\ Stored(f)[i] = received[i]
<1> DEFINE r == Stored(f)
           entry == [frame |-> f, fresh |-> TRUE]
           found == {i \in DOMAIN received : SameKey(received[i].frame, f)}
<1>1. /\ received \in Seq(Entries) /\ DOMAIN received = 1 .. Len(received) /\ Len(received) \in Nat
      /\ \A i \in DOMAIN received : received[i] \in Entries
  BY FrameFacts DEF FrameTypes
<1>2. entry \in Entries
  BY DEF Entries
<1>3. CASE found = {}
  <2>1. r = Append(received, entry)
    BY <1>3 DEF Stored
  <2> HIDE DEF entry, r
  <2>2. r \in Seq(Entries) /\ Len(r) = Len(received) + 1 /\ DOMAIN r = 1 .. Len(received) + 1
        /\ r[Len(received) + 1] = entry
        /\ \A i \in 1 .. Len(received) : r[i] = received[i]
    BY <1>1, <1>2, <2>1, AppendProperties
  <2>3. \E k \in 1 .. Len(received) + 1 :
          /\ r \in Seq(Entries) /\ k \in DOMAIN r /\ r[k] = entry
          /\ \A i \in DOMAIN r : i # k => i \in DOMAIN received /\ r[i] = received[i]
    BY <1>1, <2>2
  <2> QED BY <2>3 DEF r, entry
<1>4. CASE found # {}
  <2>1. r = [received EXCEPT ![Min(found)] = entry]
    BY <1>4 DEF Stored
  <2>2. Min(found) \in DOMAIN received
    <3>1. found \subseteq DOMAIN received /\ found \subseteq Nat
      BY <1>1
    <3> HIDE DEF found
    <3> QED BY <1>4, <3>1, LeastOf
  <2> HIDE DEF r, entry, found
  <2>3. r \in Seq(Entries) /\ DOMAIN r = DOMAIN received
    BY <1>1, <1>2, <2>1, <2>2, ExceptSeq
  <2>4. \E k \in 1 .. Len(received) + 1 :
          /\ r \in Seq(Entries) /\ k \in DOMAIN r /\ r[k] = entry
          /\ \A i \in DOMAIN r : i # k => i \in DOMAIN received /\ r[i] = received[i]
    BY <1>1, <2>1, <2>2, <2>3
  <2> QED BY <2>4 DEF r, entry
<1> QED BY <1>3, <1>4

\* Storing a frame keeps the others apart.
LEMMA StoredApart ==
  ASSUME FrameInv, queue # <<>>
  PROVE  /\ Tail(queue) \in Seq(Frames) /\ Stored(Head(queue)) \in Seq(Entries)
         /\ Apart(Tail(queue), Stored(Head(queue)))
         /\ Untaken(Tail(queue), Stored(Head(queue)), arrived, taken)
<1> DEFINE f == Head(queue)
           q == Tail(queue)
           r == Stored(f)
           entry == [frame |-> f, fresh |-> TRUE]
<1>1. /\ q \in Seq(Frames) /\ f \in Frames /\ f = queue[1] /\ Len(queue) \in Nat /\ Len(queue) >= 1
      /\ DOMAIN queue = 1 .. Len(queue) /\ DOMAIN q = 1 .. Len(queue) - 1
      /\ \A i \in DOMAIN q : q[i] = queue[i + 1]
  BY HeadTailProperties DEF FrameInv, FrameTypes
<1>3. entry.frame = f /\ entry.fresh
  BY <1>1
<1>4. PICK k \in 1 .. Len(received) + 1 :
        /\ r \in Seq(Entries) /\ k \in DOMAIN r /\ r[k] = entry
        /\ \A i \in DOMAIN r : i # k => i \in DOMAIN received /\ r[i] = received[i]
  BY <1>1, StoredIs DEF FrameInv
<1> HIDE DEF r, f, q, entry
<1>5. Apart(q, r)
  <2>1. \A i, j \in DOMAIN q : i # j => q[i].n # q[j].n
    BY <1>1 DEF FrameInv, Apart
  <2>2. \A j \in DOMAIN received : received[j].fresh => received[j].frame.n # f.n
    BY <1>1 DEF FrameInv, Apart
  <2>3. \A i, j \in DOMAIN r : i # j /\ r[i].fresh /\ r[j].fresh => r[i].frame.n # r[j].frame.n
    <3> SUFFICES ASSUME NEW i \in DOMAIN r, NEW j \in DOMAIN r, i # j, r[i].fresh, r[j].fresh
                 PROVE  r[i].frame.n # r[j].frame.n
      OBVIOUS
    <3>1. CASE i = k
      BY <1>3, <1>4, <2>2, <3>1
    <3>2. CASE j = k
      BY <1>3, <1>4, <2>2, <3>2
    <3>3. CASE i # k /\ j # k
      BY <1>4, <3>3 DEF FrameInv, Apart
    <3> QED BY <3>1, <3>2, <3>3
  <2>4. \A i \in DOMAIN q, j \in DOMAIN r : r[j].fresh => q[i].n # r[j].frame.n
    <3> SUFFICES ASSUME NEW i \in DOMAIN q, NEW j \in DOMAIN r, r[j].fresh PROVE q[i].n # r[j].frame.n
      OBVIOUS
    <3>1. CASE j = k
      BY <1>1, <1>3, <1>4, <3>1 DEF FrameInv, Apart
    <3>2. CASE j # k
      BY <1>1, <1>4, <3>2 DEF FrameInv, Apart
    <3> QED BY <3>1, <3>2
  <2> QED BY <2>1, <2>3, <2>4 DEF Apart
<1>6. Untaken(q, r, arrived, taken)
  <2>1. \A i \in DOMAIN q : q[i].n <= arrived /\ taken[q[i].n] = 0
    BY <1>1 DEF FrameInv, Untaken
  <2>2. f.n <= arrived /\ taken[f.n] = 0
    BY <1>1 DEF FrameInv, Untaken
  <2>3. ASSUME NEW i \in DOMAIN r, r[i].fresh PROVE r[i].frame.n <= arrived /\ taken[r[i].frame.n] = 0
    <3>1. CASE i = k
      BY <1>3, <1>4, <2>2, <3>1
    <3>2. CASE i # k
      BY <1>4, <2>3, <3>2 DEF FrameInv, Untaken
    <3> QED BY <3>1, <3>2
  <2> QED BY <2>1, <2>3 DEF FrameInv, Untaken
<1> QED BY <1>1, <1>4, <1>5, <1>6 DEF r, f, q

LEMMA FrameStep == FrameInv /\ [Next]_vars => FrameInv'
<1> SUFFICES ASSUME FrameInv, [Next]_vars PROVE FrameInv'
  OBVIOUS
<1> USE CANAssumption
<1>1. ASSUME UNCHANGED <<queue, received, arrived, taken>>, clock' \in 0 .. MaxClock PROVE FrameInv'
  BY <1>1 DEF FrameInv, FrameTypes, NewOnce, Apart, Untaken
<1>c. clock \in 0 .. MaxClock /\ arrived \in 0 .. MaxFrames
  BY DEF FrameInv, FrameTypes
<1>2. ASSUME NEW id \in Ids, NEW flag \in Flags, Arrive(id, flag), UNCHANGED taken PROVE FrameInv'
  <2>0. PICK at \in Stamps(clock) :
          LET f == [id |-> id, flag |-> flag, n |-> arrived + 1, at |-> at, born |-> clock]
          IN  queue' = IF Len(queue) < QueueSize THEN Append(queue, f) ELSE queue
    BY <1>2 DEF Arrive
  <2> DEFINE f == [id |-> id, flag |-> flag, n |-> arrived + 1, at |-> at, born |-> clock]
  <2>1. CASE queue' = queue
    <3>1. arrived' = arrived + 1 /\ UNCHANGED <<queue, received, clock>> /\ arrived' \in 0 .. MaxFrames
      BY <1>2, <1>c, <2>1 DEF Arrive
    <3>2. Untaken(queue, received, arrived', taken)
      <4>1. /\ \A i \in DOMAIN queue : queue[i].n \in Nat
            /\ \A i \in DOMAIN received : received[i].frame.n \in Nat
        BY FrameFacts DEF FrameInv
      <4> QED BY <1>c, <3>1, <4>1 DEF FrameInv, Untaken
    <3> QED BY <1>2, <3>1, <3>2 DEF FrameInv, FrameTypes, NewOnce
  <2>2. CASE queue' = Append(queue, f)
    <3>1. /\ arrived' = arrived + 1 /\ UNCHANGED <<received, clock>>
          /\ arrived' \in 0 .. MaxFrames
      BY <1>2, <1>c DEF Arrive
    <3>f. at \in Nat
      BY <1>c
    <3>g. f \in Frames /\ f.n = arrived + 1
      BY <1>2, <1>c, <3>f DEF Arrive, Frames
    <3> HIDE DEF f
    <3>2. /\ queue' \in Seq(Frames) /\ Len(queue) \in Nat
          /\ DOMAIN queue' = 1 .. Len(queue) + 1 /\ DOMAIN queue = 1 .. Len(queue)
          /\ queue'[Len(queue) + 1] = f
          /\ \A i \in 1 .. Len(queue) : queue'[i] = queue[i]
      BY <2>2, <3>g, AppendProperties DEF FrameInv, FrameTypes
    <3>3. /\ \A i \in DOMAIN queue : queue[i].n \in Nat /\ queue[i].n <= arrived
          /\ \A i \in DOMAIN received : received[i].fresh => received[i].frame.n \in Nat /\ received[i].frame.n <= arrived
      BY FrameFacts DEF FrameInv, Untaken
    <3>4. Apart(queue', received)
      <4>1. \A i, j \in DOMAIN queue' : i # j => queue'[i].n # queue'[j].n
        <5> SUFFICES ASSUME NEW i \in DOMAIN queue', NEW j \in DOMAIN queue', i # j
                     PROVE  queue'[i].n # queue'[j].n
          OBVIOUS
        <5>1. CASE i = Len(queue) + 1
          <6>1. j \in DOMAIN queue
            BY <3>2, <5>1
          <6> QED BY <1>c, <3>1, <3>g, <3>2, <3>3, <5>1, <6>1
        <5>2. CASE j = Len(queue) + 1
          <6>1. i \in DOMAIN queue
            BY <3>2, <5>2
          <6> QED BY <1>c, <3>1, <3>g, <3>2, <3>3, <5>2, <6>1
        <5>3. CASE i # Len(queue) + 1 /\ j # Len(queue) + 1
          BY <3>2, <5>3 DEF FrameInv, Apart
        <5> QED BY <5>1, <5>2, <5>3
      <4>2. \A i \in DOMAIN queue', j \in DOMAIN received : received[j].fresh => queue'[i].n # received[j].frame.n
        <5> SUFFICES ASSUME NEW i \in DOMAIN queue', NEW j \in DOMAIN received, received[j].fresh
                     PROVE  queue'[i].n # received[j].frame.n
          OBVIOUS
        <5>1. CASE i = Len(queue) + 1
          BY <1>c, <3>1, <3>g, <3>2, <3>3, <5>1
        <5>2. CASE i # Len(queue) + 1
          BY <3>2, <5>2 DEF FrameInv, Apart
        <5> QED BY <5>1, <5>2
      <4> QED BY <4>1, <4>2 DEF FrameInv, Apart
    <3>5. Untaken(queue', received, arrived', taken)
      <4>1. taken[arrived + 1] = 0
        BY <1>c, <3>1 DEF FrameInv, Untaken
      <4>2. \A i \in DOMAIN queue' : queue'[i].n <= arrived + 1 /\ taken[queue'[i].n] = 0
        <5> SUFFICES ASSUME NEW i \in DOMAIN queue'
                     PROVE  queue'[i].n <= arrived + 1 /\ taken[queue'[i].n] = 0
          OBVIOUS
        <5>1. CASE i = Len(queue) + 1
          BY <1>c, <3>1, <3>g, <3>2, <4>1, <5>1
        <5>2. CASE i # Len(queue) + 1
          <6>1. i \in DOMAIN queue /\ queue'[i] = queue[i]
            BY <3>2, <5>2
          <6> QED BY <1>c, <3>3, <6>1 DEF FrameInv, Untaken
        <5> QED BY <5>1, <5>2
      <4> QED BY <1>c, <3>1, <3>3, <4>2 DEF FrameInv, Untaken
    <3> QED BY <1>2, <3>1, <3>2, <3>4, <3>5 DEF FrameInv, FrameTypes, NewOnce
  <2> QED BY <2>0, <2>1, <2>2
<1>3. ASSUME Read, UNCHANGED taken PROVE FrameInv'
  <2>1. CASE UNCHANGED <<queue, received>>
    BY <1>1, <1>3, <1>c, <2>1 DEF Read
  <2>2. CASE queue # <<>> /\ queue' = Tail(queue) /\ received' = Stored(Head(queue))
    <3>1. UNCHANGED <<arrived, clock>>
      BY <1>3 DEF Read
    <3> QED BY <1>3, <2>2, <3>1, StoredApart DEF FrameInv, FrameTypes, NewOnce
  <2> QED BY <1>3, <2>1, <2>2 DEF Read
<1>4. ASSUME NEW t \in Threads, NEW id \in Ids, NEW op, NEW limit, BeginRead(t, id, op, limit) PROVE FrameInv'
  <2>1. CASE Unread(id) = {}
    BY <1>1, <1>4, <1>c, <2>1 DEF BeginRead
  <2>2. CASE Unread(id) # {}
    <3> DEFINE k == Min(Unread(id))
    <3>1. /\ taken' = [taken EXCEPT ![received[k].frame.n] = @ + 1]
          /\ received' = [received EXCEPT ![k].fresh = FALSE]
          /\ UNCHANGED <<queue, arrived, clock>>
      BY <1>4, <2>2 DEF BeginRead, Answer, MarkRead
    <3>2. DOMAIN received = 1 .. Len(received) /\ Len(received) \in Nat
      BY FrameFacts DEF FrameInv
    <3>3. k \in DOMAIN received /\ received[k].fresh
      <4>1. k \in Unread(id)
        <5>1. Unread(id) \subseteq Nat
          BY <3>2 DEF Unread
        <5> QED BY <2>2, <5>1, LeastOf
      <4> QED BY <4>1 DEF Unread
    <3> HIDE DEF k
    <3>4. /\ \A i \in DOMAIN received : received[i] \in Entries
          /\ received[k].frame.n \in 1 .. MaxFrames
      BY <3>3, FrameFacts DEF FrameInv
    <3>5. /\ received' \in Seq(Entries) /\ DOMAIN received' = DOMAIN received
          /\ \A i \in DOMAIN received : received'[i].fresh => i # k /\ received'[i] = received[i]
      <4>1. [received[k] EXCEPT !.fresh = FALSE] \in Entries
        BY <3>3, <3>4 DEF Entries
      <4>2. received' = [received EXCEPT ![k] = [received[k] EXCEPT !.fresh = FALSE]]
        BY <3>1
      <4>3. received' \in Seq(Entries) /\ DOMAIN received' = DOMAIN received
        BY <3>3, <4>1, <4>2, ExceptSeq DEF FrameInv, FrameTypes
      <4>4. ~received'[k].fresh
        BY <3>3, <3>4, <4>2 DEF Entries
      <4> QED BY <4>2, <4>3, <4>4
    <3> DEFINE m == received[k].frame.n
    <3>6. taken[m] = 0 /\ taken'[m] = 1 /\ \A n \in 1 .. MaxFrames \ {m} : taken'[n] = taken[n]
      BY <3>1, <3>3, <3>4 DEF FrameInv, FrameTypes, Untaken
    <3>7. taken' \in [1 .. MaxFrames -> Nat]
      <4>1. taken' = [taken EXCEPT ![m] = taken[m] + 1] /\ m \in 1 .. MaxFrames
        BY <3>1, <3>4
      <4>2. taken \in [1 .. MaxFrames -> Nat]
        BY DEF FrameInv, FrameTypes
      <4> HIDE DEF m
      <4> QED BY <4>1, <4>2
    <3>8. Apart(queue, received')
      BY <3>5 DEF FrameInv, Apart
    <3>9. Untaken(queue, received', arrived, taken')
      <4>1. ASSUME NEW i \in DOMAIN queue PROVE queue[i].n <= arrived /\ taken'[queue[i].n] = 0
        <5>1. queue[i].n \in 1 .. MaxFrames \ {m}
          BY <3>3, FrameFacts DEF FrameInv, Apart
        <5> QED BY <3>6, <5>1 DEF FrameInv, Untaken
      <4>2. ASSUME NEW i \in DOMAIN received', received'[i].fresh
            PROVE  received'[i].frame.n <= arrived /\ taken'[received'[i].frame.n] = 0
        <5>1. i \in DOMAIN received /\ received'[i] = received[i] /\ i # k
          BY <3>5, <4>2
        <5>2. received[i].frame.n \in 1 .. MaxFrames
          BY <3>4, <5>1 DEF Entries, Frames
        <5>3. received[i].frame.n # m
          BY <3>3, <4>2, <5>1 DEF FrameInv, Apart
        <5> QED BY <3>6, <4>2, <5>1, <5>2, <5>3 DEF FrameInv, Untaken
      <4>3. ASSUME NEW n \in 1 .. MaxFrames, n > arrived PROVE taken'[n] = 0
        <5>1. m <= arrived
          BY <3>3 DEF FrameInv, Untaken
        <5>2. n # m
          BY <1>c, <3>4, <4>3, <5>1
        <5> QED BY <3>6, <4>3, <5>2 DEF FrameInv, Untaken
      <4> QED BY <4>1, <4>2, <4>3 DEF Untaken
    <3>10. NewOnce'
      BY <3>6 DEF FrameInv, NewOnce
    <3> QED BY <3>1, <3>5, <3>7, <3>8, <3>9, <3>10 DEF FrameInv, FrameTypes
  <2> QED BY <2>1, <2>2
<1>5. CASE CANNext /\ UNCHANGED apiVars
  <2>1. UNCHANGED taken
    BY <1>5 DEF apiVars
  <2>2. CASE InitializeCAN \/ Tick \/ Loop \/ Exit \/ Close
    BY <1>1, <1>c, <2>1, <2>2 DEF InitializeCAN, Tick, Loop, Exit, Close
  <2> QED BY <1>2, <1>3, <1>5, <2>1, <2>2 DEF CANNext
<1>6. ASSUME NEW t \in Threads, Call(t) PROVE FrameInv'
  <2>1. CASE Send(t) \/ Record(t) \/ Store(t) \/ Answers(t)
    BY <1>1, <1>c, <2>1 DEF Send, Record, Store, Answers, canVars
  <2>2. ASSUME NEW id \in Ids,
               \/ HAL_WriteCANPacket(t, id) \/ HAL_WriteCANPacketRepeating(t, id)
               \/ HAL_WriteCANRTRFrame(t, id) \/ HAL_StopCANPacketRepeating(t, id)
        PROVE  FrameInv'
    BY <1>1, <1>c, <2>2 DEF HAL_WriteCANPacket, HAL_WriteCANPacketRepeating, HAL_WriteCANRTRFrame,
                            HAL_StopCANPacketRepeating, BeginWrite, canVars
  <2>3. ASSUME NEW id \in Ids,
               \/ HAL_ReadCANPacketNew(t, id) \/ HAL_ReadCANPacketLatest(t, id)
               \/ \E limit \in Timeouts : HAL_ReadCANPacketTimeout(t, id, limit)
        PROVE  FrameInv'
    BY <2>3, <1>4 DEF HAL_ReadCANPacketNew, HAL_ReadCANPacketLatest, HAL_ReadCANPacketTimeout
  <2> QED BY <1>6, <2>1, <2>2, <2>3 DEF Call
<1>7. ASSUME NEW h \in Handles, HAL_InitializeCAN(h) \/ HAL_CleanCAN(h) \/ StopAll(h) PROVE FrameInv'
  BY <1>1, <1>7, <1>c DEF HAL_InitializeCAN, HAL_CleanCAN, StopAll, canVars
<1>8. CASE UNCHANGED vars
  BY <1>1, <1>8, <1>c DEF vars, canVars, apiVars
<1> QED BY <1>5, <1>6, <1>7, <1>8 DEF Next

\* For any number of threads, frames and identifiers, and any queue: a frame is answered
\* as new at most once.
THEOREM FramesAreNewOnce == Spec => []NewOnce
<1>1. FrameInv => NewOnce
  BY DEF FrameInv
<1> QED BY FrameStart, FrameStep, <1>1, PTL DEF Spec

\* A thread is about to store a data frame of an identifier.
Storing(t, id) ==
  /\ pc[t] = "store" /\ arg[t].id = id
  /\ arg[t].frame # NoFrame /\ arg[t].frame.flag = "data"

ReadTypes ==
  /\ DOMAIN pc = Threads /\ DOMAIN arg = Threads
  /\ DOMAIN receives = Ids \X Flags /\ DOMAIN newest = Ids
  /\ \A t \in Threads : pc[t] = "store" => arg[t].id \in Ids /\ (arg[t].frame = NoFrame \/ arg[t].frame \in Frames)

\* No frame comes from the future.
Ages ==
  /\ \A i \in DOMAIN queue : queue[i].born <= clock
  /\ \A i \in DOMAIN received : received[i].frame.born <= clock

NewestAge(id) == newest[id] # NoFrame => newest[id] \in Frames /\ newest[id].born <= clock

\* In a handle whose reads never overlapped, one thread at most is storing.
OneStores ==
  \A t, u \in Threads :
    pc[t] = "store" /\ pc[u] = "store" /\ IdOf(arg[t].id) = IdOf(arg[u].id) /\ IdOf(arg[t].id) \notin crossed
    => t = u

\* The store follows the last frame answered as new, as soon as who was given it has
\* stored it.
Follows(id) ==
  /\ (\A t \in Threads : ~Storing(t, id)) => receives[<<id, "data">>] = newest[id]
  /\ \A t \in Threads : Storing(t, id) => arg[t].frame = newest[id]

ReadInv ==
  /\ FrameTypes /\ ReadTypes /\ Ages /\ OneStores
  /\ \A id \in Ids : NewestAge(id)
  /\ \A id \in Ids : IdOf(id) \notin crossed => Follows(id)

LEMMA ReadStart == Init => ReadInv
<1> SUFFICES ASSUME Init PROVE ReadInv
  OBVIOUS
<1>1. FrameTypes
  BY FrameStart DEF FrameInv
<1>2. queue = <<>> /\ received = <<>> /\ \A t \in Threads : pc[t] = "idle"
  BY DEF Init, CANInit
<1>3. \A id \in Ids : newest[id] = NoFrame /\ receives[<<id, "data">>] = NoFrame
  BY CANAPIAssumption DEF Init
<1>4. ReadTypes
  BY <1>2 DEF Init, ReadTypes
<1>5. Ages /\ OneStores
  BY <1>2 DEF Ages, OneStores
<1>6. \A id \in Ids : NewestAge(id)
  BY <1>3 DEF NewestAge
<1>7. ASSUME NEW id \in Ids PROVE Follows(id)
  <2>1. \A t \in Threads : ~Storing(t, id)
    BY <1>2 DEF Storing
  <2> QED BY <1>3, <2>1 DEF Follows
<1> QED BY <1>1, <1>4, <1>5, <1>6, <1>7 DEF ReadInv

\* Time does not run backwards.
LEMMA LaterAge ==
  ASSUME ReadInv, clock' \in 0 .. MaxClock, clock' >= clock, UNCHANGED newest
  PROVE  \A id \in Ids : NewestAge(id)'
<1>1. clock \in Nat /\ clock' \in Nat
  BY CANAssumption DEF ReadInv, FrameTypes
<1>2. ASSUME NEW id \in Ids PROVE NewestAge(id)'
  <2>1. NewestAge(id)
    BY DEF ReadInv
  <2>2. \A f \in Frames : f.born \in 0 .. MaxClock
    BY DEF Frames
  <2> QED BY <1>1, <2>1, <2>2, CANAssumption DEF NewestAge
<1> QED BY <1>2

\* Steps that leave the calls that store alone.
LEMMA OtherThanRead ==
  ASSUME ReadInv, FrameTypes', ReadTypes', Ages', clock' >= clock,
         UNCHANGED <<receives, newest, crossed>>,
         \A t \in Threads : /\ pc'[t] = "store" <=> pc[t] = "store"
                            /\ pc[t] = "store" => arg'[t] = arg[t]
  PROVE  ReadInv'
<1>1. \A id \in Ids : NewestAge(id)'
  BY LaterAge DEF FrameTypes
<1>2. OneStores'
  BY DEF ReadInv, OneStores
<1>3. \A t \in Threads, id \in Ids : Storing(t, id)' <=> Storing(t, id)
  BY DEF Storing
<1>4. ASSUME NEW id \in Ids, Follows(id) PROVE Follows(id)'
  BY <1>3, <1>4 DEF Follows, Storing
<1> QED BY <1>1, <1>2, <1>4 DEF ReadInv

\* Frames in the sequences keep their ages.
LEMMA AgesStay ==
  ASSUME FrameTypes, Ages, clock' >= clock, clock' \in 0 .. MaxClock, UNCHANGED <<queue, received>>
  PROVE  Ages'
<1>1. /\ \A i \in DOMAIN queue : queue[i].born \in Nat
      /\ \A i \in DOMAIN received : received[i].frame.born \in Nat
  BY FrameFacts, CANAssumption DEF Frames, Entries
<1>2. clock \in Nat /\ clock' \in Nat
  BY CANAssumption DEF FrameTypes
<1> QED BY <1>1, <1>2 DEF Ages

\* Storing and answering: what was read goes to the place of its identifier.
LEMMA StoreStep ==
  ASSUME ReadInv, FrameTypes', Ages', NEW t \in Threads, Store(t) \/ Answers(t)
  PROVE  ReadInv'
<1>1. /\ pc[t] = "store" /\ arg[t].id \in Ids
      /\ pc' = [pc EXCEPT ![t] = "idle"] /\ arg' = [arg EXCEPT ![t] = Idle]
      /\ UNCHANGED <<newest, crossed, clock>>
  BY DEF ReadInv, ReadTypes, Store, Answers, Done, canVars
<1>2. pc'[t] = "idle" /\ \A u \in Threads \ {t} : pc'[u] = pc[u] /\ arg'[u] = arg[u]
  BY <1>1 DEF ReadInv, ReadTypes
<1>3. ReadTypes'
  <2>1. DOMAIN receives' = DOMAIN receives
    BY DEF Store, Answers
  <2> QED BY <1>1, <1>2, <2>1 DEF ReadInv, ReadTypes
<1>4. OneStores'
  BY <1>1, <1>2 DEF ReadInv, OneStores
<1>5. \A id \in Ids : NewestAge(id)'
  BY <1>1 DEF ReadInv, NewestAge
<1>6. ASSUME NEW id \in Ids, IdOf(id) \notin crossed PROVE Follows(id)'
  <2>1. /\ ~Storing(t, id)'
        /\ \A u \in Threads \ {t} : Storing(u, id)' <=> Storing(u, id)
    BY <1>2 DEF Storing
  <2>2. Follows(id)
    BY <1>6 DEF ReadInv
  <2>3. CASE Storing(t, id)
    <3>1. receives' = [receives EXCEPT ![<<id, "data">>] = arg[t].frame]
      BY <2>3 DEF Store, Answers, Storing
    <3>2. receives'[<<id, "data">>] = newest'[id]
      BY <1>1, <2>2, <2>3, <3>1, CANAPIAssumption DEF ReadInv, ReadTypes, Follows
    <3>3. \A u \in Threads : ~Storing(u, id)'
      <4>1. \A u \in Threads \ {t} : ~Storing(u, id)
        BY <1>1, <1>6, <2>3 DEF ReadInv, OneStores, Storing
      <4> QED BY <2>1, <4>1
    <3> QED BY <3>2, <3>3 DEF Follows
  <2>4. CASE ~Storing(t, id)
    <3>1. receives'[<<id, "data">>] = receives[<<id, "data">>]
      <4>1. CASE Answers(t)
        BY <4>1 DEF Answers
      <4>2. CASE Store(t)
        <5>1. /\ receives' = [receives EXCEPT ![<<arg[t].id, arg[t].frame.flag>>] = arg[t].frame]
              /\ <<arg[t].id, arg[t].frame.flag>> # <<id, "data">>
          BY <1>1, <2>4, <4>2 DEF Store, Storing
        <5>2. <<id, "data">> \in DOMAIN receives
          BY CANAPIAssumption DEF ReadInv, ReadTypes
        <5> QED BY <5>1, <5>2
      <4> QED BY <4>1, <4>2
    <3>2. ASSUME NEW u \in Threads, Storing(u, id)' PROVE arg'[u].frame = newest'[id]
      BY <1>1, <1>2, <2>1, <2>2, <3>2 DEF Follows
    <3>3. ASSUME \A u \in Threads : ~Storing(u, id)' PROVE receives'[<<id, "data">>] = newest'[id]
      BY <1>1, <2>1, <2>2, <2>4, <3>1, <3>3 DEF Follows
    <3> QED BY <3>2, <3>3 DEF Follows
  <2> QED BY <2>3, <2>4
<1> QED BY <1>1, <1>3, <1>4, <1>5, <1>6 DEF ReadInv

\* A read begins: overlapping another one of its handle, it crosses it.
LEMMA BeginReadStep ==
  ASSUME ReadInv, FrameTypes', NEW t \in Threads, NEW id \in Ids, NEW op, NEW limit, BeginRead(t, id, op, limit)
  PROVE  ReadInv'
<1> DEFINE k == Min(Unread(id))
           f == Answer(id)
<1> USE CANAPIAssumption
<1>1. /\ pc[t] = "idle" /\ pc'[t] = "store" /\ arg'[t].id = id
      /\ \A u \in Threads \ {t} : pc'[u] = pc[u] /\ arg'[u] = arg[u]
      /\ UNCHANGED <<queue, clock, receives>>
      /\ crossed' = IF \E u \in Threads : In(u, IdOf(id), {"store"}) THEN crossed \cup {IdOf(id)} ELSE crossed
  BY DEF BeginRead, ReadInv, ReadTypes
<1>2. Unread(id) # {} => /\ k \in DOMAIN received /\ f \in Frames /\ f.born <= clock
                         /\ f = received[k].frame
  <2> SUFFICES ASSUME Unread(id) # {} PROVE k \in DOMAIN received /\ f \in Frames /\ f.born <= clock /\ f = received[k].frame
    OBVIOUS
  <2>1. Unread(id) \subseteq Nat /\ Unread(id) \subseteq DOMAIN received
    BY FrameFacts DEF Unread, ReadInv
  <2>2. k \in DOMAIN received
    BY <2>1, LeastOf
  <2>3. f = received[k].frame
    BY DEF Answer
  <2> HIDE DEF k, f
  <2>4. received[k] \in Entries /\ received[k].frame.born <= clock
    BY <2>2, FrameFacts DEF ReadInv, Ages
  <2> QED BY <2>2, <2>3, <2>4 DEF Entries
<1>3. /\ arg'[t].frame = IF Unread(id) # {} THEN f ELSE NoFrame
      /\ newest' = IF Unread(id) # {} /\ f.flag = "data" THEN [newest EXCEPT ![id] = f] ELSE newest
  BY DEF BeginRead, ReadInv, ReadTypes
<1>4. ReadTypes'
  <2>1. DOMAIN pc' = Threads /\ DOMAIN arg' = Threads /\ DOMAIN receives' = Ids \X Flags /\ DOMAIN newest' = Ids
    BY <1>1, <1>3 DEF BeginRead, ReadInv, ReadTypes
  <2>2. ASSUME NEW u \in Threads, pc'[u] = "store"
        PROVE  arg'[u].id \in Ids /\ (arg'[u].frame = NoFrame \/ arg'[u].frame \in Frames)
    <3>1. CASE u = t
      BY <1>1, <1>2, <1>3, <3>1
    <3>2. CASE u # t
      BY <1>1, <2>2, <3>2 DEF ReadInv, ReadTypes
    <3> QED BY <3>1, <3>2
  <2> QED BY <2>1, <2>2 DEF ReadTypes
<1>5. Ages'
  <2>1. CASE Unread(id) = {}
    BY <1>1, <2>1 DEF BeginRead, ReadInv, Ages
  <2>2. CASE Unread(id) # {}
    <3>1. received' = [received EXCEPT ![k].fresh = FALSE]
      BY <2>2 DEF BeginRead, MarkRead
    <3>2. \A i \in DOMAIN received : received[i] \in Entries
      BY FrameFacts DEF ReadInv
    <3> HIDE DEF k
    <3>3. DOMAIN received' = DOMAIN received /\ \A i \in DOMAIN received : received'[i].frame = received[i].frame
      BY <1>2, <2>2, <3>1, <3>2 DEF Entries
    <3> QED BY <1>1, <3>3 DEF ReadInv, Ages
  <2> QED BY <2>1, <2>2
<1> HIDE DEF k, f
<1>6. OneStores'
  <2> SUFFICES ASSUME NEW u \in Threads, NEW v \in Threads, pc'[u] = "store", pc'[v] = "store",
                      IdOf(arg'[u].id) = IdOf(arg'[v].id), IdOf(arg'[u].id) \notin crossed', u # v
               PROVE  FALSE
    BY DEF OneStores
  <2>1. CASE u # t /\ v # t
    BY <1>1, <2>1 DEF ReadInv, OneStores
  <2>2. CASE u = t
    BY <1>1, <2>2 DEF In
  <2>3. CASE v = t
    BY <1>1, <2>3 DEF In
  <2> QED BY <2>1, <2>2, <2>3
<1>7. \A i \in Ids : NewestAge(i)'
  BY <1>1, <1>2, <1>3 DEF ReadInv, ReadTypes, NewestAge
<1>8. ASSUME NEW i \in Ids, IdOf(i) \notin crossed' PROVE Follows(i)'
  <2>1. Follows(i) /\ IdOf(i) \notin crossed
    BY <1>1, <1>8 DEF ReadInv
  <2>2. \A u \in Threads \ {t} : Storing(u, i)' <=> Storing(u, i)
    BY <1>1 DEF Storing
  <2>3. ~Storing(t, i)
    BY <1>1 DEF Storing
  <2>4. CASE i = id /\ Unread(id) # {} /\ f.flag = "data"
    <3>1. newest'[i] = f /\ arg'[t].frame = f /\ Storing(t, i)'
      BY <1>1, <1>2, <1>3, <2>4 DEF Storing, ReadInv, ReadTypes
    <3>2. \A u \in Threads \ {t} : ~Storing(u, i)
      BY <1>1, <1>8, <2>4 DEF Storing, In
    <3>3. \A u \in Threads : Storing(u, i)' => arg'[u].frame = newest'[i]
      BY <2>2, <3>1, <3>2
    <3> QED BY <3>1, <3>3 DEF Follows
  <2>5. CASE ~(i = id /\ Unread(id) # {} /\ f.flag = "data")
    <3>1. newest'[i] = newest[i] /\ ~Storing(t, i)'
      BY <1>1, <1>3, <2>5 DEF Storing, ReadInv, ReadTypes
    <3>2. \A u \in Threads : Storing(u, i)' <=> Storing(u, i)
      BY <2>2, <2>3, <3>1
    <3>3. \A u \in Threads : Storing(u, i)' => arg'[u].frame = newest'[i]
      BY <1>1, <2>1, <2>3, <3>1, <3>2 DEF Follows
    <3>4. (\A u \in Threads : ~Storing(u, i)') => receives'[<<i, "data">>] = newest'[i]
      BY <1>1, <2>1, <3>1, <3>2 DEF Follows
    <3> QED BY <3>3, <3>4 DEF Follows
  <2> QED BY <2>4, <2>5
<1> QED BY <1>4, <1>5, <1>6, <1>7, <1>8 DEF ReadInv

LEMMA ReadStep == ReadInv /\ FrameInv /\ FrameInv' /\ [Next]_vars => ReadInv'
<1> SUFFICES ASSUME ReadInv, FrameInv', [Next]_vars PROVE ReadInv'
  OBVIOUS
<1>1. FrameTypes /\ FrameTypes' /\ clock \in 0 .. MaxClock /\ clock' \in 0 .. MaxClock /\ clock \in Nat
  BY CANAssumption DEF ReadInv, FrameInv, FrameTypes
<1>2. ASSUME UNCHANGED <<queue, received, clock>> PROVE Ages' /\ clock' >= clock
  BY <1>1, <1>2 DEF ReadInv, Ages
<1>3. CASE CANNext /\ UNCHANGED apiVars
  <2>1. UNCHANGED <<receives, newest, crossed, pc, arg>> /\ ReadTypes'
    BY <1>3 DEF apiVars, ReadInv, ReadTypes
  <2>2. clock' >= clock
    <3>1. CASE Read
      BY <1>1, <3>1 DEF Read
    <3>2. CASE Tick
      BY <1>1, <3>2 DEF Tick
    <3>3. CASE InitializeCAN \/ Loop \/ Exit \/ Close
      BY <1>1, <3>3 DEF InitializeCAN, Loop, Exit, Close
    <3>4. ASSUME NEW id \in Ids, NEW flag \in Flags, Arrive(id, flag) PROVE clock' >= clock
      BY <1>1, <3>4 DEF Arrive
    <3> QED BY <1>3, <3>1, <3>2, <3>3, <3>4 DEF CANNext
  <2>3. CASE UNCHANGED <<queue, received>>
    BY <1>1, <2>1, <2>2, <2>3, AgesStay, OtherThanRead DEF ReadInv
  <2>4. ASSUME NEW id \in Ids, NEW flag \in Flags, Arrive(id, flag) PROVE ReadInv'
    <3>0. PICK at \in Stamps(clock) :
            LET f == [id |-> id, flag |-> flag, n |-> arrived + 1, at |-> at, born |-> clock]
            IN  queue' = IF Len(queue) < QueueSize THEN Append(queue, f) ELSE queue
      BY <2>4 DEF Arrive
    <3> DEFINE f == [id |-> id, flag |-> flag, n |-> arrived + 1, at |-> at, born |-> clock]
    <3>1. CASE queue' = queue
      BY <2>3, <2>4, <3>1 DEF Arrive
    <3>2. CASE queue' = Append(queue, f)
      <4>1. arrived + 1 \in 1 .. MaxFrames
        BY <2>4, CANAssumption DEF Arrive, ReadInv, FrameTypes
      <4>2. f \in Frames /\ f.born = clock
        BY <1>1, <4>1, CANAssumption DEF Frames
      <4> HIDE DEF f
      <4>3. /\ Len(queue) \in Nat /\ DOMAIN queue' = 1 .. Len(queue) + 1 /\ DOMAIN queue = 1 .. Len(queue)
            /\ queue'[Len(queue) + 1] = f
            /\ \A i \in 1 .. Len(queue) : queue'[i] = queue[i]
        BY <3>2, <4>2, AppendProperties DEF ReadInv, FrameTypes
      <4>4. UNCHANGED <<received, clock>>
        BY <2>4 DEF Arrive
      <4>5. ASSUME NEW i \in DOMAIN queue' PROVE queue'[i].born <= clock
        <5>1. CASE i = Len(queue) + 1
          BY <1>1, <4>2, <4>3, <5>1
        <5>2. CASE i # Len(queue) + 1
          BY <4>3, <5>2 DEF ReadInv, Ages
        <5> QED BY <5>1, <5>2
      <4>6. Ages'
        BY <4>4, <4>5 DEF ReadInv, Ages
      <4> QED BY <1>1, <2>1, <2>2, <4>6, OtherThanRead
    <3> QED BY <3>0, <3>1, <3>2
  <2>5. CASE Read /\ queue # <<>> /\ queue' = Tail(queue) /\ received' = Stored(Head(queue))
    <3> DEFINE f == Head(queue)
               r == Stored(f)
               entry == [frame |-> f, fresh |-> TRUE]
    <3>1. /\ Head(queue) \in Frames /\ Head(queue) = queue[1] /\ Len(queue) \in Nat /\ Len(queue) >= 1
          /\ DOMAIN queue = 1 .. Len(queue) /\ DOMAIN Tail(queue) = 1 .. Len(queue) - 1
          /\ \A i \in DOMAIN Tail(queue) : Tail(queue)[i] = queue[i + 1]
      BY <2>5, HeadTailProperties DEF ReadInv, FrameTypes
    <3>2. PICK k \in 1 .. Len(received) + 1 :
            /\ k \in DOMAIN r /\ r[k] = entry
            /\ \A i \in DOMAIN r : i # k => i \in DOMAIN received /\ r[i] = received[i]
      BY <1>1, <3>1, StoredIs
    <3>3. entry.frame = f /\ f.born <= clock
      BY <3>1 DEF ReadInv, Ages
    <3>4. UNCHANGED clock
      BY <2>5 DEF Read
    <3>5. \A i \in DOMAIN queue' : queue'[i].born <= clock
      BY <2>5, <3>1 DEF ReadInv, Ages
    <3> HIDE DEF r, f, entry
    <3>6. \A i \in DOMAIN r : r[i].frame.born <= clock
      BY <3>2, <3>3 DEF ReadInv, Ages
    <3>7. Ages'
      BY <2>5, <3>4, <3>5, <3>6 DEF Ages, r, f
    <3> QED BY <1>1, <2>1, <2>2, <3>7, OtherThanRead
  <2>6. CASE InitializeCAN \/ Tick \/ Loop \/ Exit \/ Close
    BY <2>3, <2>6 DEF InitializeCAN, Tick, Loop, Exit, Close
  <2> QED BY <1>3, <2>3, <2>4, <2>5, <2>6 DEF CANNext, Read
<1>4. ASSUME NEW t \in Threads, Call(t) PROVE ReadInv'
  <2>1. CASE Store(t) \/ Answers(t)
    <3>1. UNCHANGED <<queue, received, clock>>
      BY <2>1 DEF Store, Answers, canVars
    <3> QED BY <1>1, <1>2, <2>1, <3>1, StoreStep
  <2>2. CASE Send(t) \/ Record(t)
    <3>1. /\ UNCHANGED <<queue, received, clock, receives, newest, crossed>>
          /\ DOMAIN pc' = Threads /\ DOMAIN arg' = Threads
          /\ \A u \in Threads : /\ pc'[u] = "store" <=> pc[u] = "store"
                                /\ pc[u] = "store" => arg'[u] = arg[u]
      BY <2>2 DEF Send, Record, Done, canVars, ReadInv, ReadTypes
    <3>2. ReadTypes'
      BY <3>1 DEF ReadInv, ReadTypes
    <3> QED BY <1>1, <1>2, <3>1, <3>2, OtherThanRead
  <2>3. ASSUME NEW id \in Ids,
               \/ HAL_WriteCANPacket(t, id) \/ HAL_WriteCANPacketRepeating(t, id)
               \/ HAL_WriteCANRTRFrame(t, id) \/ HAL_StopCANPacketRepeating(t, id)
        PROVE  ReadInv'
    <3>1. PICK op : BeginWrite(t, id, op)
      BY <2>3 DEF HAL_WriteCANPacket, HAL_WriteCANPacketRepeating, HAL_WriteCANRTRFrame,
                  HAL_StopCANPacketRepeating
    <3>2. /\ UNCHANGED <<queue, received, clock, receives, newest, crossed>>
          /\ DOMAIN pc' = Threads /\ DOMAIN arg' = Threads
          /\ \A u \in Threads : /\ pc'[u] = "store" <=> pc[u] = "store"
                                /\ pc[u] = "store" => arg'[u] = arg[u]
      BY <3>1 DEF BeginWrite, canVars, ReadInv, ReadTypes
    <3>3. ReadTypes'
      BY <3>2 DEF ReadInv, ReadTypes
    <3> QED BY <1>1, <1>2, <3>2, <3>3, OtherThanRead
  <2>4. ASSUME NEW id \in Ids,
               \/ HAL_ReadCANPacketNew(t, id) \/ HAL_ReadCANPacketLatest(t, id)
               \/ \E limit \in Timeouts : HAL_ReadCANPacketTimeout(t, id, limit)
        PROVE  ReadInv'
    BY <1>1, <2>4, BeginReadStep DEF HAL_ReadCANPacketNew, HAL_ReadCANPacketLatest, HAL_ReadCANPacketTimeout
  <2> QED BY <1>4, <2>1, <2>2, <2>3, <2>4 DEF Call
<1>5. ASSUME \/ UNCHANGED vars
             \/ \E h \in Handles : HAL_InitializeCAN(h) \/ HAL_CleanCAN(h) \/ StopAll(h)
      PROVE  ReadInv'
  <2>1. UNCHANGED <<queue, received, clock, receives, newest, crossed, pc, arg>>
    BY <1>5 DEF vars, apiVars, canVars, HAL_InitializeCAN, HAL_CleanCAN, StopAll
  <2>2. ReadTypes'
    BY <2>1 DEF ReadInv, ReadTypes
  <2> QED BY <1>1, <1>2, <2>1, <2>2, OtherThanRead
<1> QED BY <1>3, <1>4, <1>5 DEF Next

\* What a read without a new frame answers: its thread stores nothing, so nobody does,
\* and the store follows the newest frame.
LEMMA AnswerOfNewest ==
  ASSUME ReadInv, NEW t \in Threads, Answers(t), IdOf(arg[t].id) \notin crossed, arg[t].op # "new"
  PROVE  LET f == newest[arg[t].id] IN
         /\ Verdict(t) = "missing" <=> f = NoFrame
         /\ f # NoFrame /\ f.at = f.born /\ clock - f.born < Wrap =>
              (Verdict(t) = "timeout" <=> arg[t].op = "timeout" /\ clock - f.born > arg[t].limit)
<1> DEFINE id == arg[t].id
           f == newest[id]
<1>1. pc[t] = "store" /\ arg[t].frame = NoFrame /\ id \in Ids
  BY DEF Answers, ReadInv, ReadTypes
<1>2. \A u \in Threads : ~Storing(u, id)
  BY <1>1 DEF Storing, ReadInv, OneStores
<1>3. Cached(id) = f
  BY <1>1, <1>2 DEF Cached, ReadInv, Follows
<1>4. Verdict(t) = IF f = NoFrame THEN "missing"
                   ELSE IF arg[t].op = "timeout" /\ TooOld(f, arg[t].limit) THEN "timeout" ELSE "cached"
  BY <1>3 DEF Verdict
<1>5. ASSUME f # NoFrame, f.at = f.born, clock - f.born < Wrap
      PROVE  TooOld(f, arg[t].limit) <=> clock - f.born > arg[t].limit
  <2>1. f \in Frames /\ f.born <= clock
    BY <1>1, <1>5 DEF ReadInv, NewestAge
  <2>2. f.at \in Nat /\ f.born \in Nat /\ clock \in Nat
    BY <2>1, CANAssumption DEF Frames, ReadInv, FrameTypes
  <2> HIDE DEF f
  <2>3. clock - f.at \in 0 .. Wrap - 1
    BY <1>5, <2>1, <2>2, CANAPIAssumption
  <2>4. (clock - f.at) % Wrap = clock - f.at
    BY <2>3, CANAPIAssumption
  <2> QED BY <1>5, <2>4 DEF TooOld
<1> QED BY <1>4, <1>5

\* For any number of threads, frames and identifiers, and any width of the clock: in a
\* handle whose reads never overlapped, a read without a new frame is judged on the
\* newest one, by its true age if the driver stamps frames with the same clock.
THEOREM VerdictsAreOfNewest == Spec => VerdictOfNewest
<1>1. ReadInv /\ [Next]_vars =>
        [\A t \in Threads :
           Answers(t) /\ IdOf(arg[t].id) \notin crossed /\ arg[t].op # "new" =>
             LET f == newest[arg[t].id] IN
             /\ Verdict(t) = "missing" <=> f = NoFrame
             /\ f # NoFrame /\ f.at = f.born /\ clock - f.born < Wrap =>
                  (Verdict(t) = "timeout" <=> arg[t].op = "timeout" /\ clock - f.born > arg[t].limit)]_vars
  BY AnswerOfNewest
<1> QED BY FrameStart, FrameStep, ReadStart, ReadStep, <1>1, PTL DEF Spec, VerdictOfNewest
=============================================================================
