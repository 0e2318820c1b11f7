-------------------------- MODULE SerialPortProofs --------------------------
(***************************************************************************)
(* For any number of threads, ports, files and objects: unless a port is   *)
(* closed while another call opens, uses or closes it, calls use their own *)
(* file and no file is leaked.  For any number of USB devices: a port      *)
(* keeps the name it was given.                                            *)
(***************************************************************************)
EXTENDS SerialPort, SerialHelper, FiniteSetTheorems, SequenceTheorems, WellFoundedInduction,
        NaturalsInduction, TLAPS

SerialSpec == SerialInit /\ [][SerialNext]_serialVars

Calls == [port : SerialPorts \cup {0}, object : 0 .. MaxOpens, fd : Files \cup {0}]

SerialTypes ==
  /\ object \in [SerialPorts -> 0 .. MaxOpens] /\ opens \in 0 .. MaxOpens
  /\ portId \in [SerialObjects -> Files \cup {0}]
  /\ file \in [Files -> 0 .. MaxOpens]
  /\ serialPc \in [Threads -> {"idle", "open", "setup", "transfer", "free", "close"}]
  /\ arg \in [Threads -> [port : SerialPorts \cup {0}, object : 0 .. MaxOpens, fd : Files \cup {0}]]

\* Objects are made once, and a file is the one its object has the number of.
TableInv ==
  /\ \A p \in SerialPorts : object[p] <= opens
  /\ \A p, q \in SerialPorts : object[p] = object[q] /\ object[p] # 0 => p = q
  /\ \A o \in SerialObjects : o > opens => portId[o] = 0
  /\ \A f \in Files : file[f] # 0 => portId[file[f]] = f

\* A call that has an object finds it at its port until it has freed it, and its file is
\* the object's; one that opens or closes an object is alone with it.
CallInv(t) ==
  LET o == arg[t].object
  IN  /\ o <= opens
      /\ serialPc[t] = "idle" => o = 0
      /\ serialPc[t] \notin {"idle", "free"} => o # 0
      /\ serialPc[t] # "idle" => arg[t].port \in SerialPorts
      /\ o # 0 /\ serialPc[t] # "close" => object[arg[t].port] = o
      /\ o # 0 /\ serialPc[t] # "transfer" => \A u \in Threads : arg[u].object = o => u = t
      /\ serialPc[t] = "open" => portId[o] = 0
      /\ o # 0 /\ serialPc[t] # "open" =>
           arg[t].fd = portId[o] /\ arg[t].fd \in Files /\ file[arg[t].fd] = o
      /\ serialPc[t] = "close" => \A p \in SerialPorts : object[p] # o
CallsInv == \A t \in Threads : CallInv(t)

\* An object in the table has its file, or is about to get it.
HasFile(p) ==
  \/ \E t \in Threads : serialPc[t] = "open" /\ arg[t].object = object[p]
  \/ portId[object[p]] \in Files /\ file[portId[object[p]]] = object[p]
OpenInv == \A p \in SerialPorts : object[p] # 0 => HasFile(p)

\* A file whose handle is gone is about to be closed.
Kept(f) ==
  \/ \E p \in SerialPorts : object[p] = file[f]
  \/ \E t \in Threads : serialPc[t] = "close" /\ arg[t].object = file[f] /\ arg[t].fd = f
KeptInv == \A f \in Files : file[f] # 0 => Kept(f)

FilesInv == SerialTypes /\ TableInv /\ CallsInv /\ OpenInv /\ KeptInv

LEMMA FilesStart == SerialInit => FilesInv
<1> SUFFICES ASSUME SerialInit PROVE FilesInv
  OBVIOUS
<1>1. SerialTypes
  BY SerialAssumption DEF SerialInit, SerialTypes, NoCall, Call, SerialObjects
<1>2. \A t \in Threads : serialPc[t] = "idle" /\ arg[t].object = 0
  <2>1. \A t \in Threads : serialPc[t] = "idle" /\ arg[t] = NoCall
    BY DEF SerialInit
  <2>2. NoCall.object = 0
    BY DEF NoCall, Call
  <2> QED BY <2>1, <2>2
<1>3. (\A p \in SerialPorts : object[p] = 0) /\ opens = 0
  BY DEF SerialInit
<1>4. (\A f \in Files : file[f] = 0) /\ (\A o \in SerialObjects : portId[o] = 0)
  BY DEF SerialInit
<1> QED BY <1>1, <1>2, <1>3, <1>4 DEF FilesInv, TableInv, CallsInv, CallInv, OpenInv, KeptInv

LEMMA NoCallIsCall == NoCall \in Calls /\ 0 \in 0 .. MaxOpens
BY SerialAssumption DEF NoCall, Call, Calls

\* What a call that does nothing keeps when another does something.
LEMMA CallSame ==
  ASSUME NEW u \in Threads, CallInv(u), serialPc'[u] = serialPc[u], arg'[u] = arg[u],
         arg[u].object <= opens',
         arg[u].object # 0 =>
           /\ serialPc[u] # "close" => object'[arg[u].port] = arg[u].object
           /\ serialPc[u] # "transfer" => \A v \in Threads : arg'[v].object = arg[u].object => v = u
           /\ serialPc[u] = "close" => \A p \in SerialPorts : object'[p] # arg[u].object
           /\ portId'[arg[u].object] = portId[arg[u].object]
           /\ serialPc[u] # "open" => file'[arg[u].fd] = arg[u].object
  PROVE  CallInv(u)'
BY DEF CallInv

LEMMA HasFileSame ==
  ASSUME NEW t \in Threads, NEW q \in SerialPorts, HasFile(q), object'[q] = object[q],
         \A u \in Threads \ {t} : serialPc'[u] = serialPc[u] /\ arg'[u] = arg[u],
         serialPc[t] # "open" \/ arg[t].object # object[q],
         portId'[object[q]] = portId[object[q]],
         portId[object[q]] \in Files => file'[portId[object[q]]] = file[portId[object[q]]]
  PROVE  HasFile(q)'
BY DEF HasFile

LEMMA KeptSame ==
  ASSUME NEW t \in Threads, NEW f \in Files, Kept(f), file'[f] = file[f],
         \A u \in Threads \ {t} : serialPc'[u] = serialPc[u] /\ arg'[u] = arg[u],
         serialPc[t] # "close" \/ arg[t].object # file[f] \/ arg[t].fd # f,
         \A q \in SerialPorts : object[q] = file[f] => object'[q] = object[q]
  PROVE  Kept(f)'
BY DEF Kept

\* A call returns, or goes on with what it has; nothing else changes.
LEMMA CallGoesOn ==
  ASSUME FilesInv, NEW t \in Threads, serialPc[t] \in {"setup", "transfer", "free"},
         UNCHANGED <<object, opens, portId, file>>,
         SerialReturn(t) \/ UNCHANGED <<serialPc, arg>>
  PROVE  FilesInv'
<1> USE SerialAssumption DEF FilesInv, SerialTypes, SerialReturn, SerialGoto, NoCall, Call, SerialObjects
<1>1. CASE UNCHANGED <<serialPc, arg>>
  <2>1. SerialTypes' /\ TableInv'
    BY <1>1 DEF TableInv
  <2>2. CallsInv'
    BY <1>1 DEF CallsInv, CallInv
  <2>3. OpenInv' /\ KeptInv'
    BY <1>1 DEF OpenInv, HasFile, KeptInv, Kept
  <2> QED BY <2>1, <2>2, <2>3
<1>2. CASE SerialReturn(t)
  <2>1. SerialTypes'
    BY <1>2
  <2>2. /\ serialPc'[t] = "idle" /\ arg'[t].object = 0
        /\ \A u \in Threads \ {t} : serialPc'[u] = serialPc[u] /\ arg'[u] = arg[u]
    BY <1>2
  <2>3. TableInv'
    BY DEF TableInv
  <2>4. ASSUME NEW u \in Threads PROVE CallInv(u)'
    <3>1. CallInv(u)
      BY DEF CallsInv
    <3>2. CASE u = t
      BY <2>2, <3>2 DEF CallInv
    <3>3. CASE u # t
      <4>1. \A v \in Threads : arg'[v].object = arg[u].object /\ arg[u].object # 0 => arg[v].object = arg[u].object
        BY <2>2
      <4> HIDE DEF SerialTypes, FilesInv, SerialReturn, SerialObjects
      <4> QED BY <2>2, <3>1, <3>3, <4>1, CallSame DEF CallInv
    <3> QED BY <3>2, <3>3
  <2>5. OpenInv'
    <3> SUFFICES ASSUME NEW q \in SerialPorts, object[q] # 0 PROVE HasFile(q)'
      BY DEF OpenInv
    <3> QED BY <2>2, HasFileSame DEF OpenInv
  <2>6. KeptInv'
    <3> SUFFICES ASSUME NEW f \in Files, file[f] # 0 PROVE Kept(f)'
      BY DEF KeptInv
    <3> QED BY <2>2, KeptSame DEF KeptInv
  <2> QED BY <2>1, <2>3, <2>4, <2>5, <2>6 DEF CallsInv
<1> QED BY <1>1, <1>2

LEMMA AllocateStep ==
  ASSUME FilesInv, NEW t \in Threads, NEW p \in SerialPorts, AllocateSerial(t, p)
  PROVE  FilesInv'
<1> USE SerialAssumption DEF FilesInv, SerialTypes, SerialGoto, Call, SerialObjects
<1>1. SerialTypes'
  BY DEF AllocateSerial
<1>2. /\ serialPc[t] = "idle" /\ serialPc'[t] = "open" /\ object[p] = 0 /\ opens + 1 \in SerialObjects
      /\ arg'[t] = Call(p, opens + 1, 0) /\ opens' = opens + 1 /\ UNCHANGED <<portId, file>>
      /\ \A u \in Threads \ {t} : serialPc'[u] = serialPc[u] /\ arg'[u] = arg[u]
      /\ \A q \in SerialPorts : object'[q] = IF q = p THEN opens + 1 ELSE object[q]
  BY DEF AllocateSerial
<1>3. \A u \in Threads \ {t} : arg'[u].object # opens + 1
  BY <1>2 DEF CallsInv, CallInv
<1>4. TableInv'
  <2>1. \A q \in SerialPorts : object'[q] <= opens'
    BY <1>2 DEF TableInv
  <2>2. \A q, r \in SerialPorts : object'[q] = object'[r] /\ object'[q] # 0 => q = r
    <3>1. \A q \in SerialPorts : object[q] # opens + 1
      BY DEF TableInv
    <3> QED BY <1>2, <3>1 DEF TableInv
  <2> QED BY <1>2, <2>1, <2>2 DEF TableInv
<1>5. CallInv(t)'
  <2>1. arg'[t].port = p /\ arg'[t].object = opens + 1
    BY <1>2
  <2>2. portId[opens + 1] = 0
    BY <1>2 DEF TableInv
  <2> QED BY <1>2, <1>3, <2>1, <2>2 DEF CallInv
<1>6. ASSUME NEW u \in Threads \ {t} PROVE CallInv(u)'
  <2>1. CallInv(u)
    BY DEF CallsInv
  <2>2. arg[u].object # 0 =>
          /\ serialPc[u] # "close" => object'[arg[u].port] = arg[u].object
          /\ serialPc[u] # "transfer" => \A v \in Threads : arg'[v].object = arg[u].object => v = u
          /\ serialPc[u] = "close" => \A q \in SerialPorts : object'[q] # arg[u].object
          /\ serialPc[u] # "open" => file'[arg[u].fd] = arg[u].object
    <3> SUFFICES ASSUME arg[u].object # 0
                 PROVE  /\ serialPc[u] # "close" => object'[arg[u].port] = arg[u].object
                        /\ serialPc[u] # "transfer" => \A v \in Threads : arg'[v].object = arg[u].object => v = u
                        /\ serialPc[u] = "close" => \A q \in SerialPorts : object'[q] # arg[u].object
                        /\ serialPc[u] # "open" => file'[arg[u].fd] = arg[u].object
      OBVIOUS
    <3>1. arg'[t].object = opens + 1 /\ arg[u].object <= opens /\ arg[u].port \in SerialPorts
      BY <1>2, <2>1 DEF CallInv
    <3>2. serialPc[u] # "close" => object'[arg[u].port] = arg[u].object
      BY <1>2, <2>1, <3>1 DEF CallInv
    <3>3. serialPc[u] # "transfer" => \A v \in Threads : arg'[v].object = arg[u].object => v = u
      <4>1. opens \in Nat /\ arg[u].object \in Nat
        OBVIOUS
      <4>2. \A v \in Threads : arg'[v].object = arg[u].object => arg[v].object = arg[u].object
        BY <1>2, <3>1, <4>1
      <4> HIDE DEF FilesInv, SerialTypes
      <4> QED BY <2>1, <4>2 DEF CallInv
    <3>4. serialPc[u] = "close" => \A q \in SerialPorts : object'[q] # arg[u].object
      BY <1>2, <2>1, <3>1 DEF CallInv
    <3> QED BY <1>2, <2>1, <3>2, <3>3, <3>4 DEF CallInv
  <2>3. arg[u].object <= opens'
    BY <1>2, <2>1 DEF CallInv
  <2> QED BY <1>2, <2>1, <2>2, <2>3, CallSame
<1>7. OpenInv'
  <2> SUFFICES ASSUME NEW q \in SerialPorts, object'[q] # 0 PROVE HasFile(q)'
    BY DEF OpenInv
  <2>1. CASE q = p
    BY <1>2, <2>1 DEF HasFile
  <2>2. CASE q # p
    <3>1. object'[q] = object[q] /\ HasFile(q)
      BY <1>2, <2>2 DEF OpenInv
    <3> QED BY <1>2, <3>1, HasFileSame
  <2> QED BY <2>1, <2>2
<1>8. KeptInv'
  <2> SUFFICES ASSUME NEW f \in Files, file[f] # 0 PROVE Kept(f)'
    BY <1>2 DEF KeptInv
  <2>1. \A q \in SerialPorts : object[q] = file[f] => object'[q] = object[q]
    BY <1>2
  <2>2. Kept(f)
    BY DEF KeptInv
  <2> QED BY <1>2, <2>1, <2>2, KeptSame
<1> QED BY <1>1, <1>4, <1>5, <1>6, <1>7, <1>8 DEF CallsInv

\* open() gives the object its file.
LEMMA OpenStep ==
  ASSUME FilesInv, NEW t \in Threads, NEW f \in Files, serialPc[t] = "open", file[f] = 0,
         portId' = [portId EXCEPT ![arg[t].object] = f], file' = [file EXCEPT ![f] = arg[t].object],
         SerialGoto(t, "setup"), arg' = [arg EXCEPT ![t].fd = f], UNCHANGED <<object, opens>>
  PROVE  FilesInv'
<1> DEFINE o == arg[t].object
<1> USE SerialAssumption DEF FilesInv, SerialTypes, SerialGoto, SerialObjects
<1>1. CallInv(t) /\ o # 0 /\ o \in SerialObjects /\ object[arg[t].port] = o /\ arg[t].port \in SerialPorts
  <2>1. CallInv(t) /\ o \in 0 .. MaxOpens
    BY DEF CallsInv
  <2>2. o # 0 /\ object[arg[t].port] = o /\ arg[t].port \in SerialPorts
    BY <2>1 DEF CallInv
  <2> QED BY <2>1, <2>2
<1>2. SerialTypes'
  <2>1. portId' \in [SerialObjects -> Files \cup {0}] /\ file' \in [Files -> 0 .. MaxOpens]
    BY <1>1
  <2>2. serialPc' \in [Threads -> {"idle", "open", "setup", "transfer", "free", "close"}]
    OBVIOUS
  <2>3. arg' \in [Threads -> Calls]
    <3>1. [arg[t] EXCEPT !.fd = f] \in Calls
      BY DEF Calls
    <3> QED BY <3>1 DEF Calls
  <2> QED BY <2>1, <2>2, <2>3 DEF Calls
<1>3. /\ serialPc'[t] = "setup" /\ arg'[t].fd = f /\ arg'[t].object = o /\ arg'[t].port = arg[t].port
      /\ \A u \in Threads \ {t} : serialPc'[u] = serialPc[u] /\ arg'[u] = arg[u]
      /\ \A x \in SerialObjects : portId'[x] = IF x = o THEN f ELSE portId[x]
      /\ \A g \in Files : file'[g] = IF g = f THEN o ELSE file[g]
  BY <1>1
<1>4. TableInv'
  BY <1>1, <1>3 DEF TableInv, CallInv
<1>5. CallInv(t)'
  BY <1>1, <1>3 DEF CallInv
<1>6. ASSUME NEW u \in Threads \ {t} PROVE CallInv(u)'
  <2>1. CallInv(u) /\ arg[u].object # o
    BY <1>1 DEF CallsInv, CallInv
  <2> QED BY <1>1, <1>3, <2>1 DEF CallInv
<1>7. OpenInv'
  <2> SUFFICES ASSUME NEW q \in SerialPorts, object[q] # 0 PROVE HasFile(q)'
    BY DEF OpenInv
  <2>1. CASE object[q] = o
    BY <1>1, <1>3, <2>1 DEF HasFile
  <2>2. CASE object[q] # o
    BY <1>1, <1>3, <2>2 DEF HasFile, OpenInv
  <2> QED BY <2>1, <2>2
<1>8. KeptInv'
  <2> SUFFICES ASSUME NEW g \in Files, file'[g] # 0 PROVE Kept(g)'
    BY DEF KeptInv
  <2>1. CASE g = f
    BY <1>1, <1>3, <2>1 DEF Kept
  <2>2. CASE g # f
    <3>1. file'[g] = file[g] /\ Kept(g)
      BY <1>3, <2>2 DEF KeptInv
    <3> QED BY <1>3, <3>1, KeptSame
  <2> QED BY <2>1, <2>2
<1> QED BY <1>2, <1>4, <1>5, <1>6, <1>7, <1>8 DEF CallsInv

\* A call that is alone with its object frees it, and goes on to close its file, has
\* none, or closes it at once.
LEMMA FreeStep ==
  ASSUME FilesInv, NEW t \in Threads, arg[t].object # 0, serialPc[t] \in {"open", "setup", "free"},
         UNCHANGED <<opens, portId>>, FreeSerial(arg[t].port),
         \/ serialPc[t] = "open" /\ SerialReturn(t) /\ UNCHANGED file
         \/ serialPc[t] = "setup" /\ SerialReturn(t) /\ file' = [file EXCEPT ![arg[t].fd] = 0]
         \/ serialPc[t] = "free" /\ SerialGoto(t, "close") /\ UNCHANGED <<arg, file>>
  PROVE  FilesInv'
<1> DEFINE o == arg[t].object
           p == arg[t].port
<1> USE SerialAssumption
    DEF FilesInv, SerialTypes, SerialGoto, SerialReturn, NoCall, Call, SerialObjects, FreeSerial
<1>1. CallInv(t) /\ o \in SerialObjects /\ object[p] = o /\ p \in SerialPorts
  BY DEF CallsInv, CallInv
<1>2. SerialTypes'
  <2>1. object' \in [SerialPorts -> 0 .. MaxOpens]
    BY NoCallIsCall
  <2>2. file' = file \/ file' = [file EXCEPT ![arg[t].fd] = 0]
    OBVIOUS
  <2>3. file' \in [Files -> 0 .. MaxOpens]
    BY <2>2, NoCallIsCall
  <2>4. serialPc' \in [Threads -> {"idle", "open", "setup", "transfer", "free", "close"}]
    OBVIOUS
  <2>5. arg' \in [Threads -> Calls]
    <3> HIDE DEF NoCall, Call
    <3> QED BY NoCallIsCall DEF Calls
  <2> QED BY <2>1, <2>3, <2>4, <2>5 DEF Calls
<1>3. /\ \A u \in Threads \ {t} : serialPc'[u] = serialPc[u] /\ arg'[u] = arg[u] /\ arg[u].object # o
      /\ \A q \in SerialPorts : object'[q] = IF q = p THEN 0 ELSE object[q]
      /\ \A q \in SerialPorts \ {p} : object[q] # o
  BY <1>1 DEF CallInv, TableInv
<1>4. \/ serialPc'[t] = "idle" /\ arg'[t].object = 0
      \/ serialPc'[t] = "close" /\ arg' = arg /\ file' = file /\ serialPc[t] = "free"
  OBVIOUS
<1>5. /\ \A f \in Files : file'[f] = file[f] \/ (file[f] = o /\ file'[f] = 0)
      /\ serialPc[t] = "setup" => file'[portId[o]] = 0 /\ portId[o] \in Files
  BY <1>1 DEF CallInv
<1>6. TableInv'
  BY <1>3, <1>5 DEF TableInv
<1>7. CallInv(t)'
  BY <1>1, <1>3, <1>4 DEF CallInv
<1>8. ASSUME NEW u \in Threads \ {t} PROVE CallInv(u)'
  <2>1. CallInv(u) /\ (arg[u].object # 0 /\ serialPc[u] # "close" => arg[u].port # p)
    BY <1>1, <1>3 DEF CallsInv, CallInv
  <2>2. arg[u].object # 0 /\ serialPc[u] # "open" => file'[arg[u].fd] = arg[u].object
    BY <1>3, <1>5, <2>1 DEF CallInv
  <2>3. \A v \in Threads : arg[u].object # 0 /\ arg'[v].object = arg[u].object => arg[v].object = arg[u].object
    BY <1>3, <1>4
  <2> QED BY <1>3, <1>4, <2>1, <2>2, <2>3 DEF CallInv
<1>9. OpenInv'
  <2> SUFFICES ASSUME NEW q \in SerialPorts, object'[q] # 0 PROVE HasFile(q)'
    BY DEF OpenInv
  <2>1. object'[q] = object[q] /\ object[q] # o /\ HasFile(q)
    BY <1>3 DEF OpenInv
  <2>2. portId[object[q]] \in Files /\ file[portId[object[q]]] = object[q] =>
          file'[portId[object[q]]] = object[q]
    BY <1>5, <2>1
  <2> HIDE DEF FilesInv, SerialTypes, SerialReturn
  <2> QED BY <1>3, <2>1, <2>2 DEF HasFile
<1>10. KeptInv'
  <2> SUFFICES ASSUME NEW f \in Files, file'[f] # 0 PROVE Kept(f)'
    BY DEF KeptInv
  <2>1. file'[f] = file[f] /\ Kept(f)
    BY <1>5 DEF KeptInv
  <2>2. CASE file[f] = o
    <3>1. portId[o] = f
      BY <2>1, <2>2, <1>1 DEF TableInv
    <3>2. serialPc[t] = "free"
      BY <1>1, <1>5, <2>1, <2>2, <3>1 DEF CallInv
    <3> QED BY <1>1, <1>4, <2>1, <2>2, <3>1, <3>2 DEF CallInv, Kept
  <2>3. CASE file[f] # o
    <3>1. CASE \E q \in SerialPorts : object[q] = file[f]
      BY <1>1, <1>3, <2>1, <2>3, <3>1 DEF Kept
    <3>2. CASE \E u \in Threads : serialPc[u] = "close" /\ arg[u].object = file[f] /\ arg[u].fd = f
      BY <1>3, <2>1, <2>3, <3>2 DEF Kept
    <3> QED BY <2>1, <3>1, <3>2 DEF Kept
  <2> QED BY <2>2, <2>3
<1> QED BY <1>2, <1>6, <1>7, <1>8, <1>9, <1>10 DEF CallsInv

LEMMA CloseStep ==
  ASSUME FilesInv, NEW t \in Threads, CloseSerial(t)
  PROVE  FilesInv'
<1> DEFINE o == arg[t].object
<1> USE SerialAssumption DEF FilesInv, SerialTypes, SerialGoto, SerialReturn, NoCall, Call, SerialObjects
<1>1. /\ CallInv(t) /\ o # 0 /\ o \in SerialObjects /\ arg[t].fd = portId[o] /\ arg[t].fd \in Files
      /\ \A p \in SerialPorts : object[p] # o
  BY DEF CloseSerial, CallsInv, CallInv
<1>2. SerialTypes'
  <2>1. file' \in [Files -> 0 .. MaxOpens] /\ UNCHANGED <<object, opens, portId>>
    BY NoCallIsCall DEF CloseSerial
  <2>2. serialPc' \in [Threads -> {"idle", "open", "setup", "transfer", "free", "close"}]
    BY DEF CloseSerial
  <2>3. arg' \in [Threads -> [port : SerialPorts \cup {0}, object : 0 .. MaxOpens, fd : Files \cup {0}]]
    BY DEF CloseSerial
  <2> QED BY <2>1, <2>2, <2>3
<1>3. /\ \A u \in Threads \ {t} : serialPc'[u] = serialPc[u] /\ arg'[u] = arg[u] /\ arg[u].object # o
      /\ serialPc'[t] = "idle" /\ arg'[t].object = 0 /\ UNCHANGED <<object, opens, portId>>
      /\ \A f \in Files : file'[f] = IF f = arg[t].fd THEN 0 ELSE file[f]
  BY <1>1 DEF CloseSerial, CallInv
<1>4. TableInv'
  BY <1>3 DEF TableInv
<1>5. CallInv(t)'
  BY <1>3 DEF CallInv
<1>6. ASSUME NEW u \in Threads \ {t} PROVE CallInv(u)'
  <2>1. CallInv(u)
    BY DEF CallsInv
  <2>2. arg[u].object # 0 /\ serialPc[u] # "open" => arg[u].fd # arg[t].fd
    BY <1>1, <1>3, <2>1 DEF CallInv
  <2>3. \A v \in Threads : arg[u].object # 0 /\ arg'[v].object = arg[u].object => arg[v].object = arg[u].object
    BY <1>3
  <2>4. arg[u].object # 0 /\ serialPc[u] # "open" => file'[arg[u].fd] = arg[u].object
    BY <1>3, <2>1, <2>2 DEF CallInv
  <2> HIDE DEF FilesInv, SerialTypes, SerialReturn
  <2> QED BY <1>3, <2>1, <2>3, <2>4, CallSame DEF CallInv
<1>7. OpenInv'
  <2> SUFFICES ASSUME NEW q \in SerialPorts, object[q] # 0 PROVE HasFile(q)'
    BY <1>3 DEF OpenInv
  <2> QED BY <1>1, <1>3 DEF OpenInv, HasFile, CallInv, CloseSerial
<1>8. KeptInv'
  <2> SUFFICES ASSUME NEW f \in Files, file'[f] # 0 PROVE Kept(f)'
    BY DEF KeptInv
  <2>1. file'[f] = file[f] /\ Kept(f) /\ arg[t].fd # f
    BY <1>3 DEF KeptInv
  <2> QED BY <1>3, <2>1, KeptSame
<1> QED BY <1>2, <1>4, <1>5, <1>6, <1>7, <1>8 DEF CallsInv

LEMMA GetStep ==
  ASSUME FilesInv, NEW t \in Threads, NEW p \in SerialPorts, NEW step \in {"transfer", "free"},
         SerialGet(t, p, step), ~raced'
  PROVE  FilesInv'
<1> DEFINE o == object[p]
<1> USE SerialAssumption DEF FilesInv, SerialTypes, SerialGoto, Call, SerialObjects
<1>1. o # 0 => /\ \A u \in Threads : arg[u].object = o => step # "free" /\ serialPc[u] = "transfer"
               /\ portId[o] \in Files /\ file[portId[o]] = o
  BY DEF SerialGet, Users, OpenInv, HasFile
<1>2. /\ serialPc[t] = "idle" /\ serialPc'[t] = step /\ (o # 0 \/ step = "free")
      /\ arg'[t] = Call(p, o, IF o = 0 THEN 0 ELSE portId[o]) /\ UNCHANGED <<object, opens, portId, file>>
      /\ \A u \in Threads \ {t} : serialPc'[u] = serialPc[u] /\ arg'[u] = arg[u]
  BY DEF SerialGet
<1>3. SerialTypes'
  BY <1>1 DEF SerialGet
<1>4. TableInv'
  BY <1>2 DEF TableInv
<1>5. CallInv(t)'
  BY <1>1, <1>2 DEF CallInv, TableInv
<1>6. ASSUME NEW u \in Threads \ {t} PROVE CallInv(u)'
  <2>1. CallInv(u)
    BY DEF CallsInv
  <2>2. \A v \in Threads : arg'[v].object = arg[u].object /\ arg[u].object # 0 =>
          \/ arg[v].object = arg[u].object
          \/ v = t /\ arg[u].object = o
    BY <1>2
  <2> HIDE DEF FilesInv, SerialTypes
  <2> QED BY <1>1, <1>2, <2>1, <2>2, CallSame DEF CallInv
<1>7. OpenInv'
  <2> SUFFICES ASSUME NEW q \in SerialPorts, object[q] # 0 PROVE HasFile(q)'
    BY <1>2 DEF OpenInv
  <2> QED BY <1>2, HasFileSame DEF OpenInv
<1>8. KeptInv'
  <2> SUFFICES ASSUME NEW f \in Files, file[f] # 0 PROVE Kept(f)'
    BY <1>2 DEF KeptInv
  <2> QED BY <1>2, KeptSame DEF KeptInv
<1> QED BY <1>3, <1>4, <1>5, <1>6, <1>7, <1>8 DEF CallsInv

\* A HAL_CloseSerial that got nothing empties a place that is empty.
LEMMA EmptyStep ==
  ASSUME FilesInv, NEW t \in Threads, FreeHandle(t), arg[t].object = 0, ~raced'
  PROVE  FilesInv'
<1> USE SerialAssumption DEF FilesInv, SerialTypes, SerialGoto, SerialReturn, NoCall, Call, SerialObjects
<1>1. /\ object[arg[t].port] = 0 /\ arg[t].port \in SerialPorts /\ serialPc[t] = "free"
  BY DEF FreeHandle, CallsInv, CallInv
<1>2. object' = object
  BY <1>1 DEF FreeHandle, FreeSerial
<1>3. SerialReturn(t) /\ UNCHANGED <<opens, portId, file>>
  BY DEF FreeHandle
<1> QED BY <1>1, <1>2, <1>3, CallGoesOn

LEMMA FilesStep == (~raced => FilesInv) /\ [SerialNext]_serialVars => (~raced' => FilesInv')
<1> SUFFICES ASSUME ~raced => FilesInv, [SerialNext]_serialVars, ~raced' PROVE FilesInv'
  OBVIOUS
<1>1. CASE UNCHANGED serialVars
  BY <1>1 DEF serialVars, FilesInv, SerialTypes, TableInv, CallsInv, CallInv, OpenInv, HasFile, KeptInv, Kept
<1>2. ASSUME NEW t \in Threads, NEW p \in SerialPorts, AllocateSerial(t, p) PROVE FilesInv'
  BY <1>2, AllocateStep DEF AllocateSerial
<1>3. ASSUME NEW t \in Threads, OpenSerial(t) PROVE FilesInv'
  <2>1. /\ serialPc[t] = "open" /\ FilesInv /\ arg[t].object # 0 /\ UNCHANGED opens
    BY <1>3 DEF OpenSerial, FilesInv, CallsInv, CallInv
  <2>2. CASE FreeSerial(arg[t].port) /\ SerialReturn(t) /\ UNCHANGED <<portId, file>>
    BY <2>1, <2>2, FreeStep
  <2>3. CASE ~(FreeSerial(arg[t].port) /\ SerialReturn(t) /\ UNCHANGED <<portId, file>>)
    BY <1>3, <2>1, <2>3, OpenStep DEF OpenSerial
  <2> QED BY <2>2, <2>3
<1>4. ASSUME NEW t \in Threads, Setup(t) PROVE FilesInv'
  <2>1. /\ serialPc[t] = "setup" /\ FilesInv /\ arg[t].object # 0 /\ UNCHANGED <<opens, portId>>
        /\ SerialReturn(t)
    BY <1>4 DEF Setup, FilesInv, CallsInv, CallInv
  <2>2. CASE UNCHANGED <<object, file>>
    BY <2>1, <2>2, CallGoesOn
  <2>3. CASE file' = [file EXCEPT ![arg[t].fd] = 0] /\ FreeSerial(arg[t].port)
    BY <2>1, <2>3, FreeStep
  <2> QED BY <1>4, <2>2, <2>3 DEF Setup
<1>5. ASSUME NEW t \in Threads, NEW p \in SerialPorts, NEW step \in {"transfer", "free"},
             SerialGet(t, p, step)
      PROVE  FilesInv'
  BY <1>5, GetStep DEF SerialGet
<1>6. ASSUME NEW t \in Threads, FreeHandle(t) PROVE FilesInv'
  <2>1. serialPc[t] = "free" /\ FilesInv /\ UNCHANGED <<opens, portId, file>> /\ FreeSerial(arg[t].port)
    BY <1>6 DEF FreeHandle
  <2>2. CASE arg[t].object = 0
    BY <1>6, <2>1, <2>2, EmptyStep
  <2>3. CASE arg[t].object # 0
    <3>1. SerialGoto(t, "close") /\ UNCHANGED arg
      BY <1>6, <2>3 DEF FreeHandle
    <3> QED BY <2>1, <2>3, <3>1, FreeStep
  <2> QED BY <2>2, <2>3
<1>7. ASSUME NEW t \in Threads, CloseSerial(t) PROVE FilesInv'
  BY <1>7, CloseStep DEF CloseSerial
<1>8. ASSUME NEW t \in Threads, TransferSerial(t) PROVE FilesInv'
  BY <1>8, CallGoesOn DEF TransferSerial
<1> QED BY <1>1, <1>2, <1>3, <1>4, <1>5, <1>6, <1>7, <1>8
        DEF SerialNext, SerialCall, UseSerial, HAL_ReadSerial, HAL_WriteSerial, HAL_FlushSerial,
            HAL_SetSerialBaudRate, HAL_SetSerialDataBits, HAL_SetSerialParity, HAL_SetSerialStopBits,
            HAL_SetSerialFlowControl, HAL_SetSerialTimeout, HAL_CloseSerial

\* Unless a port is closed while another call opens, uses or closes it, every open file
\* is that of a handle or of a call that will close it, on every error path of
\* HAL_InitializeSerialPortDirect.
THEOREM FilesAreNotLeaked == SerialSpec => []NoFileLeaked
<1>1. (~raced => FilesInv) => NoFileLeaked
  BY DEF FilesInv, KeptInv, Kept, NoFileLeaked
<1> QED BY FilesStart, FilesStep, <1>1, PTL DEF SerialSpec

\* Unless a port is closed while another call opens, uses or closes it, a call reads,
\* writes, sets and closes the file of its own port, for any number of reused file numbers.
THEOREM CallsUseTheirFile == SerialSpec => []OwnFile
<1>1. (~raced => FilesInv) => OwnFile
  BY DEF FilesInv, CallsInv, CallInv, OwnFile
<1> QED BY FilesStart, FilesStep, <1>1, PTL DEF SerialSpec

-----------------------------------------------------------------------------
NamesSpec == USBInit /\ [][USBNext]_usbVars

\* What was plugged is finitely many devices, and a path is one port's.
NamesTypes ==
  /\ plugged \subseteq Devices /\ IsFiniteSet(plugged)
  /\ usbNames \in [USBPorts -> Devices \cup {NoDevice}]
  /\ answered \in [USBPorts -> Devices \cup {NoDevice}]

NamesInv ==
  /\ NamesTypes
  /\ usbNames[0] = usbNames[1] => usbNames[0] = NoDevice

\* Numbers have a least one, which Min chooses.
LEMMA LeastIs ==
  ASSUME NEW S, S # {}, S \subseteq Nat
  PROVE  Min(S) \in S
<1> DEFINE R == {ss \in Nat \X Nat : ss[1] < ss[2]}
<1>1. R = OpToRel(<, Nat)
  BY Zenon DEF OpToRel
<1> HIDE DEF R
<1>2. PICK x \in S : \A y \in S : <<y, x>> \notin R
  BY <1>1, NatLessThanWellFounded, WFMin, Zenon
<1>3. ASSUME NEW y \in S PROVE x <= y
  <2>1. <<y, x>> \in Nat \X Nat /\ ~(y < x)
    BY <1>2 DEF R
  <2> QED BY <2>1
<1> QED BY <1>3 DEF Min

\* No device twice.
Differ(s) == \A i, j \in DOMAIN s : i # j => s[i] # s[j]

\* An erase removes the element that was found, and the rest stay distinct.
LEMMA ErasedIs ==
  ASSUME NEW S, NEW s \in Seq(S), Differ(s), NEW e
  PROVE  /\ RemoveFirst(s, e) \in Seq(S) /\ Differ(RemoveFirst(s, e))
         /\ Len(RemoveFirst(s, e)) <= Len(s)
         /\ \A i \in DOMAIN RemoveFirst(s, e) :
              /\ RemoveFirst(s, e)[i] # e
              /\ \E j \in DOMAIN s : RemoveFirst(s, e)[i] = s[j]
<1>1. Len(s) \in Nat /\ DOMAIN s = 1 .. Len(s)
  OBVIOUS
<1>2. CASE \A i \in 1 .. Len(s) : s[i] # e
  <2>1. RemoveFirst(s, e) = s
    BY <1>2, Zenon DEF RemoveFirst
  <2> QED BY <1>1, <1>2, <2>1
<1>3. CASE \E i \in 1 .. Len(s) : s[i] = e
  <2> DEFINE at == {i \in 1 .. Len(s) : s[i] = e}
             k == Min(at)
             head == SubSeq(s, 1, k - 1)
             tail == SubSeq(s, k + 1, Len(s))
             rest == head \o tail
             from(i) == IF i < k THEN i ELSE i + 1
  <2>1. k \in 1 .. Len(s) /\ s[k] = e
    <3>1. at # {} /\ at \subseteq Nat
      BY <1>3
    <3>2. k \in at
      <4> HIDE DEF at
      <4> QED BY <3>1, LeastIs
    <3> HIDE DEF k
    <3> QED BY <3>2
  <2>2. RemoveFirst(s, e) = RemoveAt(s, k)
    BY <1>3 DEF RemoveFirst, SelectInSeq
  <2> HIDE DEF k
  <2>3. /\ head \in Seq(S) /\ Len(head) = k - 1 /\ \A i \in 1 .. k - 1 : head[i] = s[i]
    <3>1. head = [i \in 1 .. k - 1 |-> s[i]]
      BY <2>1
    <3> HIDE DEF head
    <3> QED BY <1>1, <2>1, <3>1
  <2>4. /\ tail \in Seq(S) /\ Len(tail) = Len(s) - k
        /\ \A i \in 1 .. Len(s) - k : tail[i] = s[k + i]
    <3>1. tail = [i \in 1 .. Len(s) - k |-> s[k + i]]
      BY <2>1
    <3> HIDE DEF tail
    <3>2. \A i \in 1 .. Len(s) - k : k + i \in 1 .. Len(s)
      BY <1>1, <2>1
    <3>3. Len(s) - k \in Nat
      BY <1>1, <2>1
    <3> QED BY <1>1, <3>1, <3>2, <3>3
  <2> HIDE DEF head, tail
  <2>5. /\ rest \in Seq(S) /\ Len(rest) = Len(head) + Len(tail)
        /\ \A i \in 1 .. Len(head) + Len(tail) :
             rest[i] = IF i <= Len(head) THEN head[i] ELSE tail[i - Len(head)]
    BY <2>3, <2>4, ConcatProperties, Zenon
  <2> HIDE DEF rest
  <2>6. Len(rest) = Len(s) - 1 /\ DOMAIN rest = 1 .. Len(s) - 1
    BY <1>1, <2>1, <2>3, <2>4, <2>5
  <2>7. ASSUME NEW i \in 1 .. Len(s) - 1
        PROVE  rest[i] = s[from(i)] /\ from(i) \in 1 .. Len(s) /\ from(i) # k
    <3>1. CASE i < k
      <4>1. i \in 1 .. Len(head) + Len(tail) /\ i <= Len(head) /\ i \in 1 .. k - 1
        BY <1>1, <2>1, <2>3, <2>4, <3>1
      <4>2. rest[i] = head[i] /\ head[i] = s[i]
        BY <2>3, <2>5, <4>1, Zenon
      <4> QED BY <1>1, <2>1, <3>1, <4>2
    <3>2. CASE ~(i < k)
      <4>1. PICK n \in 1 .. Len(s) - k : n = i - (k - 1)
        BY <1>1, <2>1, <3>2
      <4>2. rest[i] = tail[n]
        <5>1. i \in 1 .. Len(head) + Len(tail) /\ ~(i <= Len(head)) /\ i - Len(head) = n
          BY <1>1, <2>1, <2>3, <2>4, <3>2, <4>1
        <5> QED BY <2>5, <5>1, Zenon
      <4>3. tail[n] = s[k + n]
        BY <2>4
      <4>4. k + n = i + 1 /\ from(i) = i + 1 /\ i + 1 \in 1 .. Len(s) /\ i + 1 # k
        BY <1>1, <2>1, <3>2, <4>1
      <4> QED BY <4>2, <4>3, <4>4
    <3> QED BY <3>1, <3>2
  <2>8. \A i, j \in 1 .. Len(s) - 1 : i # j => from(i) # from(j)
    BY <1>1, <2>1
  <2> HIDE DEF from
  <2>9. \A i \in DOMAIN rest : rest[i] # e /\ \E j \in DOMAIN s : rest[i] = s[j]
    <3>1. \A i \in 1 .. Len(s) : i # k => s[i] # e
      BY <1>1, <2>1, Zenon DEF Differ
    <3> QED BY <1>1, <2>6, <2>7, <3>1, Zenon
  <2>10. Differ(rest)
    BY <1>1, <2>6, <2>7, <2>8, Zenon DEF Differ
  <2>11. Len(rest) <= Len(s)
    BY <1>1, <2>6
  <2>12. RemoveFirst(s, e) = rest
    BY <2>2, Zenon DEF RemoveAt, rest, head, tail
  <2> QED BY <2>5, <2>9, <2>10, <2>11, <2>12
<1> QED BY <1>2, <1>3

\* What is left of the plugged devices is no port's.
LEMMA UnusedAre ==
  ASSUME NamesInv, NEW sorted \in SetToSeqs(plugged)
  PROVE  /\ Unused(sorted) \in Seq(plugged) /\ Len(Unused(sorted)) <= Len(sorted)
         /\ \A i \in 1 .. Len(Unused(sorted)), p \in USBPorts : Unused(sorted)[i] # usbNames[p]
<1> DEFINE once == RemoveFirst(sorted, usbNames[0])
           twice == RemoveFirst(once, usbNames[1])
<1>1. sorted \in Seq(plugged) /\ Differ(sorted)
  <2>1. Cardinality(plugged) \in Nat
    BY FS_CardinalityType DEF NamesInv, NamesTypes
  <2> QED BY <2>1 DEF SetToSeqs, Differ
<1>2. /\ once \in Seq(plugged) /\ Differ(once) /\ Len(once) <= Len(sorted)
      /\ \A i \in DOMAIN once : once[i] # usbNames[0]
  BY <1>1, ErasedIs
<1>3. /\ twice \in Seq(plugged) /\ Len(twice) <= Len(sorted)
      /\ \A i \in DOMAIN twice : twice[i] # usbNames[1] /\ twice[i] # usbNames[0]
  <2> HIDE DEF once
  <2>1. /\ twice \in Seq(plugged) /\ Len(twice) <= Len(once)
        /\ \A i \in DOMAIN twice : twice[i] # usbNames[1] /\ \E j \in DOMAIN once : twice[i] = once[j]
    BY <1>2, ErasedIs
  <2> HIDE DEF twice
  <2> QED BY <1>1, <1>2, <2>1
<1>4. Unused(sorted) = twice
  BY DEF Unused
<1> HIDE DEF twice
<1> QED BY <1>3, <1>4 DEF USBPorts

\* What no step may do otherwise: the body of NamesAreKept.
NamesKept ==
  \A p \in USBPorts :
    /\ usbNames[p] # NoDevice => usbNames'[p] = usbNames[p]
    /\ usbNames'[p] # NoDevice => usbNames'[1 - p] # usbNames'[p]
    /\ answered'[p] # answered[p] /\ usbNames[p] # NoDevice
         => answered'[p] \in {usbNames[p], NoDevice}

\* A query keeps the invariant and every name.
LEMMA QueryIs ==
  ASSUME NamesInv, NEW q \in USBPorts, GetOSSerialPortName(q)
  PROVE  NamesInv' /\ NamesKept
<1>1. PICK sorted \in SetToSeqs(plugged) :
        /\ usbNames' = [usbNames EXCEPT ![q] = PathOf(q, sorted)]
        /\ answered' = [answered EXCEPT ![q] = Named(q, sorted)]
        /\ plugged' = plugged
  BY DEF GetOSSerialPortName
<1> DEFINE path == PathOf(q, sorted)
           name == Named(q, sorted)
<1>2. sorted \in Seq(plugged) /\ DOMAIN sorted = 1 .. Len(sorted) /\ Len(sorted) \in Nat
  <2>1. Cardinality(plugged) \in Nat
    BY FS_CardinalityType DEF NamesInv, NamesTypes
  <2> QED BY <2>1 DEF SetToSeqs
\* A path that is new is none, or is no port's.
<1>3. /\ usbNames[q] # NoDevice => path = usbNames[q]
      /\ usbNames[q] = NoDevice => \/ path = NoDevice
                                   \/ path \in plugged /\ \A p \in USBPorts : path # usbNames[p]
  <2>1. Rank(q) \in Nat /\ Rank(q) >= 1
    <3> DEFINE before == {p \in USBPorts : p < q /\ usbNames[p] = NoDevice}
    <3>1. IsFiniteSet(USBPorts) /\ before \in SUBSET USBPorts
      <4>1. USBPorts = {0} \cup {1}
        BY DEF USBPorts
      <4>2. IsFiniteSet({0} \cup {1})
        BY FS_Singleton, FS_AddElement, Zenon
      <4> QED BY <4>1, <4>2, Zenon
    <3>2. Cardinality(before) \in Nat
      <4> HIDE DEF before
      <4> QED BY <3>1, FS_Subset, FS_CardinalityType
    <3>3. Rank(q) = 1 + Cardinality(before)
      BY DEF Rank
    <3> HIDE DEF before
    <3> QED BY <3>2, <3>3
  <2>2. /\ Unused(sorted) \in Seq(plugged)
        /\ \A i \in 1 .. Len(Unused(sorted)), p \in USBPorts : Unused(sorted)[i] # usbNames[p]
    BY UnusedAre
  <2> QED BY <2>1, <2>2 DEF PathOf
\* The answer is an element of the list.
<1>4. name \in plugged \cup {NoDevice} /\ (usbNames[q] # NoDevice => name \in {usbNames[q], NoDevice})
  <2> DEFINE list == Searched(q, sorted)
             found == {i \in DOMAIN list : list[i] = path}
  <2>1. name = IF found = {} THEN NoDevice ELSE sorted[Min(found)]
    BY DEF Named
  <2>2. list \in Seq(plugged) /\ Len(list) <= Len(sorted)
    BY <1>2, UnusedAre DEF Searched
  <2>3. usbNames[q] # NoDevice => list = sorted
    BY DEF Searched
  <2> HIDE DEF list, path
  <2>4. found \subseteq 1 .. Len(sorted) /\ \A i \in found : list[i] = path
    BY <1>2, <2>2
  <2>5. CASE found = {}
    BY <2>1, <2>5
  <2>6. CASE found # {}
    <3>1. Min(found) \in found
      <4>1. found \subseteq Nat
        BY <2>4
      <4> HIDE DEF found
      <4> QED BY <2>6, <4>1, LeastIs, Zenon
    <3>2. name = sorted[Min(found)]
      BY <2>1, <2>6
    <3> HIDE DEF found, name
    <3>3. Min(found) \in 1 .. Len(sorted) /\ list[Min(found)] = path
      BY <2>4, <3>1, Zenon
    <3>4. name \in plugged /\ list[Min(found)] = path
      BY <1>2, <3>2, <3>3
    <3> QED BY <1>3, <2>3, <3>2, <3>4
  <2> QED BY <2>5, <2>6
<1>5. \A p \in USBPorts \ {q} : usbNames'[p] = usbNames[p] /\ answered'[p] = answered[p]
  BY <1>1 DEF NamesInv, NamesTypes
<1>6. usbNames'[q] = path /\ answered'[q] = name
  BY <1>1 DEF NamesInv, NamesTypes
<1> HIDE DEF path, name
<1>7. NamesInv'
  <2>1. NamesTypes'
    BY <1>1, <1>3, <1>4 DEF NamesInv, NamesTypes, path, name
  <2> QED BY <2>1, <1>3, <1>5, <1>6 DEF NamesInv, USBPorts
<1>8. NamesKept
  BY <1>3, <1>4, <1>5, <1>6 DEF NamesKept, NamesInv, USBPorts
<1> QED BY <1>7, <1>8

\* The invariant holds at first, ...
LEMMA NamesStart == USBInit => NamesInv
<1> SUFFICES ASSUME USBInit PROVE NamesInv
  OBVIOUS
<1>1. plugged \subseteq Devices /\ IsFiniteSet(plugged)
  BY FS_EmptySet DEF USBInit
<1> QED BY <1>1 DEF USBInit, NamesInv, NamesTypes, USBPorts

\* ... and after every step, none of which does otherwise.
LEMMA NamesStep == NamesInv /\ [USBNext]_usbVars => NamesInv' /\ [NamesKept]_usbVars
<1> SUFFICES ASSUME NamesInv, [USBNext]_usbVars PROVE NamesInv' /\ [NamesKept]_usbVars
  OBVIOUS
<1>1. ASSUME NEW d \in Devices, Plug(d) PROVE NamesInv' /\ NamesKept
  <2>1. IsFiniteSet(plugged')
    <3>1. IsFiniteSet(plugged) /\ plugged \subseteq Devices
      BY DEF NamesInv, NamesTypes
    <3>2. CASE d \in plugged
      <4>1. plugged' = plugged \ {d}
        BY <1>1, <3>2 DEF Plug
      <4>2. IsFiniteSet(plugged \ {d})
        BY <3>1, FS_RemoveElement, Zenon
      <4> QED BY <4>1, <4>2, Zenon
    <3>3. CASE d \notin plugged
      <4>1. plugged' = plugged \cup {d}
        BY <1>1, <3>3 DEF Plug
      <4>2. IsFiniteSet(plugged \cup {d})
        BY <3>1, FS_AddElement, Zenon
      <4> QED BY <4>1, <4>2, Zenon
    <3> QED BY <3>2, <3>3
  <2>2. plugged' \subseteq Devices /\ usbNames' = usbNames /\ answered' = answered
    BY <1>1 DEF Plug, NamesInv, NamesTypes
  <2> QED BY <2>1, <2>2 DEF NamesInv, NamesTypes, NamesKept, USBPorts
<1>2. ASSUME NEW q \in USBPorts, GetOSSerialPortName(q) PROVE NamesInv' /\ NamesKept
  BY <1>2, QueryIs
<1>3. CASE UNCHANGED usbVars
  BY <1>3 DEF usbVars, NamesInv, NamesTypes
<1> QED BY <1>1, <1>2, <1>3 DEF USBNext

\* For any number of USB devices, plugged and unplugged between the queries, and any order
\* the sort leaves: a name is kept, is one port's, and is answered or nothing is.
THEOREM PortsKeepTheirNames == NamesSpec => NamesAreKept
<1>1. [NamesKept]_usbVars => [\A p \in USBPorts :
       /\ usbNames[p] # NoDevice => usbNames'[p] = usbNames[p]
       /\ usbNames'[p] # NoDevice => usbNames'[1 - p] # usbNames'[p]
       /\ answered'[p] # answered[p] /\ usbNames[p] # NoDevice
            => answered'[p] \in {usbNames[p], NoDevice}]_usbVars
  BY DEF NamesKept
<1> QED BY <1>1, NamesStart, NamesStep, PTL DEF NamesSpec, NamesAreKept
=============================================================================
