------------------------------- MODULE NiFpga -------------------------------
(***************************************************************************)
(* fpga/NiFpga.c: every NiFpga function calls libNiFpga.so through a       *)
(* pointer, which NiFpga_Initialize looks up, one after the other, and     *)
(* NiFpga_Finalize sets back to null.  Functions that are declared and     *)
(* looked up together are one entry of the table here.                     *)
(***************************************************************************)
EXTENDS ThreadConstants, Naturals, SequencesExt

VARIABLES
  library,      \* NiFpga_library is not NULL
  loaded,       \* the entries of the library in memory, {} if there is none
  installed,    \* the entries of the libNiFpga.so on the disk
  pointers,     \* the entries whose pointer is not null, and the library it is of
  next,         \* of NiFpga_Initialize and NiFpga_Finalize
  niPc,
  initResult,   \* what NiFpga_Initialize returned last
  inside,       \* per caller: the entry it has called, and got through the pointer
  cut           \* ghost: the lookups in the library stopped at one that failed

niVars == <<library, loaded, installed, pointers, next, niPc, initResult, inside, cut>>

Required(name) == [name |-> name, required |-> TRUE]
Optional(name) == [name |-> name, required |-> FALSE]

\* NiFpga_Open to NiFpga_Download
Session == Required("Session")
ReadScalar == Required("Read")
WriteScalar == Required("Write")
ReadArray == Required("ReadArray")
WriteArray == Required("WriteArray")
Irq == Required("Irq")
ConfigureFifo == Required("ConfigureFifo")
SetFifoProperty == Optional("SetFifoProperty")
GetFifoProperty == Optional("GetFifoProperty")
CommitFifoConfiguration == Optional("CommitFifoConfiguration")
StartStopFifo == Required("StartStopFifo")
ReadFifo == Required("ReadFifo")
ReadFifoComposite == Optional("ReadFifoComposite")
WriteFifo == Required("WriteFifo")
WriteFifoComposite == Optional("WriteFifoComposite")
AcquireFifoReadElements == Required("AcquireFifoReadElements")
AcquireFifoWriteElements == Required("AcquireFifoWriteElements")

\* NiFpga_ReleaseFifoElements to NiFpga_ClientFunctionCall
Others == Required("Others")

NiFpga_functions ==
  <<Session, ReadScalar, WriteScalar, ReadArray, WriteArray, Irq, ConfigureFifo,
    SetFifoProperty, GetFifoProperty, CommitFifoConfiguration, StartStopFifo, ReadFifo,
    ReadFifoComposite, WriteFifo, WriteFifoComposite, AcquireFifoReadElements,
    AcquireFifoWriteElements, Others>>

Functions == ToSet(NiFpga_functions)

\* Versions of libNiFpga.so: bounded to those that lack one entry at most.
Libraries == {Functions} \cup {Functions \ {f} : f \in Functions}
Nobody == [name |-> "nobody", required |-> FALSE]

NiInit ==
  /\ library = FALSE /\ loaded = {} /\ installed \in Libraries
  /\ pointers = {} /\ next = 1 /\ niPc = "idle" /\ initResult = "none"
  /\ inside = [c \in Threads |-> Nobody] /\ cut = FALSE

Quiet == \A c \in Threads : inside[c] = Nobody

\* Another version of the driver is installed.
Install ==
  /\ ~library /\ niPc = "idle" /\ installed' \in Libraries
  /\ UNCHANGED <<library, loaded, pointers, next, niPc, initResult, inside, cut>>

\* NiFpga_Initialize: dlopen, unless the library is there; ...
NiFpga_Initialize ==
  /\ niPc = "idle"
  /\ IF library THEN initResult' = "Success" /\ UNCHANGED <<library, loaded, next, niPc, cut>>
     ELSE \/ initResult' = "ResourceNotFound" /\ UNCHANGED <<library, loaded, next, niPc, cut>>
          \/ /\ library' = TRUE /\ loaded' = installed /\ cut' = FALSE
             /\ next' = 1 /\ niPc' = "resolve" /\ UNCHANGED initResult
  /\ UNCHANGED <<installed, pointers, inside>>

\* Mutated form: no function is asked for.
Ignored(f) == FALSE

\* The lookup of an optional function may fail.
Failed(f) == f.required /\ f \notin loaded

\* ... dlsym, which overwrites the pointer whatever it finds.
Resolve ==
  LET f == NiFpga_functions[next]
      failed == Failed(f)
      last == next = Len(NiFpga_functions)
  IN  /\ niPc = "resolve"
      /\ pointers' = IF f \in loaded THEN pointers \cup {f} ELSE pointers \ {f}
      /\ initResult' = IF failed THEN "VersionMismatch" ELSE IF last THEN "Success" ELSE initResult
      /\ IF failed \/ last THEN niPc' = "idle" /\ next' = 1 ELSE next' = next + 1 /\ UNCHANGED niPc
      /\ cut' = failed
      /\ UNCHANGED <<library, loaded, installed, inside>>

\* NiFpga_Finalize, "after all other function calls": dlclose, which may fail, ...
NiFpga_Finalize ==
  /\ niPc = "idle" /\ library /\ Quiet
  /\ library' = FALSE
  /\ loaded' \in {{}, loaded}
  /\ niPc' = "null" /\ next' = 1 /\ initResult' = "none"
  /\ UNCHANGED <<installed, pointers, inside, cut>>

\* Mutated form: the function after the one a lookup stopped at is the last to be nulled.
NulledToFailure == pointers \ ToSet(SubSeq(NiFpga_functions, 1, 8))

\* "null out the library and each exported function"
Nulled == pointers \ Functions

NullOut ==
  /\ niPc = "null" /\ niPc' = "idle" /\ pointers' = Nulled
  /\ UNCHANGED <<library, loaded, installed, next, initResult, inside, cut>>

\* Any other function: through its pointer, or an error.
CallThrough(c, f) ==
  /\ inside[c] = Nobody /\ niPc # "null" /\ f \in pointers
  /\ inside' = [inside EXCEPT ![c] = f]
  /\ UNCHANGED <<library, loaded, installed, pointers, next, niPc, initResult, cut>>

Status(f) == IF f \in pointers THEN "Success"
             ELSE IF f.required THEN "ResourceNotInitialized" ELSE "VersionMismatch"

Leave(c) ==
  /\ inside[c] # Nobody /\ inside' = [inside EXCEPT ![c] = Nobody]
  /\ UNCHANGED <<library, loaded, installed, pointers, next, niPc, initResult, cut>>

NiNext ==
  \/ Install \/ NiFpga_Initialize \/ Resolve \/ NiFpga_Finalize \/ NullOut
  \/ \E c \in Threads : (\E f \in Functions : CallThrough(c, f)) \/ Leave(c)

-----------------------------------------------------------------------------
\* However initialization went, and whatever library was loaded before: who calls
\* through a pointer is in a function of the library that is loaded.
CallsAreLoaded == \A c \in Threads : inside[c] # Nobody => inside[c] \in loaded

\* "loads the NiFpga library so that all the other functions will work": after Success
\* no required function answers that the library was not initialized.  Excepted is the
\* Success of a call that found a library in which an earlier call had stopped looking.
SuccessMeansWorking ==
  initResult = "Success" /\ ~cut => \A f \in Functions : f.required => Status(f) = "Success"
=============================================================================
