------------------------------ MODULE IoRequest ------------------------------
(***************************************************************************)
(* The I/O request emulation of QlOsUtils (src/qiling/os/utils.py):        *)
(* io_Write (lines 216-329) and ioctl (lines 341-495) build an IRP, an     *)
(* IO_STACK_LOCATION, buffers and MDLs in the guest heap, run the driver's *)
(* dispatch routine on the CPU emulator, read the IRP back and free every  *)
(* address they recorded in alloc_addr.                                    *)
(*                                                                         *)
(* A handler is split where it hands control to guest code (ql.run): the  *)
(* Setup action is the code up to and including writeParams, the guest    *)
(* driver then runs (DriverCompleteIrp, any number of steps of its own     *)
(* abstracted away), the CPU emulator returns or raises UcError            *)
(* (DispatchReturn, DispatchFault) and the Recover action is the rest of   *)
(* the handler.  The driver is the environment: it follows the WDK         *)
(* contract, finding its buffers through the IRP, the stack location and   *)
(* the MDL in guest memory, never through the emulator's locals.           *)
(*                                                                         *)
(* Guest memory is abstracted to what the properties tell apart: for each  *)
(* heap address whether it is allocated, its payload capacity in bytes,    *)
(* and a tag naming who last filled it (<<"input", n>> or <<"result", n>>  *)
(* for request n, <<"zero", 0>> for memory never written).                 *)
(***************************************************************************)
EXTENDS Integers, Sequences, FiniteSets, SequencesExt, Bitwise

CONSTANTS
  MaxRequests,  \* requests issued in one emulation session
  Lens,         \* buffer lengths (bytes) a caller passes
  DeviceTypes,  \* CTL_CODE DeviceType fields a caller passes
  Functions,    \* CTL_CODE Function fields a caller passes
  Accesses,     \* CTL_CODE Access fields a caller passes
  HeapSize,     \* size of the guest heap, in the units of Lens
  StructSize    \* size of an IRP, IO_STACK_LOCATION or MDL, in those units

ASSUME MaxRequests \in Nat \ {0}
ASSUME Lens \subseteq Nat \ {0} /\ Lens # {}
ASSUME DeviceTypes \subseteq 0..32767 /\ Functions \subseteq 0..4095
ASSUME Accesses \subseteq 0..3
ASSUME HeapSize \in Nat /\ StructSize \in Nat \ {0}

NULL == 0
\* heap chunks in the order QlMemoryHeap creates them (ascending addresses);
\* every chunk is at least one unit long, so there are at most HeapSize
Addr == 1..HeapSize

\* wdk_const: I/O control transfer types and major function codes
METHOD_BUFFERED == 0
METHOD_IN_DIRECT == 1
METHOD_OUT_DIRECT == 2
METHOD_NEITHER == 3
Methods == {METHOD_BUFFERED, METHOD_IN_DIRECT, METHOD_OUT_DIRECT, METHOD_NEITHER}
DirectMethods == {METHOD_IN_DIRECT, METHOD_OUT_DIRECT}
Majors == {"WRITE", "DEVICE_CONTROL"}
IRP_MJ_CREATE == "CREATE"   \* major function code 0, a zeroed stack location

\* NTSTATUS values as the signed LONG IoStatus.Status.Status reads them
STATUS_SUCCESS == 0
STATUS_UNSUCCESSFUL == -1073741823
Statuses == {STATUS_SUCCESS, STATUS_UNSUCCESSFUL}

\* The regions a handler allocates.
Regions == {"irp", "stack", "system", "input", "output", "mapped", "mdl"}
Structs == {"irp", "stack", "mdl"}
Zero == <<"zero", 0>>
Empty == <<"empty", 0>>

VARIABLES
  MajorFunction, \* driver_object.MajorFunction: is an entry registered?
  devFlags,      \* DeviceObject.Flags: subset of {"BUFFERED", "DIRECT"}
  pc,            \* "idle", "dispatch" (guest code runs) or "returned"
  req,           \* the request being served
  reqNo,         \* requests issued so far
  live,          \* heap chunks in use
  size,          \* length of each heap chunk (0: not created yet)
  data,          \* who last filled each heap block
  mdl,           \* MappedSystemVa of each MDL written to guest memory
  irp,           \* the guest IRP of the request
  stk,           \* the guest IO_STACK_LOCATION of the request
  loc,           \* the handler's locals: the address of each region
  alloc_addr,    \* the handler's alloc_addr list
  completed,     \* the driver has completed the IRP in this dispatch
  result,        \* what the last handler returned or raised
  leaked         \* history: blocks of requests that ended by a raise

vars == <<MajorFunction, devFlags, pc, req, reqNo, live, size, data, mdl,
          irp, stk, loc, alloc_addr, completed, result, leaked>>

-----------------------------------------------------------------------------
(* Helpers translated from the handlers.                                   *)

\* ioctl_code: the CTL_CODE bit layout (it fits the 32-bit IoControlCode
\* field for DeviceType <= 0xFFFF; TLC's integers stop at 2^31 - 1)
ioctl_code(DeviceType, Function, Method, Access) ==
  (((DeviceType * 2^16) | (Access * 2^14)) | (Function * 4)) | Method

\* io_Write picks the transfer type from DeviceObject.Flags
WriteMode(flags) ==
  IF "BUFFERED" \in flags THEN "BUFFERED"
  ELSE IF "DIRECT" \in flags THEN "DIRECT"
  ELSE "NEITHER"

\* io_Write's heap.alloc calls, in order
WriteRegions(mode) ==
  <<"irp", "stack">> \o
    CASE mode = "BUFFERED" -> <<"system">>
      [] mode = "DIRECT"   -> <<"mapped", "mdl">>
      [] mode = "NEITHER"  -> <<"input">>

\* the regions io_Write fills with in_buffer (build_mdl gets no data)
WriteFilled(mode) ==
  CASE mode = "BUFFERED" -> {"system"}
    [] mode = "DIRECT"   -> {}
    [] mode = "NEITHER"  -> {"input"}

\* mutant: the in_buffer copy into the system buffer is dropped
IoctlFilledNoSystem(method) == {"input"}

\* the regions ioctl fills with in_buffer
IoctlFilled(method) == {"input", "system"}

\* ioctl's heap.alloc calls, in order
IoctlRegions(method) ==
  <<"input", "output", "irp", "stack", "system">> \o
    (IF method \in DirectMethods THEN <<"mapped", "mdl">> ELSE <<>>)

\* mutant: the system buffer sized to the input alone
SystemBufferInputSize(inLen, outLen) == inLen

\* system_buffer_size
SystemBufferSize(inLen, outLen) == IF inLen >= outLen THEN inLen ELSE outLen

\* mutant: METHOD_NEITHER output read from the system buffer
OutputSourceNeitherSystem(method, l) ==
  CASE method = METHOD_BUFFERED -> l.system
    [] method \in DirectMethods -> l.mapped
    [] method = METHOD_NEITHER  -> l.system

\* the address ioctl reads the output data from
OutputSource(method, l) ==
  CASE method = METHOD_BUFFERED -> l.system
    [] method \in DirectMethods -> l.mapped
    [] method = METHOD_NEITHER  -> l.output

\* mutant: the free loop stops one short
ReleasedButLast(alloc) == ToSet(Front(alloc))

\* the addresses the free loop releases
Released(alloc) == ToSet(alloc)

\* mutant: alloc_addr kept across calls instead of starting empty
ScratchListShared(prev, addrs) == prev \o addrs

\* alloc_addr = [] and one append per heap.alloc: this call's blocks only
ScratchList(prev, addrs) == addrs

\* the size a handler passes to heap.alloc for a region
Capacity(r, kind, inLen, outLen) ==
  CASE r \in Structs -> StructSize
    [] r = "system"  -> SystemBufferSize(inLen, outLen)
    [] r = "input"   -> inLen
    [] r = "output"  -> outLen
    [] r = "mapped"  -> IF kind = "write" THEN inLen ELSE outLen

\* the regions a handler passes to mem.write before ql.run: all but the
\* ioctl output buffer and build_mdl's buffer
Written == Regions \ {"output", "mapped"}

\* the IRP is written last, after every allocation; every other region of
\* Written right after its own heap.alloc
WrittenAtOnce == Written \ {"irp"}

\* QlMemoryHeap.alloc(sz): the first chunk not in use that is at least sz
\* long, reused whole; else a new chunk on top when the heap has sz units
\* left; else 0.  Chunks are never split or merged.
HeapAlloc(sz, used, sizes) ==
  LET fit == {a \in Addr : a \notin used /\ sizes[a] >= sz}
  IN IF fit # {} THEN Min(fit)
     ELSE IF SumFunction(sizes) + sz <= HeapSize
          THEN Cardinality({a \in Addr : sizes[a] > 0}) + 1
          ELSE NULL

RECURSIVE AllocAll(_, _, _, _, _, _)
\* heap.alloc once per region.  The handler appends the result unchecked;
\* a NULL region it writes at once raises UcError there and the
\* allocations stop; a NULL IRP raises only at the final write.
AllocAll(regs, used, sizes, kind, inLen, outLen) ==
  IF regs = <<>> THEN <<>>
  ELSE LET sz == Capacity(Head(regs), kind, inLen, outLen)
           a == HeapAlloc(sz, used, sizes)
       IN IF a = NULL
          THEN IF Head(regs) \in WrittenAtOnce THEN <<NULL>>
               ELSE <<NULL>> \o AllocAll(Tail(regs), used, sizes, kind, inLen, outLen)
          ELSE <<a>> \o AllocAll(Tail(regs), used \cup {a},
                                  IF sizes[a] = 0 THEN [sizes EXCEPT ![a] = sz] ELSE sizes,
                                  kind, inLen, outLen)

\* the handler raises before ql.run: a region it writes got NULL
SetupFails(regs, addrs) == \E i \in DOMAIN addrs : addrs[i] = NULL /\ regs[i] \in Written

\* the handler's locals after allocating regs at addresses addrs
Locals(regs, addrs) ==
  [r \in Regions |->
     IF \E i \in DOMAIN addrs : regs[i] = r
     THEN addrs[CHOOSE i \in DOMAIN addrs : regs[i] = r]
     ELSE NULL]

NoResult == [outcome |-> "none", kind |-> "none", no |-> 0, ok |-> FALSE,
             status |-> 0, info |-> 0, out |-> [src |-> NULL, len |-> 0, tag |-> Empty]]

-----------------------------------------------------------------------------
Init ==
  /\ MajorFunction \in [Majors -> BOOLEAN]
  /\ devFlags \in SUBSET {"BUFFERED", "DIRECT"}
  /\ pc = "idle"
  /\ req = [kind |-> "none", method |-> 0, inLen |-> 0, outLen |-> 0]
  /\ reqNo = 0
  /\ live = {}
  /\ size = [a \in Addr |-> 0]
  /\ data = [a \in Addr |-> Zero]
  /\ mdl = [a \in Addr |-> NULL]
  /\ irp = [SystemBuffer |-> NULL, MdlAddress |-> NULL, UserBuffer |-> NULL,
            Status |-> STATUS_SUCCESS, Information |-> 0]
  /\ stk = [major |-> IRP_MJ_CREATE, length |-> 0, code |-> 0,
            inLen |-> 0, outLen |-> 0, type3 |-> NULL]
  /\ loc = [r \in Regions |-> NULL]
  /\ alloc_addr = <<>>
  /\ completed = FALSE
  /\ result = NoResult
  /\ leaked = {}

\* Allocate regs for a request, fill the blocks of `filled` with its input.
Allocate(regs, filled, kind, inLen, outLen) ==
  LET addrs == AllocAll(regs, live, size, kind, inLen, outLen)
      l == Locals(regs, addrs)
      fresh == Range(addrs) \ {NULL}
  IN /\ loc' = l
     /\ live' = live \cup fresh
     /\ size' = [a \in Addr |->
                   IF a \in fresh /\ size[a] = 0
                   THEN Capacity(CHOOSE r \in Regions : l[r] = a, kind, inLen, outLen)
                   ELSE size[a]]
     /\ data' = [a \in Addr |->
                   IF \E r \in filled : l[r] = a THEN <<"input", reqNo + 1>>
                   ELSE data[a]]
     /\ alloc_addr' = ScratchList(alloc_addr, addrs)

\* A mem.write to a NULL block raised UcError out of the handler before
\* ql.run: nothing of alloc_addr is freed.
SetupRaises(kind) ==
  /\ pc' = "idle"
  /\ result' = [NoResult EXCEPT !.outcome = "raised", !.kind = kind, !.no = reqNo + 1]
  /\ leaked' = leaked \cup (Range(alloc_addr') \ {NULL})
  /\ UNCHANGED <<irp, stk, mdl, completed>>

\* io_Write when MajorFunction[IRP_MJ_WRITE] == 0: return (False, None)
WriteRejected ==
  /\ pc = "idle" /\ reqNo < MaxRequests
  /\ ~MajorFunction["WRITE"]
  /\ reqNo' = reqNo + 1
  /\ result' = [NoResult EXCEPT !.outcome = "rejected", !.kind = "write",
                                !.no = reqNo + 1]
  /\ UNCHANGED <<MajorFunction, devFlags, pc, req, live, size, data, mdl,
                 irp, stk, loc, alloc_addr, completed, leaked>>

\* IRP64() / IRP32(): ctypes zero-fills the structure, so IoStatus starts
\* as STATUS_SUCCESS with Information 0.
NewIoStatus == [Status |-> STATUS_SUCCESS, Information |-> 0]

WriteSetup ==
  /\ pc = "idle" /\ reqNo < MaxRequests
  /\ MajorFunction["WRITE"]
  /\ \E inLen \in Lens :
       LET mode == WriteMode(devFlags)
           regs == WriteRegions(mode)
       IN /\ req' = [kind |-> "write", method |-> 0, inLen |-> inLen, outLen |-> 0]
          /\ Allocate(regs, WriteFilled(mode), "write", inLen, 0)
          /\ IF SetupFails(regs, AllocAll(regs, live, size, "write", inLen, 0))
             THEN SetupRaises("write")
             ELSE /\ stk' = [major |-> "WRITE", length |-> inLen, code |-> 0,
                             inLen |-> 0, outLen |-> 0, type3 |-> NULL]
                  /\ irp' = [SystemBuffer |-> loc'.system, MdlAddress |-> loc'.mdl,
                             UserBuffer |-> loc'.input,
                             Status |-> NewIoStatus.Status,
                             Information |-> NewIoStatus.Information]
                  /\ mdl' = IF mode = "DIRECT" THEN [mdl EXCEPT ![loc'.mdl] = loc'.mapped]
                            ELSE mdl
                  /\ pc' = "dispatch"
                  /\ completed' = FALSE
                  /\ UNCHANGED <<result, leaked>>
  /\ reqNo' = reqNo + 1
  /\ UNCHANGED <<MajorFunction, devFlags>>

\* ioctl when MajorFunction[IRP_MJ_DEVICE_CONTROL] == 0: (None, None, None)
IoctlRejected ==
  /\ pc = "idle" /\ reqNo < MaxRequests
  /\ ~MajorFunction["DEVICE_CONTROL"]
  /\ reqNo' = reqNo + 1
  /\ result' = [NoResult EXCEPT !.outcome = "rejected", !.kind = "ioctl",
                                !.no = reqNo + 1]
  /\ UNCHANGED <<MajorFunction, devFlags, pc, req, live, size, data, mdl,
                 irp, stk, loc, alloc_addr, completed, leaked>>

\* ioctl up to ql.run: allocate input, output, IRP, stack location, system
\* buffer and (direct methods) the MDL and its buffer; fill the input and
\* the system buffer with in_buffer; only the DeviceIoControl parameters of
\* the stack location are set.
IoctlSetup ==
  /\ pc = "idle" /\ reqNo < MaxRequests
  /\ MajorFunction["DEVICE_CONTROL"]
  /\ \E dt \in DeviceTypes, fn \in Functions, m \in Methods, acc \in Accesses,
        outLen \in Lens, inLen \in Lens :
       LET direct == m \in DirectMethods
           regs == IoctlRegions(m)
       IN /\ req' = [kind |-> "ioctl", method |-> m, inLen |-> inLen, outLen |-> outLen]
          /\ Allocate(regs, IoctlFilled(m), "ioctl", inLen, outLen)
          /\ IF SetupFails(regs, AllocAll(regs, live, size, "ioctl", inLen, outLen))
             THEN SetupRaises("ioctl")
             ELSE /\ stk' = [major |-> IRP_MJ_CREATE, length |-> 0,
                             code |-> ioctl_code(dt, fn, m, acc),
                             inLen |-> inLen, outLen |-> outLen, type3 |-> loc'.input]
                  /\ irp' = [SystemBuffer |-> loc'.system,
                             MdlAddress |-> IF direct THEN loc'.mdl ELSE NULL,
                             UserBuffer |-> IF m = METHOD_NEITHER THEN loc'.output ELSE NULL,
                             Status |-> NewIoStatus.Status,
                             Information |-> NewIoStatus.Information]
                  /\ mdl' = IF direct THEN [mdl EXCEPT ![loc'.mdl] = loc'.mapped] ELSE mdl
                  /\ pc' = "dispatch"
                  /\ completed' = FALSE
                  /\ UNCHANGED <<result, leaked>>
  /\ reqNo' = reqNo + 1
  /\ UNCHANGED <<MajorFunction, devFlags>>

-----------------------------------------------------------------------------
(* The guest driver, following the WDK contract.                           *)

\* the transfer type the driver derives: from its own device flags for a
\* write, from the method bits of IoControlCode for a device control
DriverMethod ==
  IF req.kind = "write"
  THEN CASE WriteMode(devFlags) = "BUFFERED" -> METHOD_BUFFERED
         [] WriteMode(devFlags) = "DIRECT"   -> METHOD_IN_DIRECT
         [] WriteMode(devFlags) = "NEITHER"  -> METHOD_NEITHER
  ELSE stk.code % 4

\* where the driver finds the caller's data, and how long it is told it is
DriverInputBuffer ==
  IF req.kind = "write"
  THEN CASE DriverMethod = METHOD_BUFFERED -> irp.SystemBuffer
         [] DriverMethod \in DirectMethods -> mdl[irp.MdlAddress]
         [] DriverMethod = METHOD_NEITHER  -> irp.UserBuffer
  ELSE IF DriverMethod = METHOD_NEITHER THEN stk.type3 ELSE irp.SystemBuffer

\* where the driver puts its output
DriverOutputBuffer ==
  CASE DriverMethod = METHOD_BUFFERED -> irp.SystemBuffer
    [] DriverMethod \in DirectMethods -> mdl[irp.MdlAddress]
    [] DriverMethod = METHOD_NEITHER  -> irp.UserBuffer

DriverInputLength == IF req.kind = "write" THEN stk.length ELSE stk.inLen

\* the length the driver may report: what it consumed or produced
DriverMaxInfo ==
  IF req.kind = "write" THEN stk.length ELSE stk.outLen

\* The dispatch routine completes the IRP: IoStatus is set and, on success,
\* Information bytes of output are written where the contract says.
DriverCompleteIrp ==
  /\ pc = "dispatch" /\ ~completed
  /\ \E st \in Statuses, info \in 0..DriverMaxInfo :
       \* output written to a NULL buffer would fault instead
       /\ (req.kind = "ioctl" /\ st >= 0 /\ info > 0) => DriverOutputBuffer # NULL
       /\ irp' = [irp EXCEPT !.Status = st, !.Information = info]
       /\ data' = IF req.kind = "ioctl" /\ st >= 0 /\ info > 0
                  THEN [data EXCEPT ![DriverOutputBuffer] = <<"result", reqNo>>]
                  ELSE data
  /\ completed' = TRUE
  /\ UNCHANGED <<MajorFunction, devFlags, pc, req, reqNo, live, size, mdl,
                 stk, loc, alloc_addr, result, leaked>>

\* ql.run returns: the dispatch routine reached its return address
DispatchReturn ==
  /\ pc = "dispatch"
  /\ pc' = "returned"
  /\ UNCHANGED <<MajorFunction, devFlags, req, reqNo, live, size, data, mdl,
                 irp, stk, loc, alloc_addr, completed, result, leaked>>

\* ql.run raises UcError and verify_ret classifies it: a benign fault goes
\* on to read the IRP back, any other is re-raised out of the handler,
\* past the free loop.
DispatchFault ==
  /\ pc = "dispatch"
  /\ \/ /\ pc' = "returned"
        /\ UNCHANGED <<result, leaked>>
     \/ /\ pc' = "idle"
        /\ result' = [NoResult EXCEPT !.outcome = "raised", !.kind = req.kind,
                                      !.no = reqNo]
        /\ leaked' = leaked \cup (ToSet(alloc_addr) \ {NULL})
  /\ UNCHANGED <<MajorFunction, devFlags, req, reqNo, live, size, data, mdl,
                 irp, stk, loc, alloc_addr, completed>>

-----------------------------------------------------------------------------
\* io_Write after ql.run: read the IRP back, free alloc_addr, return
\* (True, IoStatus.Information).
WriteRecover ==
  /\ pc = "returned" /\ req.kind = "write"
  /\ result' = [NoResult EXCEPT !.outcome = "returned", !.kind = "write",
                                !.no = reqNo, !.ok = TRUE,
                                !.info = irp.Information]
  /\ live' = live \ Released(alloc_addr)
  /\ pc' = "idle"
  /\ UNCHANGED <<MajorFunction, devFlags, req, reqNo, size, data, mdl, irp,
                 stk, loc, alloc_addr, completed, leaked>>

\* ioctl after ql.run: read the IRP back; on a non-negative status read
\* Information bytes from the output location of the method; free
\* alloc_addr; return (Status, Information, output_data).
IoctlRecover ==
  /\ pc = "returned" /\ req.kind = "ioctl"
  /\ LET st == irp.Status
         info == irp.Information
         src == OutputSource(req.method, loc)
         out == IF st >= 0
                THEN [src |-> src, len |-> info,
                      tag |-> IF info = 0 THEN Empty ELSE data[src]]
                ELSE NoResult.out
     IN result' = [NoResult EXCEPT !.outcome = "returned", !.kind = "ioctl",
                                   !.no = reqNo, !.ok = TRUE, !.status = st,
                                   !.info = info, !.out = out]
  /\ live' = live \ Released(alloc_addr)
  /\ pc' = "idle"
  /\ UNCHANGED <<MajorFunction, devFlags, req, reqNo, size, data, mdl, irp,
                 stk, loc, alloc_addr, completed, leaked>>

\* The session issues no further request.
Terminating ==
  /\ pc = "idle" /\ reqNo = MaxRequests
  /\ UNCHANGED vars

Next ==
  \/ WriteRejected \/ WriteSetup \/ IoctlRejected \/ IoctlSetup
  \/ DriverCompleteIrp \/ DispatchReturn \/ DispatchFault
  \/ WriteRecover \/ IoctlRecover
  \/ Terminating

Spec == Init /\ [][Next]_vars

-----------------------------------------------------------------------------
(* Properties.                                                             *)

Tag == ({"zero", "empty"} \X {0}) \cup ({"input", "result"} \X (1..MaxRequests))

TypeOK ==
  /\ MajorFunction \in [Majors -> BOOLEAN]
  /\ devFlags \subseteq {"BUFFERED", "DIRECT"}
  /\ pc \in {"idle", "dispatch", "returned"}
  /\ req.kind \in {"none", "write", "ioctl"} /\ req.method \in Methods
  /\ reqNo \in 0..MaxRequests
  /\ live \subseteq Addr /\ leaked \subseteq live
  /\ size \in [Addr -> Nat] /\ SumFunction(size) <= HeapSize /\ data \in [Addr -> Tag]
  /\ mdl \in [Addr -> Addr \cup {NULL}]
  /\ irp.Status \in Statuses /\ irp.Information \in Nat
  /\ loc \in [Regions -> Addr \cup {NULL}]
  /\ alloc_addr \in Seq(Addr \cup {NULL})
  /\ pc # "idle" => ToSet(alloc_addr) \ {NULL} \subseteq live
  /\ completed \in BOOLEAN
  /\ result.outcome \in {"none", "rejected", "returned", "raised"}
  /\ result.out.tag \in Tag

\* Scratch memory is reclaimed (io_Write/ioctl free loops): between
\* requests every allocated heap block belongs to a request that raised (a
\* fatal UcError in the dispatch routine, or a mem.write to a NULL block
\* heap.alloc returned when the heap ran out); every block a returning
\* request allocated was freed.
ScratchReclaimed ==
  pc = "idle" => live = leaked

\* When the DeviceControl routine starts, the buffer it finds the input in
\* through the IRP or Type3InputBuffer (as IoControlCode's method bits
\* say) holds this request's in_buffer and is as long as
\* InputBufferLength says.
IoctlInputVisible ==
  (pc = "dispatch" /\ req.kind = "ioctl" /\ ~completed) =>
     /\ data[DriverInputBuffer] = <<"input", reqNo>>
     /\ size[DriverInputBuffer] >= DriverInputLength

\* When the Write routine starts, the buffer it finds the input in (the
\* system buffer, the MDL or UserBuffer, as its device flags say) holds
\* this request's in_buffer and is as long as Parameters.Write.Length.
WriteInputVisible ==
  (pc = "dispatch" /\ req.kind = "write" /\ ~completed) =>
     /\ data[DriverInputBuffer] = <<"input", reqNo>>
     /\ size[DriverInputBuffer] >= DriverInputLength

\* The output ioctl returns for a successful request is the data the
\* driver wrote for this request, read from where IoControlCode's method
\* told the driver to put it.
IoctlOutputIsDriverResult ==
  (/\ result.outcome = "returned" /\ result.kind = "ioctl"
   /\ result.status >= 0 /\ result.info > 0)
     => result.out.tag = <<"result", result.no>>

\* ioctl reads the IoStatus.Information bytes of output within the block
\* it allocated for them, for a driver that honours OutputBufferLength
\* (checked until the block is handed out again by the next request).
OutputReadInBounds ==
  (result.no = reqNo /\ result.out.len > 0) =>
     /\ result.out.src \in Addr
     /\ result.out.len <= size[result.out.src]

\* io_Write's success flag tells whether the driver completed the write
\* with a success status.
WriteReportsStatus ==
  (pc = "idle" /\ result.outcome = "returned" /\ result.kind = "write")
     => (result.ok <=> irp.Status >= 0)

\* The dispatch routine the emulator runs finds its own major function code
\* in the stack location (a shared dispatch routine switches on it).
StackMajorMatchesDispatch ==
  (pc = "dispatch") =>
     stk.major = IF req.kind = "write" THEN "WRITE" ELSE "DEVICE_CONTROL"
=============================================================================
