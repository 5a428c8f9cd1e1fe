# TLA+ models of qiling's OS utilities and I/O request emulation

This directory holds TLA+ models of `src/qiling/os/utils.py` (class `QlOsUtils`)
and `src/qiling/os/mcu/mcu.py` (class `QlOsMcu`), the TLC configurations that
check them, and `PROJECT.json`, which lists components, runs, mutants, the map
from every model definition to the source lines it translates, findings and
hazards.

## 1. Inventory

### Components

| Component | Source | State it keeps | Operations |
|---|---|---|---|
| Call ledger and string index | `utils.py` 31-76 | `syscalls` (name -> list of call records), `syscalls_counter`, `appeared_strings` (token -> set of positions) | `_call_api`, `string_appearance`, `clear_syscalls` |
| Guest string reader | `utils.py` 79-111 | none of its own; reads guest memory, feeds `string_appearance` | `read_string`, `read_cstring`, `read_wstring`, `read_guid` |
| Format emulator | `utils.py` 159-194 | none of its own; dereferences `%s` arguments through the string reader (so it records tokens), writes guest memory or stdout | `__common_printf`, `va_list`, `sprintf`, `printf`, `update_ellipsis` |
| exec_arbitrary | `utils.py` 196-214 | the saved stack pointer and return address, a one-shot address hook | `exec_arbitrary`, the `restore` hook |
| Device I/O request emulator | `utils.py` 216-497 | per request: `alloc_addr`, the addresses of IRP, stack location, buffers, MDL; guest heap and guest memory | `io_Write`, `ioctl` |
| Function-call logging | `utils.py` 113-157 | none | `stringify`, `print_function` |
| MCU run loop | `mcu.py` 10-41 | `runable` | `step`, `stop`, `run(count, end)` |

External collaborators, not in `src/`: the CPU emulator (`ql.run`,
`emu_start`), the guest heap (`heap.alloc`, `heap.free`), guest memory
(`ql.mem.read/write`), the calling-convention writer (`fcall.writeParams`),
the fault classifier `verify_ret`, the loader's `driver_object`, and the guest
driver itself.

### How the components interact

Everything runs on one Python thread. The one place where control leaves the
emulator's code in the middle of an operation is `ql.run` inside `io_Write` and
`ioctl`: the guest driver's dispatch routine runs there, and every API hook the
driver calls runs on the same stack, calling `_call_api` and, through
`read_cstring`/`read_wstring`/`printf`, `string_appearance`. So the ledger is
updated in the middle of a request, and guest code can do anything to guest
memory (the IRP, the buffers, the MDL) between the handler's setup and its
read-back. `ql.run` ends by returning or by raising `UcError`, which
`verify_ret` either absorbs (execution reached the expected return address) or
re-raises out of the handler. Similarly `QlOsMcu.step` runs one instruction,
during which a hook may call `stop()`.

### What is hard

* A handler split by guest code: what the handler set up (addresses in locals,
  buffer contents, the stack location) must agree with what the driver finds
  through the IRP, and what the handler reads back must be what the driver left.
* Four transfer types (buffered, direct in/out, neither) that change which
  blocks are allocated, which are filled, which IRP field points where, and
  where the output is read.
* Partial failure: a re-raised `UcError` leaves the handler between allocation
  and free.
* Reuse of freed heap blocks across requests: stale data from an earlier
  request can reach the driver or the caller.
* Numeric edges: the CTL_CODE bit layout, buffer sizes (max of in and out),
  output lengths taken from the driver.
* Positional bookkeeping: ledger positions and string tokens, and the
  `%`-piece-to-argument mapping of the format emulator.

### Properties that make each component correct

* I/O requests: every scratch block is freed on return; the driver finds this
  request's input where the WDK contract for the transfer type says; the
  output returned is what the driver wrote for this request, read inside its
  block; the success flag reflects the driver's status; the stack location
  names the dispatch being run.
* Ledger: positions of recorded calls are exactly 0..n-1 in call order, reset
  by `clear_syscalls`; every recorded string position is at most the counter.
* String reader: the decoded text is the guest string up to its terminator
  with only undecodable bytes dropped.
* Format emulator: each conversion consumes the argument a C `printf` would
  give it and `%s` arguments are dereferenced.
* exec_arbitrary: after the redirected code reaches `end`, sp and pc are those
  of the original return, and the hook fires once.
* MCU loop: with a positive count no more than `count` steps run; `stop()`
  ends the loop after the current step.

The hazards these properties aim at are listed, each at its line, under
`hazards` in `PROJECT.json`.

## 2. Plan and status

| Module | Component | Status |
|---|---|---|
| `IoRequest`, `MCIoRequest` | device I/O requests | done (sitting 1) |
| `CallLedger`, `AbstractLedger`, `MCCallLedger` | call ledger, with a refinement | done (sitting 1) |
| `McuRunLoop`, `MCMcuRunLoop` | MCU run loop, with liveness | done (sitting 2) |
| `GuestString`, `MCGuestString` | string reader, composed with the ledger | done (sitting 2) |
| `FormatString`, `MCFormatString` | format emulator, composed with the ledger | done (sitting 2) |
| `ExecArbitrary`, `MCExecArbitrary` | return redirection | done (sitting 2) |

| `CallLog` (used by `FormatString`) | function-call logging | done (sitting 3) |
| `GuestString` `read_guid` | GUID parsing | done (sitting 4) |
| `IoRequest` heap exhaustion | `heap.alloc` returning 0 | done (sitting 3) |

Left: larger instances where a run has time to spare. `IoRequest` and `CallLedger` are not
composed: they share no state (the ledger's calls during dispatch touch
neither the heap nor the IRP), so their interleaving is the product of the
two models. `GuestString` and `FormatString` do compose with the ledger,
through `INSTANCE CallLedger`, because reading a string files its tokens.

## 3. The IoRequest model

### State

| Variable | Code |
|---|---|
| `MajorFunction` | `ql.loader.driver_object.MajorFunction[...] != 0` for WRITE and DEVICE_CONTROL |
| `devFlags` | `device_object.Flags & DO_BUFFERED_IO / DO_DIRECT_IO` |
| `pc` | where the handler is: `idle`, `dispatch` (inside `ql.run`), `returned` (after it) |
| `req` | the handler's arguments: kind, method, input and output length |
| `live`, `size`, `data` | the guest heap: allocated blocks, their payload capacity, and who filled them last (`<<"input", n>>`, `<<"result", n>>`) |
| `mdl` | the `MappedSystemVa` of each MDL written with `ql.mem.write(mdl_addr, bytes(mdl))` |
| `irp`, `stk` | the IRP and IO_STACK_LOCATION written to guest memory |
| `loc` | the handler's locals: `irp_addr`, `irpstack_addr`, `system_buffer_addr`, `input_buffer_addr`, `output_buffer_addr`, `mapped_address`, `mdl_addr` |
| `alloc_addr` | the handler's `alloc_addr` list |
| `completed` | the driver has completed the IRP during this dispatch |
| `result` | what the handler returned, or that it raised |
| `leaked` | history variable: blocks of requests ended by a re-raised fault |

### Actions

* `WriteRejected`, `IoctlRejected`: the early return when the dispatch entry is 0.
* `WriteSetup` (lines 224-308), `IoctlSetup` (372-461): every allocation,
  memory write and IRP/stack field the handler sets before `ql.run`, as one
  step. The heap allocator, `QlMemoryHeap`, is outside `src/` and is
  modelled from its behaviour (`HeapAlloc`). It reuses the first free chunk
  that is at least as long as the request, whole. Otherwise it makes a new
  chunk on top if `HeapSize` has room, and otherwise returns 0. Chunks are
  never split or merged. So a request can fail while a smaller one after it
  is served. The code checks none of the results: writing to address 0
  raises `UcError` out of the handler. The stack location, the input buffer,
  the system buffer and the MDL are written right after their own
  allocation (`WrittenAtOnce`), so allocation stops there. The IRP is
  written last, after every allocation. In every such case the request ends
  in `SetupRaises` with every chunk allocated so far left behind. The ioctl
  output buffer and build_mdl's mapped buffer are never written during
  setup, so a 0 for either goes into the IRP, the MDL and `alloc_addr`, and
  setup carries on.
* `DriverCompleteIrp`: the guest dispatch routine. It finds its buffers as the
  WDK says: a write by its device flags, an IOCTL by the low two bits of
  `IoControlCode`; it sets `IoStatus` and, on success, writes at most
  `OutputBufferLength` bytes of output.
* `DispatchReturn`, `DispatchFault`: `ql.run` returns, or raises `UcError`,
  which `verify_ret` absorbs (go on to read back) or re-raises (the handler
  exits; its blocks go to `leaked`).
* `WriteRecover` (316-329), `IoctlRecover` (469-495): the IRP read-back, the
  output read per method, the free loop and the return value.
* `Terminating`: the session issues no more requests.

### Runs

| Run | cfg | Expect | What it shows |
|---|---|---|---|
| `io_requests` | `MCIoRequest.cfg` | pass | `ScratchReclaimed`, `IoctlInputVisible`, `IoctlOutputIsDriverResult`, and `OutputReadInBounds` hold for two requests of every kind and transfer type, with heap exhaustion, with completion, benign and fatal faults in every order |
| `write_direct_input` | `MCIoRequest_WriteInputVisible.cfg` | violation | a DO_DIRECT_IO write hands the driver an MDL whose buffer never got the input (finding, line 284) |
| `write_status` | `MCIoRequest_WriteReportsStatus.cfg` | violation | `io_Write` returns True although the driver failed the IRP (line 329) |
| `ioctl_stack_major` | `MCIoRequest_StackMajorMatchesDispatch.cfg` | violation | the IOCTL stack location keeps MajorFunction 0, IRP_MJ_CREATE (line 421) |

Each property of the passing run has a mutant in `PROJECT.json` (a dropped
copy into the system buffer, the METHOD_NEITHER output read from the system
buffer, the system buffer sized to the input, a free loop that stops one
short, an `alloc_addr` list that keeps the previous request's addresses),
and TLC finds the property violated under each.

With this heap TLC reaches a DeviceControl routine of a direct method that
starts with `MappedSystemVa = 0`. Take a request with in 1 and out 2. The
system buffer (`max(in, out)`, line 433) takes the last two units, so
build_mdl's buffer (line 354) gets 0, which is never written. The one-unit
MDL structure (line 445) is still served. Every run slot is taken, so this
is recorded as a hazard (`utils.py:354`) and not as a violation run. The
same gap for a write (line 284) is the `write_direct_input` finding.

The zero-filled `IoStatus` (line 481) makes a dispatch that ends before
the driver completes the IRP look like an empty success. The spec does not
say what such a request should report, so no property states it.

### Bounds and why they are enough

* `MaxRequests = 2`: a second request reuses blocks the first freed (or finds
  them leaked), which is what stale data and leaks need; more requests repeat
  the same shapes.
* `Lens = {1, 2, 3}`: input shorter than, equal to and longer than the
  output, so `max(in, out)` and the output-length bound are exercised both
  ways.
* CTL_CODE fields all ones (`DeviceType = 0x7FFF`, `Function = 0xFFF`,
  `Access = 3`): every bit next to the method bits is set, so any slip in the
  shifts reaches the method the driver decodes. DeviceType stops at 0x7FFF
  because TLC's integers stop at 2^31 - 1.
* `HeapSize = 8`, `StructSize = 1`: a direct-method ioctl needs
  `in + 2*out + max(in, out) + 3` units, from 7 to 15. So some requests
  fit and some fail at the system buffer, at the mapped buffer (with the
  MDL still served) or at the MDL. A second request reuses the first
  request's freed chunks when they are long enough, and otherwise finds the
  heap full. Sizes are in abstract units: the real structures are some
  hundred bytes, which scales the thresholds, not the cases.
* All four combinations of registered dispatch entries and of the two device
  flags are initial states.

A re-raised fault leaves the request's blocks allocated (line 314). The
spec's design notes already name this leak as an open question, so no
violation run restates it: `ScratchReclaimed` pins the leak down to exactly
the blocks of requests ended by a fatal fault.

### Fairness

None. The dispatch routine is guest code the emulator does not control, and
`ql.run` has no timeout, so no step of the driver or of the CPU emulator is
guaranteed; the checked properties are safety properties.

## 4. The CallLedger model

`CallLedger` translates `QlOsUtils.__init__` (28-34), `clear_syscalls`
(36-42), `_call_api` (44-66) and `string_appearance` (68-76).

* State: `syscalls` maps each key (the name after the `hook_` prefix
  strip, bounded by `MaxPrefix` prefixes) to the sequence of positions of its
  records; the record's params, retval and addresses are data the ledger
  never reads and are left out. `syscalls_counter` and `appeared_strings`
  (token -> set of positions) are as in the code.
* `CallApi(name)`: strips one prefix, appends a record with position
  `syscalls_counter`, then increments the counter.
* `StringAppearance(s)`: every token of `s.split(" ")` (the empty token
  included) gets the current counter.
* `ClearSyscalls`: resets all three.

`AbstractLedger` is what the spec promises: one log of stripped call names in
call order and, per token, the log lengths at which it appeared. The
refinement mapping merges the per-key lists by position (`Log`) and maps
`appeared_strings` to itself. The run `ledger` (`MCCallLedger.cfg`: two base
names, prefixes up to 2, tokens `"a"` and `""`, strings of up to 2 tokens, at
most 3 calls between clears) checks `TypeOK`, `PositionsExact` (per epoch the
positions are exactly 0..n-1, increasing within a key) and
`LedgerRefinesAbstract`. Its mutants: incrementing the counter before the
append, and a clear that keeps the counter or keeps the strings.

`MaxCalls = 3` makes two names collide under the strip and interleave with a
string appearance between them and a clear; the bound is only on the model
(the code's counter is a Python int).

## 5. The McuRunLoop model

`McuRunLoop` translates `QlOsMcu` (`mcu.py`): `__init__` (`runable`),
`run` (defaults, `end |= thumb`, the while loop, `count -= 1`, the
`count == 0` break), `step` and `stop`. The guest program (where each
instruction leaves the pc) and the hooks that call `stop()` during an
instruction are the environment. `get_pc()` includes the Thumb bit on ARM
(that part of `QlArchARM` is outside `src/`). Negative counts are kept as
-1: every negative value behaves the same for `count == 0`.

Fairness: `WF_vars(LoopStep)` and `WF_vars(LoopExit)`. The loop is host
Python code, and `step()` runs exactly one instruction (`emu_start` with
`count=1`) and returns, so once `run()` is entered it keeps iterating. Nothing
is assumed of the host calling `run()`.

Run `mcu_run_loop` (counts None, 0, 1, 2; ends None or any of three
addresses; ARM and Thumb state; two runs): `StepBound` (a positive count
bounds the instructions executed), `RunReturns` (a positive count, a hook's
`stop()` or reaching the end address makes `run` return) and
`NoStepAfterStop`. `run(count=0)` is unbounded, like unicorn's own
`count=0`. Mutants: no None default, no Thumb bit on `end`, the count test
before the decrement, and a `stop()` that leaves `runable` set.

## 6. The GuestString model

`read_string` is the RECURSIVE operator `ReadString`. It reads
terminator-sized chunks, decodes each with `Utf8` (UTF-8 with
`errors='ignore'`, for bytes below 0xE0), and stops at the first chunk that
decodes to the terminator. `ReadCString` and `ReadWString` are the handlers,
and both call `Ledger!StringAppearance(SplitSpace(s))`. Guest memory is
chosen at the start: every string of up to four bytes over NUL, space, `A`,
0xC3 and 0xA9, followed by zero bytes. It is read at every offset. The
reference `SpecText` is what the spec says: the bytes before the first
terminator chunk, decoded as a whole (UTF-8 or UTF-16LE), with NULs stripped
from wide strings.

`ReadGuid` reads 16 bytes at an offset; memory past the modelled bytes is
zero. `UuidBytesLe` is `UUID(bytes_le=...)` as the byte reorder it does,
and `UuidFields` splits the result into `UUID.fields`. Each field is kept as
a big-endian digit sequence, so no 128-bit integer is needed. The reference
`GuidStruct` is the spec's GUID: Data1, Data2 and Data3 little-endian,
Data4 in order.

* `guest_strings` (pass): `TypeOK` (returned text has no NUL),
  `AsciiReadExact` and `GuidFieldsMatch` (the UUID's fields are the GUID
  structure of the bytes read; mutant: `UUID(bytes=raw)`). Other mutants: `read_wstring` without the replace, and the
  terminator chunk appended before the test.
* `string_decode` (violation, `ReadMatchesSpec`): the wide unit `A9 00` (©)
  reads as the empty string. Per-chunk decoding also turns the narrow `C3 A9`
  (é) into the empty string and the wide unit `C3 A9` into `é`.

## 7. The FormatString model

One hook call: `ReadArgs` (`va_list`: `format.count('%')` words), then
`Sprintf` or `Printf`, then `UpdateEllipsis`. `Format` runs
`__common_printf`:
* `Deref` is the loop over `format.split('%')[1:]`. It dereferences pieces
  starting with `s`, filing the text in the ledger. A read at a non-pointer
  faults, and the text filed before the fault stays.
* `ReplaceP` is the `%p` to `%#x` replace. There is no `l` in the modelled
  alphabet, so the `%llx` replace never applies.
* `PyFormat` is Python's `%` operator for the conversions involved: an
  unknown type, a missing argument or a left-over argument raises.

The output is compared with `CFormat`, C's printf, which is what the spec
asks the emulator to reproduce. Formats are every sequence of up to four
characters over `%`, `s`, `d`, `p`, `5` (a width) and `a`. The four stack
words are each a pointer to a guest string or a plain integer.

* `format_plain` (pass): `TypeOK` (`va_list` read one word per `%`) and
  `PlainFormatsMatchC` (with plain `%s`/`%d`/`%p` the output is C's, and
  `update_ellipsis` files the dereferenced arguments), and
  `LoggedCallShowsArgs` (section 7a). Mutants: `va_list` one word short,
  and piece i dereferencing argument i+1.
* `format_percent_literal` (violation, `NoFormatError`): `printf("%%")`
  raises TypeError. `va_list` reads two words, and Python's `%` converts
  none of them.
* `format_width_string` (violation, `FormatMatchesC`): `"%5s"` prints the
  pointer as an integer.

## 7a. The CallLog model

`CallLog` holds operators only. `Stringify` is `repr` with its quote choice
and escapes, turned into double quotes. `PrintFunction` builds the parts of
the log line: the name without `hook_`, each argument through
`__assign_arg` (names under `__qlva_` are dropped), the return value and
the passthru flag. `FormatString` composes it through `INSTANCE CallLog`.
`ReadArgs` records the hook's declared parameters. `UpdateEllipsis` appends
one parameter per `va_list` word, named `__qlva_<i>`. `LogCall` is the log
call the hook wrapper makes after the hook returns. The guest string is
`<<"'", "\">>`, so the quote choice and both escapes are exercised.

`LoggedCallShowsArgs` (run `format_plain`) says that the logged line names
the hook without its prefix, shows the declared arguments and then one
unnamed argument per `%`. The argument a `%s` consumed shows as the quoted
text it pointed to. Mutant: `update_ellipsis` filing the raw `va_list`
words instead of the dereferenced ones.

## 8. The ExecArbitrary model

`ExecArbitrary(start, end)` is the whole call: `old_sp`, `ret =
stack_read(0)`, the hook at `end`, and `stack_write(0, start)`. `HookFires`
runs `restore` (`sp = old_sp + 1`, `pc = ret`, remove the hook) when the pc
reaches a hooked address. The guest is the environment:
* it executes code;
* it calls hooked APIs, which push a return address;
* an API returns as a cdecl `ret`.

Redirected code may itself call an API that redirects again, and one API may
redirect twice. History fields record each API call's true return frame.

Bounds: two code addresses, one return address, API calls nested three
deep, three `exec_arbitrary` calls and five API calls per behaviour. That
is enough for a redirect inside redirected code inside redirected code, and
for one API to redirect twice.

Run `exec_arbitrary` checks `TypeOK`, `CapturedFrameRight` (every pending
restore pops exactly the API's return slot and goes to the caller or to the
redirect registered before it). Mutants: the return slot read after it is
overwritten, and a restore that does not pop the slot.

Three hazards are listed without a property:
* `hret.remove()` (line 209). A property that a restore hook never
  outlives its call would only restate the history variable that
  `HookFires` maintains. The version stated on the stack does not hold,
  because of the next item.
* two hooks on one `end` address, where the outcome depends on the order
  qiling's hook dispatcher (outside `src/`) runs them. If the earliest
  fires, the outer call's restore returns past the inner frame;
* a stdcall API, whose callee-popped arguments `restore` pushes back.

## 9. What is not modelled, and why

* 32-bit and 64-bit structure layouts: the model keeps fields, not bytes.
  Both handlers choose the layout by `archtype == X8664`; `io_Write` reads the
  device object by `archbit == 32`, which agree for the architectures the
  Windows loader supports.
* Non-Windows `ioctl` (returns None) and the `ostype` test of `io_Write`: the
  driver object exists only for Windows.
* The `"` that `stringify` leaves unescaped: the call log's alphabet includes
  it (`Repr` models it), but no run compares log lines for ambiguity. It is
  listed as a hazard.
* The address prefix and the log level of `print_function`: they depend on
  the verbosity only.
* The character counts `sprintf`/`printf` return and the byte encodings
  they write: the output is compared item by item, not byte by byte.
  `len(out)` counts code points, not the encoded bytes C reports. This is
  listed as a hazard (line 183).
* A driver outside the WDK contract (reporting more than OutputBufferLength,
  repointing IRP buffers): listed as hazards with notes.
