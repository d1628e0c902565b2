# TWAPI: a verification project

TLA+ models of the parts of TWAPI (the Tcl Windows API extension, `src/twapi`)
that have a protocol of their own: state shared by Tcl threads, the Windows
thread pool, the kernel and callbacks. TLC checks the models on small
instances; TLAPS proves the central invariants for every instance.

## 1. Inventory

TWAPI is a set of modules, each a set of Tcl commands. Most commands call one
Win32 function and keep nothing. The parts below keep state.

| Component | State | Operations | Interacts with | What makes it correct |
|---|---|---|---|---|
| Named pipe channels, `namedpipe/namedpipe.c` | per channel: reference count, flags, error, two `io[]` records (state, `OVERLAPPED`, event, wait), owning thread | create server and client, accept, input, output, watch, block mode, thread insert and remove, close; event source; pool handler | Tcl channel layer and notifier, kernel, thread pool, peer | byte streams are intact, no wake-up is lost, no callback outlives the channel, close ends |
| Callback queue, `base/async.c` | `TwapiCallback` (reference count, response, completion event), Tcl event queue | new, enqueue with or without waiting, run, unref, delete | any thread to an interpreter thread | each callback runs at most once, on the right thread; waiter and runner agree on the answer; every reference is dropped |
| Thread-pool waits, `base/threadpool.c` | registrations of a context, two references each | register, signal, unregister, shutdown | pool, callback queue | no callback for a registration that is gone; each is freed once |
| Interpreter contexts, `base/twapi.c` | `TwapiInterpContext` list, references; `TwapiTls` per thread; module table | allocate, ref and unref, clean up, register module | everything | a context lives as long as it is referenced; finalizers run once per interpreter; thread-local state outlives its users |
| Directory monitors, `storage/dirmonitor.c`, `tcl/storage.tcl` | monitor (references, handle, event, wait, buffer), list, scripts | register, pool function, callback, unregister | kernel, pool, interpreter thread | a buffer has one owner; scripts hear of every change in order; shutdown frees all |
| Services, `service/service.c`, `tcl/service.tcl` | the one service context of the process; per service: state, checkpoint, sequence numbers, timers | become a service, control handler, service thread, update, report | SCM threads, callback queue, application | the SCM has the right state and is kept informed; late answers do no harm; pending states end |
| LIFO allocator, `base/memlifo.c` | chunks, marks | alloc, push and pop mark, frames, expand, shrink | all commands of a thread | popping a mark frees exactly what was allocated since |
| TLS channels, `tcl/tls.tcl`, `tcl/sspi.tcl` | handshake state, input and output buffers, watch mask | create, negotiate, read, write, watch, blocking, close, socket handlers | reflected channels, sockets, SSPI | no byte lost between handshake and data; end of file after the last byte; negotiations end |
| Device notifications, `device/device.c`, `tcl/device.tcl` | `TwapiDeviceNotificationContext` (references, window, registration), the registry, the scripts | start, stop, open and close windows, window procedure, callback | one notification thread for the process, the system's events, callback queue | a context lives as long as it is referenced; a stopped notifier is released; the system is always answered |
| COM sinks and servers, `com/comserver.c`, `tcl/com.tcl` | `Twapi_ComServer` (references), `_sinks` and `_connection_pts` of an object, the process count | make, invoke, bind, unbind, destroy, create instance, lock | event sources, clients, scripts that run inside calls | an object in use is not freed; bindings end with their object; the process may exit only when idle |
| Console control handler, `console/console.c` | the context that is told, one per process | hook, unhook, handler | callback queue | part of `CallbackQueue` (`Consoles`) |
| The rest (other COM, crypto, ETW, event logs, network, UI, shell, ...) | the operating system's, or reference counts of one object | one Win32 call per command | Tcl | conversions of data |

Hard behaviours: completions that race with the thread that started the I/O;
waits that are unregistered while their callbacks run; state that is shared
without locks and changed by compare-and-swap; events in a queue whose object
is gone or has moved; a cancellation that takes too long; half-finished
creations; reference counts spread over several owners and threads; calls that
come in while a script handles another; answers that are late, missing or out of
order. `PROJECT.json` lists each at its line as a hazard.

## 2. Plan

Done:

1. `NamedPipe` (with `ByteStream`, `MCNamedPipe`, `NamedPipeProofs`): the most
   intricate protocol of the code.
2. `CallbackQueue` (with `AsyncCall`, its abstract specification, and
   `CallbackProofs`): the way from any thread of the system to a script, with
   the context it refers to.
3. `ThreadPoolWait` (also in `CallbackProofs`), composed with `CallbackQueue`:
   asynchronous waits on handles.
4. `DirMonitor` (with `DirMonitorProofs`): pool, kernel and interpreter thread over
   directory monitors.
5. `ServiceControl` (with `ServiceControlProofs`): the SCM, the Tcl thread and the
   application over the services of a process.
6. `MemLifo` with `LifoFrames`, its abstract specification (proofs in
   `ThreadStateProofs`).
7. `InterpContext` (with `ThreadStateProofs`): contexts, modules and thread-local state of
   several interpreters on several threads. One module has the proofs of both, since the
   pool is part of the thread-local state (`twapi.h:1006`) that the contexts of a thread
   point to (`twapi.c:571`).
8. `TlsChannel` (with `TlsChannelProofs`), refined to `ByteStream` in both directions.
9. `DeviceNotifier` (with `DeviceNotifierProofs`): the notification thread, its
   windows and the scripts.
10. `ComSink` (with `ComSinkProofs`): event sinks and server objects under incoming calls.

Left, in this order: the reference counts of the proxies of `com.tcl`; the listener of
`tls.tcl`; the consumer of event traces (`etw/etw.c`), whose callbacks run scripts inside
`ProcessTrace`; asynchronous name resolution (`network/`), which is another source of
`CallbackQueue`.

Each module has its bounds and outcomes as CONSTANTS with a named assumption,
one action per operation cut where another party can step in, and no recursive
operator, so that it can be proved about as it is checked.

## 3. The model of a named pipe channel

`NamedPipe` models one channel, a server or a client end, from the command that
creates it to the free of its structure.

| Variables | Code |
|---|---|
| `life` `thread` `nrefs` `flags` `winerr` | the `NPipeChannel`; `life` says whether it is allocated, open or freed |
| `state` `internal` `hwait` | `io[READER]` and `io[WRITER]`: `state`, `ovl.Internal`, `hwait` |
| `ahead` `wbuf` | the read-ahead byte and the write buffer |
| `pc` `unrefs` `emask` `held` | where the owning thread is in a procedure, and that procedure's locals |
| `events` `asleep` `told` | queued `NPipeEvent`s, threads blocked in `Tcl_WaitForEvent`, `Tcl_NotifyChannel` calls the script has not acted on |
| `inflight` `signaled` `queued` `sampled` | overlapped operations, auto-reset events, queued and running pool callbacks |
| `peer` `sent` `taken` `got` `wcount` `peerGot` | the other end and the data in both directions |
| `lapses` | history: the outcomes that break what the code counts on (below) |

Only `io[].state` is shared with the pool without a lock, so a procedure is one
action unless the pool or the kernel can step in between two of its accesses;
then it is cut there and `pc` names the place:

| Procedure | Actions |
|---|---|
| `Twapi_NPipeServerObjCmd`, `NPipeAccept` | `NPipeServer`, `NPipeCreateFails`, `NPipeAcceptConnected`, `NPipeAcceptPending` then `NPipeAcceptMark`, `NPipeAcceptFails` then the shutdown then `NPipeServerFailed` |
| `Twapi_NPipeClientObjCmd` | `NPipeClient`, `NPipeCreateFails` |
| `NPipeInputProc`, `NPipeReadData` | `NPipeInputRefused`, or `NPipeInputStarts`, `InputUnregister`, `InputWait`, `ReadDataNow` or `ReadDataBlocks` and `ReadDataUnblocks`, then the read-ahead |
| `NPipeWatchProc`, `NPipeWatchReads` | `NPipeWatchProc`, `WatchReadsIssue`, `WatchReadsRegister` |
| `NPipeOutputProc` | `NPipeOutputRefused`, `NPipeOutputBlocking`, or `NPipeOutputStarts`, `OutputIssue`, `OutputCas` or `OutputRegister` |
| `NPipeBlockProc`, `NPipeThreadActionProc` | `NPipeBlockProc`, `NPipeThreadRemove` with `NPipeThreadInsert` |
| `NPipeCloseProc`, `NPipeShutdown` | `NPipeClose`, `ShutdownUnregister`, `ShutdownWaitWriter`, `ShutdownEnds` |
| `NPipeSetupProc`, `NPipeCheckProc`, `NPipeEventProc` | `Sleep`, `NPipeCheckProc`, `NPipeStaleEvent`, `NPipeEventProc`, `EventWrite`, `EventNotify` |
| `NPipeThreadPoolHandler` | `PoolSample`, `PoolCas` |

External, modelled from how the code uses them: the kernel (`KernelConnects`,
`KernelReads`, `KernelWrites`, `KernelCancels`), the wait thread of the pool
(`PoolWait`), the peer, and other sources of events (`OtherWakeup`). An
auto-reset event is consumed by one wait; `UnregisterWaitEx` with
`INVALID_HANDLE_VALUE` returns when the callbacks of the wait have run.

Data: a byte is its number in the stream of the peer and a write is its number,
so an invariant can tell a lost, repeated or reordered one. Windows errors are
`SUCCESS`, end of file and the others. Left out: security descriptors,
impersonation, channel options, `NPipeGetHandleProc`, messages, and partial
completion of a write.

`lapses` records three outcomes that the environment may produce and after which the
code goes wrong (section 7): a write that is pended while the callback of an earlier one is
on its way, because that one had completed at once (`overtaken`); a connect whose wait the
pool refuses (`unwaited`); a read, write or connect that outlives the second `NPipeShutdown`
waits for it (`slow`). The model has all three, and goes on after them. Properties that they
break say so, and hold until then.

`ByteStream` is the promise of one direction: what is consumed is a prefix of
what was produced. `NamedPipe` implements it twice, with the peer as producer and
as consumer (`Input!Spec`, and `OutputUntilOvertaken`, which is `Output!Spec` until a
write overtakes a callback).

## 4. The models of callbacks and waits

`CallbackQueue` models every callback from the thread that makes it to the event
that runs it, and one interpreter context from the start of its interpreter to
`TwapiInterpContextDelete`.

| Variables | Code |
|---|---|
| `pc` `from` `timed` | the posting thread in `TwapiEnqueueCallback`, the source it posts for, whether it passes a timeout |
| `nrefs` `winerr` `response` `event` `signaled` | the `TwapiCallback` and its `completion_event` |
| `at` `queue` `stack` `thread` | the Tcl thread: events queued, callbacks being run inside one another, whether the thread lives |
| `interp` `tic` `sources` | the interpreter, the references and deletions of its context, the sources that refer to it |
| `posted` `started` `outcome` | history |

| Procedure | Actions |
|---|---|
| `TwapiCallbackNew` | `CallbackNew` |
| `TwapiEnqueueCallback` and its callers | `EnqueueRefused`, `Enqueue`, `WaitAnswered`, `WaitTimedOut`, `CallerUnref` |
| `Twapi_TclEventProc` | `Dispatch`, a callback function, `Signal`, `EventEnds` |
| callback functions, `TwapiEvalAndUpdateCallback` | `CallbackReturns`, `EvalBegins`, `EvalEnds`; `PlainBegins`, `PlainEnds` for one that evaluates a script by itself |
| registering and unregistering sources | `SourceOn`, `SourceOff` |
| `Twapi_InterpContextCleanup` | `InterpContextCleanup`, or inside `EvalEnds` when the script that ends has deleted the interpreter |
| external | `InterpDelete`, `ThreadExits` |

Scripts may enter the event loop: while one runs, `Dispatch` may take the next
event and run it inside. There are three kinds of source. A notification thread
(`Devices`) holds a reference to the context and drops it when it is through. A
wait of the pool (`Waits`) is unregistered with `UnregisterWaitEx`, which waits for
its workers; cleaning up a context does the same, and the model has that wait as
a guard, since the workers never wait for the Tcl thread. The console control
handler (`Consoles`) is unhooked without waiting for anyone.

`AsyncCall` is what a caller may rely on: calls begin in the order they were
posted, each at most once, and whoever waits is answered after the call has
finished or gives up. `CallbackQueue` implements it (`ServesCalls`).

`ThreadPoolWait` EXTENDS it with registrations as the elements of `Waits`: `life`,
`rrefs`, `hval`, `once` and `fired` are the `TwapiThreadPoolRegistration`; `reg` is the one
whose `RegisterWaitForSingleObject` has not returned; `ids` is `_wait_handle_ids` of
`tcl/handle.tcl`. `told` (the events that scripts were run for) and `closed` are history.

| Procedure | Actions |
|---|---|
| `wait_on_handle -async`, `TwapiThreadPoolRegister` | `WaitOnHandle`, then `Registered`: the pool may run callbacks in between, before the handle of the wait and its id are stored; or `WaitRefused` |
| `cancel_wait_on_handle`, `close_handle` | `CancelWait` for a name of type `HANDLE`; `CloseTyped` for a name of any other type, which cancels nothing |
| `TwapiThreadPoolRegistrationProc` | `Fire` |
| its event, `_wait_handler` | `RegistrationIgnored`, `RegistrationCalls` |
| `Twapi_InterpContextCleanup` | `Cleans` |

Each joins an action of `CallbackQueue` with what happens to the registration or leaves the
variables of `CallbackQueue` alone, so that what is true of the callbacks is true
with registrations in place.

Left out: the error `WAIT_FAILED`, the clipboard and window sources, the contents
of responses beyond whether they are the result, a message or nothing, and
values of the uninitialised `nrefs` so large that adding 2 wraps around.

### Directory monitors: `DirMonitor`

| Variables | Code |
|---|---|
| `life` `nrefs` `ticP` `handle` `event` `pooled` `iob` `pats` | `TwapiDirectoryMonitorContext` |
| `list` `count` `tic` | `DirectoryMonitors` of the context and its `zlist_count`; the references of monitors to the context |
| `io` `pend` `over` `used` `data` | the kernel's read and the changes it keeps, the buffers that are allocated |
| `late` | the buffer of a read that was cancelled and has not ended |
| `pool` | the worker in `TwapiDirectoryMonitorThreadPoolFn` |
| `queue` `interp` `scripts` | the Tcl thread: callbacks, the interpreter, `_filesystem_monitor_scripts` |
| `changed` `lost` `told` `failure` | history |

`Register`, `RegisterFails` and `RegisterRefused` are the three ends of
`Twapi_RegisterDirectoryMonitorObjCmd`; `Cancel` and `StorageCleanup` call
`Shutdown`; `PoolSends`, then `PoolRereads`, or `PoolErrs`, are the pool function,
cut between the callback it queues and the read it starts next; `Dispatch` is
`TwapiDirectoryMonitorCallbackFn` with `_filesystem_monitor_handler`. To close the
directory cancels its read, and `Shutdown` waits a second for that; with the fault `slow` the
read is still the kernel's when the buffer is freed, and perhaps allocated again, and
`LateEnds` is its end, which writes its status over that of whatever read is there. A change is
its number and a file name, a pattern is the set of names it matches. Left out:
the layout of `FILE_NOTIFY_INFORMATION`, the kinds of change, the callback's own
count (see `CallbackQueue`).

### Services: `ServiceControl`

`owner` and `master` are `gServiceInterpContextP` and the master thread; `state`,
`checkpoint`, `seq`, `seqack` are `service_state` of `tcl/service.tcl`, `timers` its
`after` commands; `queue` is the Tcl queue; `scm` is the last status the SCM was
given; `asked` and `updates` are the application. `ScmStarts` is
`TwapiServiceThread`, which reports `START_PENDING` by itself; `ScmControls` is
`TwapiServiceControlHandler`; `Handle` serves one control
(`TwapiServiceControlCallbackFn`, `_service_handler_unsafe`) or one timer
(`_call_scm_within_waithint`); `Update` is `update_service_status`, called for a
control (`Answer`) or not (`UpdateByItself`). Reporting a status is part of the
action that does it. Left out: exit codes, wait hints, the parameters of
notifications; the wait of the control handler is `CallbackQueue`'s.

### The LIFO allocator: `MemLifo`, `LifoFrames`

`heap` is what the pool holds of the heap, by chunk; `marks` is the list of
`MemLifoMark`s with their chunks, big blocks and free pointer; `frames` records the
blocks users were given, mark by mark; `skipped` says that a mark other than the
topmost was popped. Addresses are offsets in a chunk, so that overlaps show. Sizes
are in units of the alignment and are computed as the code does: sums are `DWORD`s and wrap
(`Dword`), the room in a chunk is compared as an `int` (`Int32`), a request near the largest
`DWORD` is rounded up to 0, and only what goes through `MemLifoAlloc` is compared with
`MEMLIFO_MAX_ALLOC`. `excess` says that a resize has been granted whose size this arithmetic
cannot express; its user then writes past the block, and the model goes no further.
`LifoFrames` is what `memlifo.h` promises: a stack of frames with blocks that stay apart. Left out: the panic
flags, `MemLifoValidate` and the dump, which only read.

### Interpreters: `InterpContext`

`interp` and `callback` are Tcl's view of an interpreter; `ctx`, `nrefs`, `attached`
and `listed` are its `TwapiInterpContext`s, one for the base module and one for
each other module; `tls` counts the references of the thread-local state of a
thread; `finalizer` and `finalized` are `modP->finalizer` and its calls; `holders` are the
callbacks, registrations and monitors that hold a context, and may release it in
a thread of the pool. `LoadBase` and `LoadModule` are `Twapi_base_Init` and
`TwapiRegisterModule` with their failures, `InterpCleanup` and `ContextCleanup` the
two deletion callbacks.

### TLS channels: `TlsChannel`

One channel, made by `tls_socket`, `starttls` or a listener. `ch` is the entry in
`_channels` (state, mask, buffers, handlers of the socket), the scripts that
`after 0` has queued for it, and what the socket holds; `call` is a blocking call in
progress; `peer` is what the peer has sent; `app` is what the application knows and
has read: `got` is what its reads have returned, `taken` also what a read took out of
`Input` and, since it raised an error, did not return (`lost`). `OnReadable` and `OnWritable` are the handlers of the socket,
`RunScript` the queued scripts, `CallStep` one round of a blocking loop; `Read`,
`Write`, `Handshake`, `SetBlocking`, `Watch`, `CloseWrite` and `Close` are the methods of
the reflected channel. SSPI is modelled as `tls.tcl` uses it: a step takes a flight
and yields one, decryption takes whole records and says what is left over or that
the stream has ended. Left out: the listener, a verifier that closes the channel it
verifies, and the negotiation that follows a request to renegotiate.

### Device notifications: `DeviceNotifier`

| Variables | Code |
|---|---|
| `life` `nrefs` `hnotif` `window` | `TwapiDeviceNotificationContext` and its hidden window |
| `registry` `posted` `sent` `waiting` | the notification thread: `gTwapiDeviceNotificationRegistry`, the thread messages, the messages of each window, the callback it waits for |
| `interp` `active` `queue` `running` | the Tcl thread: `_device_notifiers`, callbacks, the script that runs |
| `response` | `cb.response` |
| `events` `told` `vetoed` `reply` | history: the system's events and what the window procedure returned |

`Start`, `StartFails`, `Stop` are the commands of `device.tcl`; `Open`, `OpenFails`,
`OpenRefused`, `Close`, `CloseUnknown` are the messages of
`TwapiDeviceNotificationThread`; `Ignore`, `Notify`, `Query`, `QueryFails`, `Answered`,
`TimedOut` are the window procedure, which waits for the answer to a query inside
`TwapiEnqueueCallback`; `Discard`, `Tell`, `ScriptEnds` are the callback. An event has a
type and asks or informs. While the thread waits, no other window is served,
as in the code. Left out: the counts of callbacks and of the context
(`CallbackQueue`), scripts that enter the event loop, the layout of
`DEV_BROADCAST` structures.

### COM sinks and servers: `ComSink`

`refc`, `life` are a `Twapi_ComServer`, `outside` the reference an event source or a
client has; `obj`, `sinks`, `points`, `proxy` are an Automation object; `advised` the
connections of the sources; `servers` and `locks` the count of
`CoAddRefServerProcess`; `signal` is `com_shutdown_signal`; `leaky` is history: the objects whose
destructor does not end all bindings. The thread has a `stack` of
calls: scripts that COM calls (`Invoke`, `InvokeEnds`), `-bind` looking for the source
(`Bind`, `FindFails`, `BindSink`) and waiting in `Advise` (`Advise`, `StoreSink`, `BindFails`),
`-unbind` waiting in `Unadvise` (`Unbind`, `Unadvise`, `Unbound`, `UnbindFails`), destructors
with the sinks they have still to unbind (`Destroy`, `DestroyNext`, `Destroyed`). A call
comes in whenever the thread dispatches messages, which it does in a script and in a call
out, so that each can happen inside the other: a script may bind to, unbind from or destroy
the object whose `-bind`, `-unbind` or destructor it interrupts (`DestroyAgain` is a second
`-destroy` within the destructor). Left out: proxies and their
counts, references of factories, arguments and results, deleted interpreters.

## 5. Runs

| Run | What it shows | Bounds |
|---|---|---|
| `np_safety` | server and client, all watch masks, both modes, a peer that closes, creation and registration failures, every outcome of `WriteFile`, of the waits and of a close: references and callbacks are safe, what is read is a stream, what is written is one until a write overtakes a callback, and I/O outlives the channel only by the outcomes in `lapses` | 2 threads, 2 bytes, 2 writes, 2 callbacks |
| `np_liveness` | close ends, arrivals on a watched channel are announced, connects are seen, writes do not keep the event loop busy | one of each |
| `np_lost_connect` | violation: a connect that completes before `NPipeAccept` sets `PENDING` is never seen | 1 thread |
| `cq_timeout` | violation: a poster that times out leaves its reference to the callback behind | 2 callbacks, 1 device |
| `tp_waits` | a device that may wait for answers and a wait on a handle, refused, registered, cancelled and closed, whatever its structure held before; nested event loops, the interpreter deleted at any moment, the thread ending: counts of callbacks and of the context, no callback for a freed registration, the refinement of `AsyncCall`, queued callbacks run, scripts hear of every event of a wait they keep | 2 callbacks, 1 registration |
| `dm_monitor` | all failures, overflow, and reads that outlast their cancellation: references, buffers, order, and every change is told | 2 monitors, 4 buffers, 2 changes in all |
| `sc_service` | starts, controls and answers in any order: the SCM is right and kept informed, late answers do no harm, pending states end | 2 services, 4 controls, 1 update, checkpoints to 3 |
| `ml_lifo` | allocation, resizing, marks and pops in any order over a heap that runs out, with sizes at the edges of the arithmetic: until a resize beyond them is granted, memory is exact and `LifoFrames` is implemented | 3 chunks of 16, sizes 6, 18 (the first beyond the largest `int`) and 36 (rounded to 0), 3 marks, 3 blocks |
| `ic_contexts` | modules that fail to load, contexts released by the pool: thread-local state outlives its users, contexts are deleted when unused | 3 interpreters, 2 threads, 1 module |
| `tls_channel` | channels made by `tls_socket -async`, by `starttls -server` and by a listener, refused handshakes and peers, half-closed channels: both directions are streams to their end, unless a read loses data, an accepted channel is announced once, negotiations end, readers are told | 2 pieces of data, 1 record in parts, 2 writes |
| `dn_devices` | a handle and a class of interfaces, all failures: references, the release of stopped notifiers, answers to the system, events reach scripts | 2 notifiers, 2 events of 3 kinds |
| `cm_sinks` | calls during scripts, `Advise`, `Unadvise` and destructors: references, the idle process, the end of bindings | 2 structures, 1 object, 2 calls deep, 1 lock |

Properties, by run. The type invariant of a module is the first conjunct of one of
its invariants, named in parentheses; those of `CallbackQueue`,
`ThreadPoolWait` and `ServiceControl` are only proved.

- `np_safety`: `RefCountExact` (one reference per owner), `CallbackHasChannel` (no
  callback without its structure), `BytesAccountedFor` (types; every byte that left
  the pipe is delivered, in the caller's buffer or read ahead, in order),
  `KernelHasOverlapped` (shutdown frees nothing the kernel uses, but for what `lapses`
  records), `ByteStreams` (both directions implement `ByteStream`, output until a write
  overtakes a callback). `np_liveness`: `CloseEnds`, `ReadableTold`,
  `ConnectSeen`, `ThreadSleeps`.
- `tp_waits`: `CallbackRefsExact` (a reference for the event, one for a poster that waits),
  `ContextRefsExact`, `PoolHasRegistration`, `ServesCalls`, `QueuedRuns`, `EventTold` (each
  event by itself, also one that fires before the registration has returned).
  `cq_timeout`: `TimedOutReleased`, which is violated.
- `dm_monitor`: `MonitorRefsExact`, `BufferHasOneOwner` (types), `ToldInOrder`,
  `ChangeTold`.
- `sc_service`: `PendingReported` (the timer that is right is there), `ScmKnows`,
  `NoStaleAnswer`, `PendingEnds`.
- `ml_lifo`: `MemoryIsExact` (types; what users and marks point to is held, and
  nothing else is, until an excessive resize is granted), `KeepsFrames`.
- `ic_contexts`: `TlsOutlivesUsers` (types), `DeletedWhenUnused`.
- `tls_channel`: `AcceptOnce` (types), `TlsStreams`, `NegotiationEnds`, `ReadTold`.
- `dn_devices`: `NotifierRefsExact` (types), `StopReleases`, `SystemAnswered`,
  `EventReachesScript`.
- `cm_sinks`: `SinkRefsExact` (types), `ShutdownWhenIdle`, `BindingsEnd`.

Why the bounds are enough. Pipe: two bytes with reads of up to two cover a read-ahead
byte alone, followed by one from the pipe, and followed by nothing; two writes cover
one that starts while the completion of the one before is under way; two callbacks
let the event be signalled again while one runs; two threads, which differ only
in their names and are a symmetry set, suffice for a transfer and its return.
Callbacks: two are enough for one to run inside the other, for an order, and for one
poster to be answered while the other times out; a device and a pool wait are the
two ways in which a source lets go of the context. One registration with two callbacks has
an event of the wait in the queue, or being served, while another fires. Monitors: two share
the list, the handle values and the queue, and with two changes one is read while the
other is told; four buffers are one for each read and each callback. Services: two
share the queue and the end of the process; four controls are a start, a control that
overtakes its answer, and a restart. The pool of `ml_lifo` is large enough for a
chunk of small blocks, a big block and one to grow into; three marks give a pop
that skips one. Of the sizes one fits, one is the first that is no `int` and one is rounded
up to 0. Three interpreters, two of them in one thread, give sharing, the
last user of a thread, and one elsewhere. A TLS channel with two pieces of data
has one that comes with the last flight and one that comes later, and with two writes one is
buffered before the channel is open and one written after. Two notifiers
are enough for one to be kept waiting while the other's script is asked; two events
for an answer to be late for the next. Two structures are two sinks of one object, or
a sink and a client's object, which share the process count; calls two deep allow one
that is made inside an `Unadvise` which is itself inside a call.

`np_safety` has every outcome of `WriteFile`, of the pool and of the waits, and both
writes suffice for the second to overtake the callback of the first. That the buffer of a
write in flight is then really reused takes a third, with which the run would be too long.
`SafetyView` leaves the variable `told` out of the state, which no action and no safety
property reads.

What the passing runs leave out, and why. `tls_channel` has no `tls_socket` without `-async`
and no client side of `starttls`: the first creates a channel with the blocking loop that
`starttls -server` has too, the second starts like an asynchronous one. In
`np_liveness` the script watches reads only (`ReadMasks`). `ConnectSeen` starts when
the channel is open, after the window of `np_lost_connect`. `BytesAccountedFor` is
about a channel without an error, since an error drops the read-ahead byte. In
`tp_waits` `Consoles` is empty (section 7). In `ic_contexts` no command of a
module that failed to load is used (`"orphan"`). `BindingsEnd` is about objects that are not
`leaky`, `StopReleases` about notifiers the system has not refused.
`EventReachesScript` assumes that scripts return. No run checks for
deadlock: each of these parts may really have nothing more to do, or wait for a
peer or a user that stays silent.

Where the code does not keep a promise in all circumstances, the circumstances are in the
model and in the run, and the property is about what holds until then: `ByteStreams` until
`Overtaken`, `KernelHasOverlapped` but for `lapses`, `CallbackRefsExact` but for posters that
timed out, `TlsStreams` until a read loses data, `MemoryIsExact` and `KeepsFrames` until
`excess`, `ToldInOrder` and `ChangeTold` but for the changes in `lost`. The promise without
the exception is a definition that section 7 names.

Fairness. Code that has begun goes on; nothing is assumed of scripts, peers or the
system but what is said here.

- Pipe: weak fairness of `Continue` (a blocking read is enabled only when it can
  return), of the kernel and of the pool; strong fairness of `NPipeCheckProc`,
  `NPipeEventProc` and `Sleep`, since the event loop is entered again and again
  although scripts run in between. Nothing else is assumed to wake a sleeping
  thread.
- Callbacks: posters and the Tcl thread inside TWAPI go on and scripts end (`Run`),
  the event loop is entered when a script or the application gives it the chance
  (`Dispatch`), Tcl lets a deleted interpreter go (`InterpContextCleanup`).
- Monitors: weak fairness of each worker, of the event loop and of the cleanup.
- Services: weak fairness of the Tcl thread (`Handle`) and of the application's
  answers (`Answer`).
- TLS: weak fairness of the creation, of blocking loops, of the handlers of the
  socket, of queued scripts, and of the peer's flights; none of its data.
- Devices: weak fairness of the notification thread (`ThreadStep`), whose waits end
  by themselves, and of the event loop (`Serve`); a script may never return.
- COM: strong fairness of the ends of scripts, of `Unadvise` and what follows it, of
  destructors and of the release of references outside, since calls may come in
  between again and again.

Definitions whose name starts with `Bug` are mutations of the definition after
them. No action uses one; `PROJECT.json` pairs each with the property that must
notice it.

## 6. Proofs

`NamedPipeProofs` proves for every set of threads, outcome, fault and bound, from
`ConstantsAssumption` alone:

- `RefCountIsExact` (`RefCountExact`), `CallbackAlwaysHasChannel` (`CallbackHasChannel`) and
  `AtMostOneEvent` (`OneEvent`);
- `BytesAreAccountedFor` (`BytesAccountedFor`, types included) and `InputIsByteStream`, that
  the reading side implements `ByteStream`;
- `OneCompletionPerRead`, that the read-ahead has one completion at a time.

The first two share the invariant `RefInv`. `RefCountExact` is not inductive: that
the count is right after `NPipeShutdown` depends on the waits being gone and the
channel being off its thread's list when it gets there. `Control` records for
each `pc` the life of the structure, whether a thread owns it and which waits
are gone; with `CallbackHasChannel` (a wait is unregistered only when its
callbacks are drained) the whole is inductive. Actions are grouped by what they
do to the references: those that touch none (`QuietPreserves`, `StillPreserves`), registering
(`RegisterPreserves`), creation, unwatching, closing, the pool; `RefInvStep`
puts them together.

`OneEvent` needs `EventInv`: any queued event, also one on the queue of a thread the
channel has left, has `EVENT_QUEUED` set, or the channel could come back and
queue a second.

The bytes need `ReaderInv` and `InInv`. `ReaderInv` says what the state of the reader may
be at each `pc` and that a read is in one of four places: with the kernel, signalled, with
a queued callback, or with one that runs. Otherwise a completion that is counted twice
would make a read in flight look complete, and its byte would be taken before it is there.
`InInv` says where the bytes that have left the pipe are, in their order. The steps fall into
four sorts for the bytes (`NothingMoves` and the lemmas after it).

The writing side depends on what the environment does, and the theorems about it have no
hypothesis on that: they say what holds until one of the `lapses`, and of which.

- `OutputIsByteStream` (`OutputUntilOvertaken`), and with it `BothAreByteStreams`
  (`ByteStreams`): until a write overtakes the callback of one that completed at once, the
  peer gets what was written. A write that completes at once is itself a part of this;
- `CallbackAlwaysFindsIoCompleted` (`CallbackFindsIoCompleted`), the assertion of
  `NPipeThreadPoolHandler`: always for reads, until then for writes;
- `WriteBufferIsKept` (`WriteBufferKept`): the buffer of a write in flight is left alone until
  then;
- `FreedOwnsNoIo` (`KernelHasOverlapped`): a freed channel has a read in flight only if a
  cancellation was slow, and anything else only if one of the `lapses` has happened.

Their invariant is `WriterInvUntil`: `WriterInv`, the counterpart of the two above for writes and
the pending connect, until `Overtaken`. It says that an operation in flight is one whose state is
`PENDING` and which neither a signal nor a callback reports yet (`WriterIo`); a write that has
completed at once may leave either behind, and a write that is pended on top of them is what
sets `overtaken`. `FreedInv` is what `NPipeShutdown` has waited for at each of its points, and
`LapsesStep` that nothing is ever taken out of `lapses`.

`CallbackProofs` proves for every set of callbacks and sources, from
`CallbackQueueAssumption` (which makes these sets finite: the counts are
cardinalities) alone:

- `CallbackRefsAreExact` and `EventIsOpenInUse`, from `RefInv`: `RefCounts` states the
  count case by case, exact but for a poster that timed out, whose reference stays, `QueueInv` that the queue holds each queued callback once
  (or its head could be run twice), `ClosedInv` that an event is closed only with
  the last reference;
- `ContextRefsAreExact`, from `RefInv /\ ContextInv`: the count is a sum of
  cardinalities, and each action moves at most one element of each set;
- `ContextIsDeletedOnce` and `PostersHoldContext`, for `Consoles = {}`, from `LifeInv`,
  which adds that a poster's source is registered (`PosterInv`). The assumption is
  needed: with a console control handler TLC finds a counterexample (section 7),
  after which a late reference lets the count run out again;
- `TypesAreKept`;
- `FrameworkServesCalls` (`ServesCalls`): `CallbackQueue` implements `AsyncCall`, with the
  refinement mapping that the run checks. `PromiseInv` adds `OrderInv`, that what is posted
  is what has started followed by the queue, as long as the thread lives, and `CallInv`, that a
  poster's event is set only when its callback function has returned;
- `AnswersAreOutcomes`: a poster that is answered reads what its function left. `AnswerInv`
  says that nobody writes the answer after that, as long as a poster may read it.

The second half of `CallbackProofs` is about `ThreadPoolWait`, for whatever `nrefs` started from.
That every step is one of `CallbackQueue` or a stutter is the lemma `WaitsUseQueue`, which
carries the counts (`WaitsKeepCounts`) and the refinement of `AsyncCall` (`WaitsServeCalls`)
over to what the run checks. `PoolAlwaysHasRegistration` (`PoolHasRegistration`) is from `ListInv`:
the listed registrations are the sources of kind `Waits`, each with at least the references of
the list and of the pool, so that the pool never meets one that is freed, not even before
the call that registers it has returned. `WaitTypesAreKept` is the type invariant.

`DirMonitorProofs` proves for every set of monitors, handles, buffers and names, every fault and
bound, from the assumption of `DirMonitor` alone:

- `MonitorRefsAreExact` (`MonitorRefsExact`) and `MonitorTypes`. `CtxInv` is the second half: while
  the module has its list, the references to the interpreter context are those of the monitors
  on it; afterwards they may be too few (section 7). `RefInv` counts case by case
  what a live monitor owes (`Owed`): the list, the pool, and each callback in the queue. One
  that is freed, or that a refused wait has leaked, owes nothing, and a leaked one has at most
  the one reference that is left;
- `BufferHasOneOwnerAlways` (`BufferHasOneOwner`), from `BufferInv`: the buffers of monitors
  and of callbacks are allocated and all different, and no other is allocated. A read that
  was cancelled and has not ended may have a buffer that is no longer, or again, allocated
  (`late`), which the property leaves out and `LateReadHasBuffer` states;
- `ToldInOrderAlways` (`ToldInOrder`), from `FlowInv`. The changes of a monitor are on a way of
  places (`At(m, k)`): what the script was told, the callbacks in the queue from first to last,
  the buffer that is read, and what the kernel keeps. In each they are in order, those of a
  place are older than those of the next (`InOrder`); while a script listens each change that it
  wants and that was not lost, to an overflow or to the late status of a cancelled read, is in
  one of them (`Covered`), and what was told leaves out none
  before it (`ToldAll`). `ToldInOrder` speaks of the first place only and is not inductive. A step moves, drops or joins neighbours
  (`Moves`). That the first pattern that matches decides is `FirstMatchDecides`.

`TlsChannelProofs` proves for every way to make a channel, every fault of the peer and every
bound, from the assumption of `TlsChannel` alone:

- `SentIsByteStream`, that what is sent implements `ByteStream`; `ReceivedIsByteStream`
  (`ReceivedUntilLost`), that what reads return does, until one raises an error with data it has
  taken; `EndIsLast`, that the end of the stream comes after its last byte, unless bytes were
  lost so; and their conjunction `BothAreStreams` (`TlsStreams`);
- `AcceptsOnce` (`AcceptOnce`, types included): the accept callback waits once, from when a
  connection is open until it has run, and the application knows no other connection.

Actions are put together from operators that take a channel and return one, or a set of
outcomes. What a read returns and what it took are kept apart (`got`, `taken`), and are equal
until data is lost. So the invariant is a predicate of records, `Good(c, p, a)` of a channel, the
peer and the application, and each operator has a lemma: given a good channel it returns good
ones from which `out` only grows. `DataInv` says that what the application has taken, `Input`, and
the data in the socket are successive runs of what the peer sent, and that a channel is `CLOSED`
in an orderly way only with nothing left in the socket; `OutInv` the same of `out`
and `Output`; `FlightInv` that the flights taken and those in the socket are those the peer
sent, so that the step that completes the negotiation takes the last one and no data is
mistaken for it; `ScriptInv` which scripts are queued in which state. A channel that
fails, in the midst of an operator, may hold data that it has not read; it is good as soon as
its socket is disregarded (`Shut`), which is what the end of the operator makes of it. `CallInv`
keeps a blocking call and the socket it blocks on together. The model says `Flights` and
`Whole` as sets and sequences of units, and decryption as a recursive function, so that these
can be reasoned about.

Sequences are handled by positions and sets of positions: the prover cannot expand an
operator that is defined by recursion (`SelectSeq`, folds), so `DirMonitor` removes elements
by `Keep`, and properties of a recursive function are proved by least counterexample
(`LeastNumber` and `UpTo`, from `WFMin` of the well-foundedness of `<`), for which a set is
enough and no operator parameter is needed.

`ServiceControlProofs` proves for every set of services, control and bound, from
`ServiceAssumption` alone:

- `TypeInvariant`: `Spec => []TypeOK`, in three parts, since sequence numbers and
  checkpoints are typed each by its own argument;
- `PendingIsReported`: `Spec => []PendingReported`, which with the types is inductive as
  it stands: `Report` sets the timer that `Timer` will find right;
- `ScmIsRight`: `Spec => []ScmKnows`, from `Starting`: a start that
  `TwapiServiceThread` has reported is in the queue behind what came before;
- `StaleAnswersIgnored`: `Spec => NoStaleAnswer`, from `AnswerInv`: the controls the
  application has not answered are a sequence, the last of which is `seq`;
- `StartRevives` and `CheckpointsGrow`: only a start brings a stopped service back, and
  the SCM gets growing checkpoints within a pending state.

`ThreadStateProofs` proves of `InterpContext`, from `InterpAssumption` alone and when `Faults` leaves out
`"orphan"`, `TlsIsHeld` (`Spec => []TlsOutlivesUsers`) and `DeletedWithLastUser`
(`Spec => []DeletedWhenUnused`), from `ContextInv`:

- `Counted`: a ready context counts its holders and, twice, that its interpreter has
  not cleaned up yet; a failed one has a count of 1, no holder and is still in the
  list. Without the latter the two references its cleanup gives up could delete a
  context that is held, which is what `"orphan"` leads to;
- `Used`: the users of a thread's local state are finitely many and no more than it
  counts, interpreters and contexts each a set of their own;
- `NewHasNone`: an interpreter loads the base module once.

Its second half is about `MemLifo`. For chunks, headers, marks and blocks of any sizes, zero
included, up to what a `DWORD` rounds to 0, and any number of marks and blocks, it proves `MemoryIsAlwaysExact`
(`LifoSpec => []MemoryIsExact`) and `PoolKeepsFrames` (`LifoSpec => KeepsFrames`, the
refinement of `LifoFrames`) from `SizesAssumption`, both until a resize is granted whose size is
beyond the arithmetic (`LifoInvUntil`): a step that is not `Excessive` never adds beyond a
`DWORD` nor compares what is no `int`. `MemoryIsExact` looks at the topmost mark
only, so that it says nothing of what is left after a pop, and `KeepsFrames` needs to know
that memory which is free for the topmost mark was never given out below it. `LifoInv` says
both, mark by mark:

- `Sound` and `Placed`: a mark reaches different chunks, all of them held, and its last
  block is the last thing in its chunk;
- `Level`: its other blocks, and the mark itself, lie in what it had given out before
  its last block (`Before`), which is what may be resized without touching them;
- `Above`: it takes memory behind everything the marks below have given out (`Follows`),
  and its blocks lie outside of that (`Clear`): popping it gives back a mark that is as
  sound as before, with the chunks it had;
- `Exact`: the heap has what the topmost mark reaches, until a mark below it is popped.

The lemmas on allocation and resizing say of every outcome that it gives a block behind
what the mark held, so that the proof of an action needs no cases of the allocator.

`DeviceNotifierProofs` proves `NotifierRefsAreExact` (`Spec => []NotifierRefsExact`) from
`DeviceNotifierAssumption`. Its invariant `RefInv` says of each notifier (`Held`) that it is in
the registry exactly while its window is open, and that the message that adds it is
on its way at most once, before there is a window: else the notification thread
could take it a second time and give the one reference to two windows.

`ComSinkProofs` proves `SinkRefsAreExact` (`Spec => []SinkRefsExact`) and
`ShutsDownWhenIdle` (`Spec => ShutdownWhenIdle`) from `ComSinkAssumption`. The invariant is
`ComInv`: a structure counts whether `-bind` has it and whether `_sinks` has it, whether
something outside has it, and its calls in the stack, and it is bound only once, with `Advise`
not yet decided (`Asks`), decided (`Keeps`) or in `_sinks` (`Counted`); `_sinks` and
`_connection_pts` agree, and what they name belongs to the object (`Bound`); a `-bind` or `-unbind`
in the stack is of a structure with an owner (`Good`); the count of the process is its locks and
its live structures (`Total`), so that the step that brings it to zero leaves neither.

Proved of properties that no run checks by themselves: `AtMostOneEvent`, `OneCompletionPerRead`,
`CallbackAlwaysFindsIoCompleted`, `WriteBufferIsKept`, `EventIsOpenInUse`,
`ContextIsDeletedOnce`, `PostersHoldContext`, `AnswersAreOutcomes`, `StartRevives`, `CheckpointsGrow` and the types.

Only model-checked:

- liveness, which is beyond this prover, as is `ENABLED`: `CloseEnds`, `ReadableTold`,
  `ConnectSeen`, `ThreadSleeps`, `QueuedRuns`, `EventTold`, `ChangeTold`, `PendingEnds`,
  `NegotiationEnds`, `ReadTold`, `StopReleases`, `SystemAnswered`, `EventReachesScript`,
  `BindingsEnd`.

## 7. Deviations

What the code does against what its comments, its documentation or its own
assertions say, or what is plainly not meant. The lost connect and the reference of a poster that timed out have
runs and are under `findings`. The others were met while modelling; most are in the models, where
a definition without a run states the promise that TLC finds violated.

Named pipes:

- `WriteFile` that completes at once signals the event, and its callback finds the
  next write in flight, against the assertion of the handler (`namedpipe.c:974`): that write
  counts as complete, and the one after it uses the buffer and the `OVERLAPPED` the kernel has
  (`NoWriteOvertakes`; what the other properties say is until then);
- a transfer with an event queued leaves `EVENT_QUEUED` set for ever
  (`EventFlagMeansQueued`, `namedpipe.c:471`);
- the read-ahead byte is dropped when the peer has closed behind it
  (`EofAfterLastByte`);
- a blocking read that holds the read-ahead byte waits for another (`namedpipe.c:769`);
- a non-blocking read of an unwatched channel without data returns 0, which the
  channel layer takes for end of file (`namedpipe.c:767`, `903`);
- a failed accept goes on with the freed structure (`namedpipe.c:1331`, `1342`), and a
  command that fails in `NPipeAccept` reads it (`namedpipe.c:1094`);
- a creation that fails before the first reference leaks the structure
  (`namedpipe.c:1343`: no references are dropped, so nothing is freed);
- a cancellation that takes more than a second leaves the kernel with a freed
  `OVERLAPPED` (`namedpipe.c:1135`, `1149`), and so does a connect whose wait the pool refuses,
  as its state is not yet `PENDING` when the shutdown looks (`namedpipe.c:1194-1200`;
  `NoIoOutlivesChannel`);
- a write that completes between the test of the state and its reset in
  `NPipeEventProc` is not announced as writable (`namedpipe.c:502`, `529`);
- a read-ahead left pending when the readable handler is removed makes a
  polling non-blocking reader see `EAGAIN` for ever (`namedpipe.c:618`, `843`);
- removing the writable handler of a blocking server channel before its client
  connects takes the connect from the pool for good (`namedpipe.c:671`);
- a client that was waiting when the server channel is created causes no event,
  although the code asks for one (`namedpipe.c:1312`): the state stays `IDLE`.

Callbacks and waits:

- the reference of a poster that timed out is never dropped, so its callback and
  event stay (`TimedOutReleased`, `async.c:84-85`, `100-104`; run `cq_timeout`);
- unhooking the console control handler can delete the context that the handler is
  about to use (`ContextOutlivesPosters` with `Consoles`); the handler also reads
  `console_control_ticP` again after its test (`console.c:254`, `261`), when it may
  have become `NULL`;
- the count of a registration is incremented without having been set
  (`threadpool.c:130`, `151`): with anything but 0 in the heap it is never freed
  (`RegistrationFreed`);
- a wait is stored under the handle cast to `HANDLE` (`handle.tcl:72`, `118`), but to cancel it the
  name is taken as it is (`handle.tcl:125-134`): with a handle of another type nothing is
  cancelled, and `close_handle`, which says "Cancel waits on the handle, if any" (`handle.tcl:23`),
  closes it while the pool waits on it (`ClosedHandleHasNoWait`);
- `TwapiCallbackDelete` closes the event and clears the response but does not free
  the structure (`async.c:193`), which a refused `CreateEvent` also leaves behind;
- `TwapiCallRegisteredWaitScript` evaluates without `Tcl_Preserve` (`threadpool.c:205`),
  unlike `TwapiEvalAndUpdateCallback`, so nothing of TWAPI keeps an interpreter that
  such a script deletes; the model lets Tcl clean it up only after the script.

Interpreters:

- the cleanup of one context resets the finalizer of its module, which is shared by
  all (`FinalizersRun`, `twapi.c:638-641`): the monitors and the console handler of
  interpreters deleted later stay;
- a context released by another thread never drops its reference to the local state
  of its own (`TlsFreed`, `twapi.c:614`);
- a command of a module whose initialisation failed can use, and delete a second
  time, a context that has been deleted (`"orphan"`, `twapi.c:806`).

Directory monitors:

- a monitor the pool refuses is unlinked twice and leaves the count of the list
  wrong, so that cleaning up may leave monitors running (`MonitorsEndWithInterp`,
  `dirmonitor.c:136`), and one reference and the structure leak;
- a monitor whose reads failed is freed with its event open, against the assertion
  (`EventClosed`);
- the shutdown waits one second for the read that it cancels ("Read was in progress. Wait for it
  to complete", `dirmonitor.c:689`), and then frees the buffer although "I/O could be in progress"
  (`dirmonitor.c:248`): the read may write over memory that is used again, and spoil the status
  of another (`LateReadHasBuffer`);
- a monitor that the cleanup has left behind drops its reference to the interpreter context each
  time it is shut down (`ContextHeldOnce`, `dirmonitor.c:704`), which may delete it under others;
- the changes the kernel has no room for are lost without a word, where
  `storage.man:126` has the script invoked when a change is detected.

Services:

- an update with sequence number 0 sets `seqack` back, after which the service can no
  longer change by itself, to stop included (`StopsAtAnyTime`, `service.tcl:924`), which
  `service.tcl:945` and `services.man:979` promise;
- `_service_handler` returns nothing (`service.tcl:765-773`), so a decision to deny a
  control never reaches the SCM (`services.man:697`, `721`, `764`);
- an answer to an older control is taken when none is outstanding, against
  `services.man:683-685`;
- the application can be told that all services have stopped while a start is queued;
- a console handler or thread that cannot be made leaves the process claimed
  (`service.c:165-184`);
- an interrogation queued before a stop is served after it, and reports `STOPPED`
  over a newer `START_PENDING`.

LIFO allocator:

- closing does not free what the bottom mark holds (`CloseFreesAll`), nor does popping
  a lower mark free the chunks of those above it (`PopFreesAll`);
- `MemLifoValidate` checks the sequence numbers of marks backwards;
- a resize beyond the largest `int` is granted although the chunk has no room for it: the sum is
  a `DWORD` that may be rounded to 0 (`memlifo.c:510`, `636`) and the room is compared as an `int`
  before there is any limit (`memlifo.c:518`), against `memlifo.h:236` (`MemoryIsHeld`);
- growing a block that has to move goes through `MemLifoAlloc`, which panics if the pool
  says so, where `memlifo.h:239-240` says that the function does not.

TLS channels:

- data that came with the last flight, and the end of the stream, are not always told
  of by a readable event (`LeftoverTold`, `EndTold`);
- with the write side closed, a read that meets the closing alert loses the data
  before it (`NothingLost`);
- the cleanup of a failed accept may close a channel the application has
  (`OnlyAppCloses`);
- `tls_handshake` that fails leaves the state `NEGOTIATING`; a negotiation that blocks
  fails when data and the alert come behind the last flight; a request to
  renegotiate closes the channel; `watch` for a socket that has gone raises an error
  before its write part; `-blocking 1` removes the readable handler; a connection
  whose verifier closes it can leave a stray channel.

Device notifications:

- when the system refuses to register a device, the window of a handle is destroyed
  but the reference it had stays (`device.c:699`, `502`), and the window of an interface
  class stays open and goes on reporting what all windows are told (`device.c:721`);
  stopping such a notifier does not find it, where `device.man:283-285` says that this
  releases its resources; the script is not told (`device.c:951`);
- `TwapiDeviceNotificationContextDelete` does not free the structure (`device.c:926`), and
  arguments that cannot be parsed leave it too;
- deleting an interpreter leaves its notifiers, their windows and their references to
  the context;
- the message of a script that fails for an event without a response is leaked, as
  its type is overwritten (`device.c:485`);
- a notification thread that takes more than five seconds to start sets an event
  whose handle has been closed (`device.c:831`, `749`).

COM:

- `-unbind` releases the sink but never the connection point (`com.tcl:3740-3753`), where
  `com.tcl:3727` says that both are released at unbind time;
- an `Unadvise` that fails leaves its sink, and in a destructor the other sinks and the
  proxy too (`BindingsAlwaysEnd`, `com.tcl:3420`); one that a script enters again from
  within has the same effect, and so has a second `-destroy` that a script makes within the
  destructor: the object goes at once, and the first cannot unset its variables
  (`com.tcl:3514-3516`, `3744-3745`);
- a `-bind` within the destructor, or which the destructor overtakes in `Advise` or before, adds a
  sink that nobody unbinds; when the object has gone its variables cannot be set, the sink is
  released but the connection stays (`com.tcl:3705-3711`);
- `memids` of a class factory is released (`comserver.c:557`) without ever being set;
- the destructor of `ComFactory` does not release its interface (`com.tcl:3927`);
- `start_factories` with a script calls `namspace`, which is no command, and raises an error
  (`com.tcl:3990`);
- `Twapi_ComServer_Invoke` evaluates without `Tcl_Preserve` (`comserver.c:387`).

## 8. Not modelled

- The rest of COM (`com/com.c`, `variant.c`, most of `com.tcl`): proxies and
  the conversion of VARIANTs; calls keep no state but the counts of the objects
  that Windows keeps. Counts of proxies are planned (section 2).
- Cryptography and certificates, security, accounts, processes, network
  configuration, shares, printers, tasks, performance data, windows and shells: one
  Win32 call per command and conversions of its data. What they allocate belongs to
  the command, or to a handle that the script closes.
- Event tracing, event logs, name resolution: reading and asking, planned where a
  callback is involved.
- The hidden windows of `base/win.c` and the clipboard: the creation of windows is part of
  `DeviceNotifier`; their other use posts callbacks like the sources of
  `CallbackQueue`.
- Sub-slots of thread-local state, trace flags and linked variables, the registry of
  pointers, which checks handles that scripts pass.
- `base/tclobjs.c`, `calls.c`, `ffi`: parsing and conversion.
- Vendored Tcl headers, `metoo`, the decompressor, generated declarations, build and
  documentation tools.

`PROJECT.json` gives the reason for each component.
