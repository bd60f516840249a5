# Formal models of the xenvbd driver

These modules model xenvbd, the Windows paravirtual block driver for Xen guests: the StorPort
miniport `xenvbd.sys` (`src/xenvbd`) between StorPort, the xenbus interfaces and the block backend,
and the crash-dump driver `xencrsh` (`src/xencrsh`), which writes to the disk after the kernel has died. TLC checks them on small instances; TLAPS proves the theorems listed below
for every value of the constants.

Paths are relative to the repository. The code that is compiled with `ASSERT` stops the machine
when one fails, in free builds too, so a failed `ASSERT` is a state of the models.

## The system

| Component | Source | State | Operations | What must hold |
|---|---|---|---|---|
| SRB data path | `pdo.c`, `queue.c`, `fdo.c`, parts of `frontend.c` | four SRB queues, the SRB extension, request lists, `Paused` | StartIo, prepare, submit, DPC, reset, flush, abort, resume | no SRB lost, inserted or completed twice; status tells the truth; flush after data |
| blkif ring | `ring.h`, `frontend.c` 290-550 | shared and private indices, slots, event indices | push, consume, final check, DPC, unmask | no slot reused before it is read; no notification lost |
| Frontend state machine | `frontend.c` | `State`, store paths, watches, ring memory, grants, event channel | Prepare, Connect, Enable, Disable, Close, D0/D3, SuspendLate | resources released once; every state has a way on |
| Target lifecycle | `pdo.c`, `fdo.c`, `driver.c` | references, PnP and power states, the Targets table | enumerate, start, remove, surprise removal, eject, power | no use after destruction; a missing target goes away |
| Threads | `thread.c`, `fdo.c` | event, `Alerted` | Wake, Alert, Join | no wake-up lost, a join ends |
| Bounce buffers | `buffer.c` | free and used lists | get, put, reap | a buffer is in one place |
| Segmentation | `pdo.c` 870-1130 | SG list cursor | PrepareReadWrite | segments cover the transfer exactly |
| Crash-dump driver | `src/xencrsh` | store ring, grant free list, heap, polled frontend | hypercalls, polled I/O | requests and responses matched, references and blocks in one place |
| Co-installer | `src/coinst` | registry | install steps | (sequential, not modelled) |

How they interact. StorPort calls `FdoBuildIo` and `FdoStartIo` at DISPATCH_LEVEL on any CPU
(`StorSynchronizeFullDuplex`, `fdo.c:1379`). The event channel's interrupt queues `EvtchnDpc`, whose
callback consumes responses, prepares fresh SRBs, submits prepared ones and completes flushes. Power
and PnP IRPs are handed to threads at PASSIVE_LEVEL, which drive the frontend's state under
`StateLock`, hence at DISPATCH_LEVEL. Suspend callbacks run on one CPU with the others captured.

What makes it hard: an SRB is handed between queues outside any common lock; publishing `req_prod`
is outside `RingLock`; the pause waits for one queue only; the ring is freed without the lock the
response loop holds; wake-ups are given at one place and needed at another.

## The modules

| Module | Models |
|---|---|
| `SrbPath` | the SRB data path of one target: queues, ring, DPC, reset, flush, power, suspend |
| `SrbPathProofs` | theorems about `SrbPath` |
| `BlkChannel` | abstract specification: what a blkif ring promises to its two ends |
| `BlkRing` | `ring.h` as `frontend.c` uses it, memory access by memory access; implements `BlkChannel` |
| `BlkRingProofs` | theorems about `BlkRing`, and that it implements `BlkChannel` |
| `Frontend` | the xenbus handshake of one target, ring resources, power, suspend, watches |
| `FrontendProofs` | theorems about `Frontend` |
| `Lifecycle` | the FDO's Targets table, references, enumeration, PnP and power IRPs, eject, removal, worker threads |
| `LifecycleProofs` | theorems about `Lifecycle` |
| `Prepare` | how a read or write is cut into requests and segments; bounce buffers, their copies and their reaper |
| `PrepareProofs` | theorems about `Prepare` |
| `CrashStore` | the crash-dump driver's XenStore client over the shared rings |
| `CrashStoreProofs` | theorems about `CrashStore` |
| `CrashFrontend` | how the crash-dump driver closes what the dead kernel left open and connects one disk |
| `CrashIo` | its polled data path; extends `CrashFrontend`, so the disk is first brought up |
| `CrashIoProofs` | theorems about `CrashFrontend` and `CrashIo` |
| `CrashHeap` | its heap of pages and chunks |
| `CrashHeapProofs` | theorems about `CrashHeap` |
| `MCSrbPath`, `MCBlkRing`, `MCFrontend`, `MCLifecycle`, `MCPrepare`, `MCCrashStore`, `MCCrashIo` | instances for TLC |

`SrbPath` sees the ring as two sequences (`reqs`, `rsps`) with the four positions that matter,
`BlkRing` opens one step of it (put, publish, consume, look again) into the memory accesses of the
macros, `Frontend` gives the sections `Disable`, `Close`, `FreeRing`, `NewRing`, `Enable` of
`SrbPath` their insides, and `Prepare` those of `PopFresh` ... `PrepareOk`, `PrepareFails` and of the
completion. `Lifecycle` has above them the PDO that all three are about: its `frontend` is TRUE when
`Frontend` would be ENABLED. `CrashIo` and `CrashFrontend` are one specification; `CrashStore` opens
the calls to XenStore that `CrashFrontend` makes in one step.

### SrbPath

One action per stretch of code that another actor cannot see the inside of: a critical section, or
the code between two lock operations. `pc[c]` is where CPU `c` is at DISPATCH_LEVEL, `cur[c]` the SRB
in its hands between two queues, `power` where the power thread is.

| Code | Definitions |
|---|---|
| `queue.c` | `InsertTail`, `InsertHead`, `Pop`, `RemoveFrom` on `queue` and `queueHead` (SrbExt->QueueHead) |
| `FdoStartIo`, `PdoReadWrite`, `PdoSyncCache`, `__PdoQueueShutdown` | `StartData`, `StartFlush` |
| `PdoPrepareFresh` | `PopFresh`, `PrepareOk`, `PrepareFails` |
| `PdoSubmitPrepared`, `FrontendSubmitRequest`, `FrontendPushRequests` | `PopPrepared`, `Submit`, `PutBack`, `QueueSubmitted`, `Mark`, `Push` |
| `EvtchnDpcFunc`, `FrontendEvtchnCallback`, `PdoCompleteSubmittedRequest` | `StartDpc`, `EnterComplete`, `ConsumeResponse`, `LeaveComplete`, `Unmask` |
| `PdoCompleteShutdown` | `Peek`, `PopShutdown`: one lock at a time |
| `PdoReset`, `FdoResetBus` | `StartReset`, `ResetFresh`, `ResetPeek` |
| `PdoD0ToD3`, `__PdoPauseDataPath`, `PdoAbortAllSrbs`, `PdoD3ToD0` | `Pause`, `SeeDrained`, `SetState`, `Disable` ... `Enable`, `Abort`, `Unpause` |
| `FrontendSuspendLateCallback`, `PdoPreResume`, `PdoPostResume` | `PreResume` and `Suspend`, one step: the other CPUs are captured |

`__FreeRing` and `__AllocRing` take no `RingLock`. `FreeRing` throws a CPU that is in the response loop out
of it, to `Stray`: its local indices belong to a ring that is gone, or by then to the new one, where the ids it reads
and the `rsp_cons` it stores (`frontend.c:342`) can be anything. What a stray CPU does next is undefined, and
ends the behaviour, as a failed ASSERT does: what is said of several CPUs (`InsertSafe`, `CompletedOnce`, `Accounted`,
`ResponseIdsLive`) is said up to that step. Until then the power thread goes on, `NewRing` included. On one CPU
there is no such step (`srb_up`, `RingIsSound`).

`done`, `issued`, `answers` are histories. The backend answers any published request, in any order,
with any status of `Answers`. `EvtchnDpcFunc` leaves the channel masked when it returns early; the
model lets the event be raised again, which only adds behaviours.

### BlkRing and BlkChannel

`Plus` and `Minus` are the 32-bit index arithmetic, modulo `IndexSpan`. The reads and writes of
`req_prod`, `rsp_prod`, `rsp_event` and `req_event` are steps of their own, in the order of the
macros; `SubmitRequests` and `Consume` run under `RingLock`, the push does not. `IsChannel` is the
refinement: the requests of the abstract channel are the slots between the backend's position and
`req_prod_pvt`, the responses those between the loop's `rsp_cons` and the backend's.

### Frontend

`State` is `Frontend->State`, and `pc` where `__FrontendSetState` is: its while loop is `Route`, which
names the next section for each pair of state and target, and each call of it is cut at the polling
loops of `__WaitState`, where the backend, the toolstack and, with several CPUs, `FdoFrontend` act.

| Code | Definitions |
|---|---|
| `FrontendClose` | `StartClose`, `CloseBegin`, `AskClosing`, `AskClosed`, `CloseEnd` |
| `FrontendPrepare` | `PrepareBegin`, `PrepareEnd`, `RingOrders` (`__ReadFeatures`), `Watched` |
| `FrontendConnect` | `AllocRing`, `Publish` (`__WriteRing`), `ConnectEnd` |
| `__WaitState` | `WaitState`, `WaitFails`, `WaitStateAsserts` |
| `FrontendSuspendLateCallback` | `SuspendBegin`, `SuspendClosed`, `SuspendEnd`, `SuspendAsserts` |
| `PdoCreate`, `PdoD3ToD0`, `PdoD0ToD3`, `PdoDestroy` | `Create`, `PowerOn`, `Connect`, `PowerOff`, `Disconnect`, `Return`, `Release`, `Destroy` |
| `FdoFrontend`, `FrontendBackendPathChanged` | `ReadBegin`, `ReadEnd` |

A kind of call in `Failures` may fail at any time and any number of times. `backendPath` tells two
allocations of the path apart, so that a use of a freed one is seen; `leaked` is a history of the
grants that a failed `__AllocRing` has left in `RingGrantRefs`. The backend and the toolstack follow
the state diagram of `blkif.h` and map exactly the pages whose grants the frontend has published.

Left out of `Frontend`: the data path (`SrbPath`), the DPC, inquiry data, the debug callback; a failed
registration of the suspend callback (all is undone, no step); one of the four watches failing
without the others (the error path removes them all); the MDL of the ring's pages. The power
transitions of one PDO follow one another, as the power manager's IRPs do.

### Lifecycle

Actors are RescanThread (`scan`), FrontendThread (`front`), DevicePowerThread (`power`), the thread of
the IRP in progress (`pnp`) and a CPU in `FdoStartIo` (`io`). A step is a critical section, or one access
to a field that no lock protects; `held[a]` is the PDO that actor `a` has a reference on.

| Code | Definitions |
|---|---|
| `__FdoEnumerate`, `FdoScanTargets`, `PdoCreate`, `PdoDestroy` | `ReadDirectory`, `EnumGet`, `EnumPresent`, `EnumDelete`, `EnumJudge`, `EnumNew`; `NewPdo`, `Free`, `DropInitial` |
| `__PdoReference`, `__PdoDereference`, `___FdoGetPdo`, `FdoUnlinkPdo` | `Ref`, `Deref`, `GetPdo`, `Unlink` |
| `PdoDispatchPnp`, `__PdoRemoveDevice`, `__PdoEject` | `StartBegin` ... `StartEnd`, `RemoveBegin`, `RemoveJudge`, `RemoveKeeps`, `MarkDeleted`, `EjectBegin`, `CheckEjectPending`, `CancelIrp` |
| `FdoDispatchPnp`, `FdoDispatchPower` | `QueryRelations`, `RelationsEnd`, `RemoveFdo`, `DispatchPower` |
| `__FdoD3ToD0`, `__FdoD0ToD3`, `__FdoAcquire`, `__FdoRelease` | `UpSet`, `Acquire`, `UpGet`, `UpFails`, `WatchDevices`, `Settle`; `DownSet`, `DownGet`, `UnwatchDevices`, `ReleaseInterfaces` |
| `thread.c` | `Wake`, `WaitEnds`, `ClearEvent`, `AlertThread`, `JoinThread` |
| `FdoSuspendLateCallback`, `PdoPostResume`, `PdoIssueDeviceEject` | `Migrate` with `Rewatch` (the watch on the directory is lost and made again) and `PostResume` (the targets whose frontend resumes are no longer `Missing`); `IssueDeviceEject`, from `PathsChanged` |
| `__FdoTerminate`, `FdoFindAdapter` | `TerminateWait`, `Joined`, `Sweep`, `Terminated`; `FindAdapter` |

The handshake is reduced to whether it came up (`pdo.frontend`); `written` and `asked` are
`WrittenEjected` and `EjectRequested`. StorPort, the PnP and power managers (`node` is what the former
knows of a target) and the toolstack are external: one IRP at a time, and bus relations only while a
power IRP is pending, as the device tree is locked then; `START_DEVICE` to an FDO in D0.

A PDO needs memory: `FreeMemory` is what no living PDO occupies, and without any `PdoCreate` fails like a
failed allocation.

Left out: a failed read of the directory (nothing is done until the watch fires again), a failed
`__FdoInitialize`, the details of `QUERY_INTERFACE`, a power IRP for the state the FDO is in, and the
devices `__FdoEnumerate` passes over for their type or for being masked (`hidden` has the ejected ones).

### Prepare

A processor prepares the SRB it has taken, segment by segment, and completes what the backend has
answered; a buffer goes from `free` to `usedList` and back. Data is followed unit by unit: `disk` and
`memory` hold, for each unit, where it came from.

| Code | Definitions |
|---|---|
| `PrepareReadWrite`, `__GetPhysAddr`, `__Offset`, `__PhysAddrIsAligned` | `Start`, `CutSegment` (`Direct` or `Bounce`), `Grant`, `GetPhysAddr`, `RestOfPage`, `Whole` |
| `PdoPrepareFresh`, `__CleanupSrb`, `__CleanupRequest` | `Take`, `PutBack`, `Failing`, `Release` |
| `__AllocRequest`, `__FreeRequest` | `AllocRequest`, `ClearEvent`, `FreeRequest`, `SetEvent`: the count and `RequestListEmpty` are not changed together |
| `PdoCompleteSubmittedRequest`, `BufferCopyIn`, `BufferCopyOut` | `Respond`, `Continue`, `Filled`, `Emptied`; the copy is made for a failed read too |
| `BufferGet`, `BufferPut`, `__BufferReaperThread`, `BufferTerminate` | `BufferGet`, `BufferPut`, `Wake`, `Reap`; `Alert`, `Join`, `FreeAll` |

`RequestListEmpty` may be found set while requests are in use: one processor's `SetEvent` follows
another's `ClearEvent`. `NothingHeld` says what is left of it: once nothing is in use, it is set.
Left out: the counters, and a `BufferInitialize` whose thread cannot be created.

### The crash-dump driver

`CrashStore`: `Poll` is `StorePoll` with its loop (`EventChannelSend`, `Send`, `Received`, `Process`),
`Call` and `Return` are `StoreSubmitRequest`, and the `...Returns` actions are what each call of the
client does with its answer and its memory: `owned` counts the heap blocks. `Daemon` is xenstored. The
indices run modulo `IndexLimit`, which stands for 2^32: a multiple of the ring, and at least twice it. A header
is one unit: it comes whole or not at all, and partial copies are those of payloads. `PayloadNoMemory` and `EndNotRetry` are the
two ASSERTs of the client that the modelled calls can make fail (`store.c:408`, `1033`). Two more are left out: that of
`StoreVPrintf` for a text of more than 1024 bytes, which no caller makes, and an id of 0 for a new transaction, which
xenstored does not give. The
units received, those on the ring and those still to be written are a stream, `Untorn` when each is in
its place in a whole message.

`CrashFrontend`: `FdoInitialize` is `Sweep`, `WaitClosed` (`FdoCloseAllTargets`, `FrontendCloseTarget`),
`Find` (`FdoFindTarget`) and then `FrontendNext`, the loop of `FrontendSetState`, over `Closing`,
`Preparing` and `Connecting`. The dead kernel may have stopped anywhere in its handshake (`OldStates`).

`CrashIo`: the driver is one thread with the machine's other processors frozen. `HwStartIo` and `HwInterrupt` are called one
after the other, so a call is one step but for the places where the backend's accesses to the ring come
between: `Callback`, `Response`, `FinalCheck`, `Recheck`. `Prepared` is `PrepareReadWrite`; it fails when
the mapping of a bounced segment does (`Mappings`), or no buffer or grant is left (`Affordable`), and all of it is undone; `Submit` `PdoSubmitPrepared`, `Reset` the polling of `PdoReset`; `Serving` is the backend.

`CrashHeap`: `AllocateBig`, `FreeBig`, `AllocateSmall`, `FreeSmall`, each one step, with the lists as
`austere.c` leaves them. The sizes that are kept in the memory itself are functions from a page, or a unit of a
sub-heap, to a length and the FREE_CHUNK bit. A walk that gets to a page that is no sub-heap, or has no end, ends
the behaviour.

What the code does and the models keep: completions are SUCCESS whatever the backend answered; an SRB
that cannot be prepared is dropped (`pdo.c:545`, state `lost`); `PdoCreate` does not look at what
`FrontendCreate` and `FrontendSetState` return, so a target may have no ring (an interrupt then ends the
behaviour); `FrontendConnect` frees the ring before the backend is told to close. Left out: status and
sense data, the list's pages beyond the number a piece holds (cut off in silence), `rsp_event` (the
driver polls), the leak of a mapping when `BufferGet` fails, the grant entries of the old kernel,
`FdoTerminate`, `PdoDestroy` and `PdoAbortAllSrbs`, which nothing calls. The payload of a watch event and
the transaction of a RETRY are lost by the code; `leaked` counts them, and `PayloadsHeld` speaks of the rest.

## What the runs check

| Run | Instance | Shows |
|---|---|---|
| `srb_up` | 1 CPU; a read/write of two requests, a sync, a flush; ring of 3; one failed preparation, one power cycle, one suspend; good and bad answers | queues and ring agree and their ASSERTs hold (`RingSound`); a good status means the backend did it; a flush comes after the data; every SRB completes, outside the lost wake-ups of `LostWakeup` |
| `srb_smp` | 2 CPUs, ring of 4, one reset, one power cycle, a backend without barriers | `InsertSafe`, `CompletedOnce`, `Accounted`, `ResponseIdsLive` under every interleaving, until an ASSERT fails or a CPU goes on in a ring that was freed under it (`Stray`) |
| `ring_up` | 1 CPU, 3 slots, indices modulo 6, batches of 2 | the ring implements `BlkChannel`; outstanding requests are bounded; each request is answered and its response read |
| `fe_up` | 1 CPU, ring order 0 or 1, five kinds of failure, detach, bypass | resources match the state; the ring is freed only when unmapped; transitions end; ejects and resizes are seen |
| `life_up` | 1 target, memory for two PDOs; SRBs, power IRPs, stops, removal of the FDO, failed creation | references are counted and nothing is used after it is freed; power states match the frontends, and the targets' match the FDO's; the interfaces are held by whoever uses them |
| `life_eject` | the same, ejection alone (with power IRPs it fails, see below) | an ejection reaches the device it is for, whenever it is asked for |
| `life_live` | the same, migrations, failing power-ups and registrations | what vanishes goes, what appears is created, `PdoDestroy`'s wait ends |
| `prep` | 2 CPUs, a read and a write, 2 buffers, one failure, reaper and unload | segments tile the list, the data arrives, each resource has one owner |
| `crash_store` | rings of 2 units, 3 calls, 1 watch event, 1 failed allocation | streams whole, no ASSERT fails but two (`Excepted`), payloads freed, calls return unless one of the two stops the machine |
| `crash_fe` | 2 disks, 2 failures | old rings released, the target's backend has the new ring, the driver comes up or is refused |
| `crash_io` | 1 disk, 2 SRBs of one or two requests, 3 calls, ring of 3, one bounce buffer | requests taken once and flushes in time; grants and buffers have one owner; every SRB ends |
| `crash_heap` | 4 pages, sub-heaps of 4 units, 4 allocations, slack of one unit | allocations never overlap, nothing is lost, and a walk fails in two known ways only |

Bounds of the driver's runs. A ring of three entries holds the SRB of two requests but not another one
beside it, because the test for free slots is strict: put-back, partial drain and full ring all occur. One
failed preparation, power cycle, suspend and reset each meet the SRBs in every position, and each other
in every order. The answers are split: a bad status in `srb_up`, "not supported" in `srb_smp`; both
in one run only multiply the states. Indices modulo 6 wrap in every long run, and twice the ring is
the least span that `ring.h` allows; real rings are powers of two only so that a slot is found with a
mask. `LowestFirst` says which
of the free ids is taken, since ids that are free are interchangeable. `Frontend` counts nothing: its
state space is finite without bounds but for the ring order (`MaxOrder`), where 1 is enough for a ring
with a page granted and another not. `Lifecycle` counts nothing either; with one target address and
two PDOs, a new PDO is made while the old one at its address is still dying. All its activities
together are too many states for TLC: the three runs have each a question of its own, and the properties
that concern two activities are in the run that has both. `prep` cuts buffers at every offset of a page,
in pages that are neighbours or not; two segments per request make a second request necessary, two
buffers of which one is kept (`MinBuffers`) let the reaper free the other.

Bounds of the crash-dump runs. A ring smaller than a message and its answer makes each copy partial.
Two disks let the backends' steps interleave with the sweep over the other; two failures hit a
handshake and the close that follows it. Three calls of two SRBs: one SRB is issued again with what
its first use left. In the heap a block of three pages and one of one make compaction both needed and
of no use; chunks of one and three units leave a hole too small, one that fits, and one that is a unit too large and
taken whole. `BigSizes` and `Slack` stay below what the code has, which is a scale and nothing else.

`CHECK_DEADLOCK FALSE` is for the end of a bounded workload (`srb`, `prep`, `crash`), and in `Lifecycle`
for a failed ASSERT or an FDO that is removed. `Frontend` and `BlkRing` never stop: TLC checks it.

Fairness. A CPU at DISPATCH_LEVEL runs on (`WF` of its steps), drains its DPC queue, and a transition
once begun is carried through. The backend answers what it was given: `WF` of `Backend` in `SrbPath`;
in `BlkRing` `SF` of `Answer(id)`, for otherwise a backend could prefer other requests for ever. In
`Frontend` the backend's steps of the state diagram are weakly fair, `FdoFrontend` and the power thread
strongly fair since each is disabled again and again while the other has the CPU. No call is forced
to fail (`WaitFails` is outside the fairness), nor is any SRB issued, or power IRP, suspend, resize or
detach forced to happen. `TransitionsEnd` holds only while the device is online: `__WaitState` polls
without limit, and a backend that does not come back holds the CPU. In `Lifecycle` each thread goes on
and takes a spin lock it tries for again and again (`SF` of `LockFdo` and of the loops under
`Fdo->Lock`); the watches of FrontendThread are delivered; the PnP manager asks for relations when told to and
sends the IRPs that end what it began (`MustSend`), as it does for every driver. Nothing is plugged,
unplugged, stopped or powered by fairness. In the crash-dump modules the driver's one thread goes on, the
dump stack polls while it waits for an SRB, and xenstored and the backends act on what they are told.

Where a property excepts something, the exception is a defect or a limit of the code. `DataCompletes`
excepts two lost wake-ups (a failed preparation in the DPC has no trigger, `pdo.c:1203`;
`EvtchnDpcFunc` returns while the path is paused, `frontend.c:428`), and `FlushCompletes` a flush that
meets D3. `AssertsHold` of `Frontend` excepts the grants that a failed `Get` leaves (`frontend.c:891`).
`AssertsHold` of `Lifecycle` excepts two ASSERTs that do fail: a PnP state set on a PDO meanwhile Deleted
(`pdo.c:330`), and the second `FdoFindAdapter` after one that failed and left `__XenvbdFdo` linked
(`fdo.c:1396`). `VanishedGo` excepts `Stranded`: a REMOVE_DEVICE between `fdo.c:594` and `596` leaves a
target that nobody deletes. `InterfacesHeld` excepts the two windows on the way up, before `__FdoAcquire`
and after it has failed. `TargetsFollow` is about the FDO's way down. `RingsSound` of `CrashStore` excepts two
ASSERTs that do fail (`Excepted`): no memory for the payload of a message (`NoPayload`, `store.c:408`), and the end
of a transaction that is refused with another error than EAGAIN (`NotRetry`, `store.c:1033`); `CallsReturn` ends when
one of them stops the machine. `SrbsEnd` counts an SRB as ended that could not be prepared and is on no queue any
more (`lost`, `pdo.c:545`), and what `CrashIo` says of a flush counts such SRBs, and those the backend answered with an
error, as done with: it says less than that the dump is on the disk. `FreedRingUnmapped` accepts that the page is freed
while it is mapped, and a close that fails; it says that otherwise it does not stay so. `HeapSound` excepts the
two failing walks of `crash_heap_list.cfg`.

Some hazards are therefore shown by a counterexample below and not caught by a property: the gap between ring and
SubmittedSrbs on several CPUs, the SRB that is between two queues when `PdoCompleteShutdown` looks, and the ring that is freed
under the response loop. The properties about them hold on one CPU.

## Known counterexamples

Eleven more configurations state what a comment, an ASSERT or a header says, and TLC finds each violated.
They are kept to be run by hand: `tlc -config <name>.cfg <module>`.

| Configuration | Module, property | What happens |
|---|---|---|
| `srb_smp_remove.cfg` | `MCSrbPath`, `RemoveFindsQueue` | `PdoSubmitPrepared` puts an SRB on the ring under `RingLock` and on SubmittedSrbs afterwards (`pdo.c:1226-1231`); with two CPUs another one publishes, and its response is consumed in between: the ASSERT `SrbExt->QueueHead == Queue` (`queue.c:48`) fails |
| `srb_smp_flush.cfg` | `MCSrbPath`, `FlushAfterData` | `PdoCompleteShutdown` looks at one queue after the other, each under its own lock (`pdo.c:1329`): with two CPUs an SRB in `PdoSubmitPrepared`'s hands is on none of them, and the flush is completed before it |
| `srb_smp_ring.cfg` | `MCSrbPath`, `LoopKeepsRing` | `FrontendDisable` and `__FreeRing` (`frontend.c:939`) do not take the `RingLock` that the response loop holds (`frontend.c:330-342`): with two CPUs the ring is freed under it |
| `srb_abort.cfg` | `MCSrbPath`, `AbortedNotSuccess` | `__AbortSrbQueue` sets ScsiStatus 0x40, commented "SCSI_ABORTED" (`pdo.c:1773`), and leaves the SrbStatus of `pdo.c:1232`, SUCCESS |
| `srb_reset.cfg` | `MCSrbPath`, `ResetReturns` | "we just wait until they complete normally" (`pdo.c:1871-1875`): in D3 prepared SRBs cannot be submitted, and `PdoReset` spins at DISPATCH_LEVEL |
| `ring_smp.cfg` | `MCBlkRing`, `OutstandingBounded` | the push is outside `RingLock` (`frontend.c:546`) although "these macros do NO INTERLOCKS" (`ring.h:149-152`): a stale `req_prod` runs backwards |
| `fe_bypass.cfg` | `MCFrontend`, `BypassTolerated` | "frontends should also tolerate backends that bypass" InitWait (`blkif.h:344-352`); `FrontendPrepare` turns them down (`frontend.c:1257`) |
| `fe_suspend.cfg` | `MCFrontend`, `ResumeSucceeds` | a resume that fails meets `ASSERT(FALSE)` (`frontend.c:1440`): an emulated target has never been closed, and stays INITIALIZED (`pdo.c:528`) |
| `crash_stale.cfg` | `MCCrashStore`, `NoBugcheck` | the client clears the rings (`store.c:1112`), but xenstored still has the old kernel's half message: the ASSERTs of `store.c:401` and `466` fail |
| `crash_assert.cfg` | `MCCrashStore`, `AssertsHold` | there is memory for each payload (`store.c:408`), and a transaction is only refused with EAGAIN (`store.c:1033`): neither is promised by anyone, and both ASSERTs fail |
| `crash_heap_list.cfg` | `CrashHeap`, `ListSound` | moving a sub-heap to the head leaves the old head's `Prev` unset (`austere.c:261-266`), so a page that is freed stays on the list; and compaction (`79-97`) may merge away the block of the cursor, which `__AllocBig` (`112-129`) then never meets again: both walks may have no end |

Further hazards that no property covers:

- `frontend.c:653`: after a failed allocation in `__UpdateBackendPath` the ASSERT stops the machine
  (`WaitStateAsserts`). It happens; nothing to promise.
- `frontend.c:1352`: `FrontendConnect` frees the ring before the backend is told to close.
  `ClosedMeansUnmapped` is what holds; `FreedRingUnmapped` says it of the crash-dump driver.
- `frontend.c:1444`: at the end of a resume the event is triggered on a channel that may not exist.
- `frontend.c:1797`: `Active` is read without `StateLock`, and `FrontendClose` or `FrontendD0ToD3` then frees
  the path in use. Only on several CPUs: `PathsInUseAreLive` proves that it does not happen on one.
- `pdo.c:1232`: SrbStatus is set after the SRB was queued, over a bad status that was faster.
- `fdo.c:652`: a failed read of the directory, or `PdoCreate`, is not tried again before the next change.
- `pdo.c:743`: `RequestListEmpty` set while requests are in use; harmless, `PdoDestroy` comes after draining.
- `pdo.c:2193`: with power IRPs an ejection may reach a dead device: a Deleted PDO is still in the table
  when `__FdoD3ToD0` powers it up, its frontend is watched again, and `PdoIssueDeviceEject` calls
  `IoRequestDeviceEject` on a DEVICE_OBJECT that StorPort has deleted. Without power IRPs it cannot,
  whatever else happens: `EjectionsReachDevices`.
- `pdo.c:2207`: the write of "ejected" may fail, and the target is then enumerated again.

## What is proved

The theorems about `SrbPath` hold for any CPUs, SRBs, ring size and bounds, under `ConstantsAssumption`.

- `TypeCorrect` (`SrbPathProofs`): `Spec => []TypeOK`. One lemma per action, over lemmas about the four
  queue operations. It says more than types: data SRBs are never on ShutdownSrbs, nor flushes elsewhere.
- `OwnershipHolds` (`SrbPathProofs`): `Spec => []Ownership`. An SRB is in one place: on one queue, once,
  and then `QueueHead` names it; in one CPU's hands, and then on none; or completed.
- `InsertsAreSafe`, `CompletionsAreUnique`: consequences, the ASSERTs of `queue.c:70` and `92`, and at most
  one completion of an SRB.
- `SrbsAreAccounted` (`SrbPathProofs`): `Spec => []Accounted`. An issued SRB that is not completed is on a
  queue or in the hands of a CPU: no order of pauses, aborts, put-backs and resumes drops one.
- `ResponsesAreLive` (`SrbPathProofs`): `Spec => []ResponseIdsLive`, on any CPUs. A response not yet read
  names a request that is still on its SRB's list, until a CPU goes on in a ring that was freed under it (`Stray`).
- `RingIsSound`, `GoodIsDone`, `FlushesComeLast` (`SrbPathProofs`): `RingSound`, `GoodMeansDone` and the action
  property `FlushAfterData`, on one CPU. On one CPU there is no `Stray` either.

`InsertSafe` and `CompletedOnce` are not inductive: a queue might hold an SRB whose `QueueHead` is NULL,
and the next pop would give it to a second CPU. `Ownership` adds the agreement of the queues with
`QueueHead` (`QueuesAgree`) and that whatever is queued or held was issued and is not completed
(`QueuedOpen`, `HeldOpen`, `DoneOnce`). The hard steps are the resume,
which appends two queues to a third (`JoinDistinct`), and the removal from the middle of SubmittedSrbs
(`RemoveFromAgrees`).

`Accounted` needs nothing but the queues. What the ring carries needs the ring: `RingAgrees` says, for any
CPUs, that the slots in use fit, that a response answers a published request once, and for each SRB with a
request on the ring which of its requests are still to be answered; an SRB that is on PreparedSrbs has
none there. `PowerAgrees` is why the ring may be thrown away: one CPU at most is in
`FrontendSetState`, and while none is, there is a ring exactly when the path is connected. The three results
for one CPU need more, and it is what `PdoSubmitPrepared` relies on: between `FrontendSubmitRequest`
and `QueueAppend` nobody consumes (`SubmitAgrees`), what is on SubmittedSrbs still has an answer to come
(`SubmittedAgrees`), an SRB's status is SUCCESS only while its answers are good (`OnlyOkay`), and the
queues `PdoCompleteShutdown` has found empty are empty still (`PeeksAgree`). With a second CPU the first of
these is false (`srb_smp_remove.cfg`), and so is `FlushAfterData` (`srb_smp_flush.cfg`): the hypothesis `OneCpu` cannot be dropped.

The theorems about `BlkRing` (`BlkRingProofs`) hold on one CPU for every ring size and every index span that
is a multiple of it, at least twice the ring.

- `IndicesAreSound`: `Spec => []IndicesSound`.
- `RingIsChannel`: `Spec => IsChannel`. Every memory access of the macros is a step of `BlkChannel` or none.

`InOrder` puts the seven positions in one lap round the ring, however often they have wrapped (`Lap`), so that
the segments between them are disjoint; `InPlace` says that each id in use is in exactly one of the three
places the channel knows. The rest is arithmetic of `%`. Each action is shown to leave the
channel still or to send, take, answer or read, and the invariant and the refinement both follow
from that one lemma. `ring_smp.cfg` shows why there is one CPU: a second one may publish an older `req_prod`.

The theorems about `Frontend` (`FrontendProofs`) hold for every largest ring order, any set of kinds of
failure, with or without detaching, and bypassing backends, on one CPU or several, under `FrontendAssumption` and
`PowersAssumption`; the latter is arithmetic of powers of two that the provers do not know.

- `FrontendTypes`: `Spec => []TypeOK`.
- `ResourcesFollowState`: `Spec => []ResourcesMatch`. Whichever calls fail in whichever transition, and
  wherever a suspend cuts in, the ring, its grants, the event channel and the watches exist between
  transitions exactly when the state is ENABLED, but for the grants of a failed `__AllocRing`.
- `AssertsNeverFail`: `Spec => []AssertsHold`.
- `ClosedIsUnmapped`: `Spec => []ClosedMeansUnmapped`, the backend has let go of the pages when
  `FrontendClose` succeeds.
- `PoweredIsEnabled`: `Spec => []PoweredMeansEnabled`.
- `PathsInUseAreLive`: with `~Smp`, `Spec => []ReadsLivePath`. The assumption is needed, see above.

`ResourcesMatch` speaks of the moments between transitions only, and so cannot be inductive. `IInv` says
for every `pc` which state and target the call can have (`PcsMatch`), for whom it runs and what it must
restore (`CallerMatch`, `PowerMatch`), that an emulated target is never enabled (`MaskMatch`), and what
is held (`RingMatch`, `WatchMatch`). `Handshake` is the part nobody writes down in the code: when no
event channel can be opened `__AllocRing` returns the success of the last grant with `SharedRing` NULL
(`frontend.c:908`), the frontend publishes no ring and goes on; that it never becomes CONNECTED with
nothing to talk through rests on the backend, which does not connect to a ring it cannot read. `Unmapped`
gives for each step of the close what the backend may still map, and `PathLive` (one CPU) that nothing is
read while a transition that frees the path has the CPU. One lemma per conjunct, one step per action.

The theorems about `Lifecycle` (`LifecycleProofs`) hold for any number of targets, any memory for PDOs,
any set of activities and of failures, under `LifecycleAssumption`.

- `LifeIsSound`: the invariant, `Spec => []LInv`.
- `ReferencesAreSound`: `Spec => []ReferencesSound`. No PDO is freed while anyone has it, none is used
  after, one actor destroys it, and the count is that of its users.
- `AssertsAreKnown`: `Spec => []AssertsHold`. The two ASSERTs that can fail are the only ones.
- `PowerIsSound`, `PowerAgreesAtRest`, `InterfacesAreHeld`: `Spec => []PowerSettles` and
  `Spec => []InterfacesHeld`, over `PInv`.
- `TargetsFollowDown`: `Spec => []TargetsFollow`, if neither `PdoD3ToD0` nor a registration of the FDO's way up
  may fail (`UpHolds`). Otherwise it is false: a target may be created while the failed way up powers the others
  down, and `DevicePowerState` of the FDO says D3 only afterwards.
- `PendingIsSound`, `EjectionsAreKept`: `Spec => []EjectNotForgotten`. An ejection asked for before StorPort has
  the device object is passed on by the first IRP to the device.
- `EjectionsReachDevices`: `Spec => []EjectionsReach`, if there are no power IRPs. With them it is false, see above.

`LInv` is made in layers, each proved from those below it. `Control` is about the threads: where each can be
given the IRP in progress (`Places`), that it holds a PDO exactly where it works on one (`HeldMatch`), that the
device tree is locked against the IRPs that may not run together (`BusyMatch`, `LinkMatch`), who has `Fdo->Lock`
(`LockMatch`) and what `Fdo->References` counts (`FdoCounted`). Above it, for each PDO: the table and the actors lead
only to living ones (`Live`), the destroyer is one and is past the unlinking (`DestroyMatch`), and the references
are counted. The forty-odd actions fall into few classes by what they do to one PDO, and each layer is proved
class by class. `PowerSettles` alone is not inductive: `PowerMatch` adds what an actor in the middle of a transition
has done to the PDO already, for a PDO that is still in the table. For the way down, `WayMatch` says that the FDO
is in D3 exactly during it, so that nothing raises a PDO meanwhile (`NoRise`), and `LagMatch` that in D3
only targets the loop has not got to are still in D0.

The ejections rest on what the PnP thread knows of the target whose IRP it has. `IrpMatch` says that the PnP
manager has the device, that the PDO the thread found keeps its slot in the table, or keeps it empty while
RescanThread destroys it (`SlotFits`), and that past `PdoCheckEjectPending` nothing waits in it. That the device
asked to go exists is about the PDOs whose device StorPort has deleted and that are still in the table:
`AbsentMatch` says that they stay in D3, where their frontend is not watched. `REMOVE_DEVICE` has brought them
there (`RemoveMatch`), and nothing raises them again: the power thread has nothing to do (`Idle`), a new FDO finds an
empty table, and `__FdoTerminate` empties it slot by slot (`SweepMatch`, `NewMatch`).

The theorems about `CrashFrontend` (`CrashIoProofs`) hold for any disks and any number of failures.

- `HandshakesHold`, `HandshakesAreSound`: `FrontendSpec => []HandshakesSound`, whichever handshakes the dead
  kernel was in. The driver acts on states it has polled, which the backends have left since: `Handshake`
  gives the pairs of states a disk's two ends can be in, `OnTheWayDown` and `OnTheWayUp` what of a poll is still
  true at each later step, `RefsMatch` and `Swept` whose ring is offered and which disks are done with.

The theorems about `CrashIo` (`CrashIoProofs`) hold for any SRBs and scatter-gather lists of up to two requests,
rings of any size, any index span that is a multiple of it and at least twice it, any number of grants and
buffers, under `CrashIoAssumption`.

- `IoHolds`: the invariant, `Spec => []IoInv`.
- `TrafficIsSound`: `Spec => []TrafficSound`. The ring carries each request once, and a flush or
  shutdown is completed when the SRBs issued before it are done with.
- `MemoryIsOwned`: `Spec => []MemoryOwned`. A grant or buffer is free, or one segment of one SRB has it; the
  pages of a request are granted for as long as the backend may use them.

Neither says why: a slot is read where its number modulo the ring is found again, and a page is given back
when an answer is read, long after it was granted. `RingFits` describes the ring from the last answer read on,
in one lap: the answers to read, the room of the requests the backend is doing, the requests it has not
taken; the slots between hold different requests, whatever was in them before. `InFlightFor` ties that
to the SRBs: each has as many requests in one of the three places as it waits for. `SegsFit` says that a segment holds
its grant, and its buffer when it is bounced, while its SRB is prepared and then until its own request is
answered, so that an SRB with two may have lost half of them; `Owned` that no two hold the same. `QueuesFit` gives each SRB
the queue its state names, and `AfterFits` says that what a flush waits for has not come again meanwhile. Most of the
proof is that an answer that is read shortens the window at one end, a request that is put lengthens it at
the other, and the rest of the ring stays.

The theorems about `Prepare` (`PrepareProofs`) hold for any CPUs, SRBs, page and sector sizes, limits and failures, under
`PrepareAssumption`, and for any scatter-gather lists that meet `ListAssumption`: those of a buffer that is
virtually contiguous and of whole sectors, wherever it starts and however its pages lie. StorPort builds the list
from the MDL of such a buffer; `pdo.c` asks for no alignment (`AlignmentMask` is 0, `fdo.c:1369`), and its ASSERTs (`pdo.c:1027`,
`pdo.c:1072-1075`) fail on other lists.

- `PrepareHolds`: the invariant, `Spec => []PInv`.
- `ResourcesAreOwned`: `Spec => []ResourcesOwned`. A bounce buffer is on the free list or in one segment, and
  what is still held when nothing is worked on or waits for an answer is nothing: no order of failures
  in the middle of a list leaks a mapping, a grant, a buffer or a request, or gives one back twice.
  It needs nothing of the lists: where data lies is left open.
- `TilesHold`: `Spec => [](PInv /\ TileInv)`.
- `RequestsAreTiled`: `Spec => []RequestsTile`. The segments of a prepared SRB are its list, unit by unit, and
  the ASSERTs hold.

`NothingHeld` speaks of the end of the work only. `CpusFit` says, for each CPU at each place in
its work, which requests of its SRB are live: all of them while it prepares (`Making`), those not yet reached
while it cleans up (`Undoing`), the answered one while it completes (`Completing`), and that an SRB is worked on
by one CPU at a time (`Alone`), though the work passes from the one that took it to whoever has `RingLock`. `SrbsFit`
says that a request that was freed holds nothing; `Counted` that `RequestListUsed` is the number of those that
were not; `EventFits` that when it is 0, `RequestListEmpty` is set or a CPU is about to set it; `PoolFits` that the used
buffers are those that the segments name, each named once.

`RequestsTile` is about the SRBs that are prepared. `TileInv` says of each step before how far `PrepareReadWrite` is
(`Reached`): `SectorsDone` sectors of the list's units are in the requests, and the cursor (`At`) is at the next one.
`Cuts` is what is true of all requests, also of those of an SRB that failed in the middle: proper segments, and
a first sector that is the end of the requests before. `Shape` leaves out of the requests what the other steps
change, so that each of them keeps it. `CutGives` is the step that matters: from a cursor at a sector
boundary `Cut` gives whole sectors, exactly the next units, and a cursor after them. A first piece ends
with its page or with the list (`FirstPiece`); when it ends with its page and is not whole sectors, or does not begin with one,
the second begins a page and its length is what the first left of the page's worth, or the rest of the list (`SecondPiece`); so both
together are a page or the rest, either of which is whole sectors. The community modules' `FlattenSeq` is
a recursive function: what it gives one step at a time (`FlattenStep`) follows from any two functions that satisfy its
definition agreeing up to the least place where they would not (`FlatsAgree`).

The theorems about `CrashStore` (`CrashStoreProofs`) hold for rings of any size, any index span that is
a multiple of it and at least twice it, any number of calls, watch events and failed allocations.

- `ClientIsSound`, `PayloadsAreHeld`: `Spec => []PayloadsHeld`, whatever message the dead kernel was in.
- `RingsAreSound`: `Spec => []RingsSound` if it was in none (`OldSession = "quiet"`): the streams are whole until an
  ASSERT fails, and no ASSERT does but the two of `Excepted`, which do (`crash_assert.cfg`). With an old message
  it is false (`crash_stale.cfg`).

The base is what a copy does: `__StoreCopyToRing` and `__StoreCopyFromRing` with their two indices that wrap are
appending to and taking from a sequence (`UnitsPut`, `UnitsTaken`). From there on the proof is about
sequences. `ClientHolds` follows a call and the message being received; `StreamsHold` says that all that is
under way to xenstored is a part of the one request there is, and that all that is under way back is
whole messages (`Untorn`), with the answer among them exactly when the request has been read whole.

The theorems about `CrashHeap` (`CrashHeapProofs`) hold for any number of pages, any size of sub-heaps, any slack
and any sizes of allocations, under `CrashHeapAssumption`.

- `HeapHolds`: the invariant, `Spec => []HeapInv`.
- `HeapIsSound`: `Spec => []HeapSound`. What is given out does not overlap and is what is held, whatever was
  split, joined and compacted before; and a walk only fails where `crash_heap_list.cfg` shows that it does.

The pieces are found by walking their lengths, so the proof first says what such a walk meets: pieces that cover
`0 .. n - 1` in any way (`Tiling`) are exactly what `Starts` walks over (`StartsOf`), and cutting one, merging
two or compacting them all leaves such pieces (`CutTiles`, `MergeTiles`, `CompactTiles`). What the old lengths
inside a merged block say does not matter to `Starts`, but does to `__AllocBig`, whose cursor may be at one of
them: `CompactFinds` says that it then goes on to a real block, or round for ever, and never takes one that is not
there. `ChunksOk`, `SubFit` and `InUse` are the same for the chunks, with `Free` as the number of free units,
from which it follows that a sub-heap is given back only when its last chunk is free (`EmptyOk`). `ListFit` is what
makes the list of sub-heaps safe: no sub-heap has a `Prev`, so nothing is written through one. The
induction is over the least piece that would not be met (`LeastOf`).

Only model-checked, and why:

- Every liveness property: `DataCompletes`, `FlushCompletes`, `EveryRequestAnswered`, `TransitionsEnd`,
  `ChangesSeen`, `VanishedGo`, `NewAppear`, `DestroyEnds`, `CallsReturn`, `ComesUp`, `FreedRingUnmapped`,
  `SrbsEnd`. They rest on fairness, which the provers do not handle.
- `Delivered`: which of the SRB's units each page, buffer and sector of the disk holds at each moment of a
  transfer. It would rest on `RequestsTile` and on what the folds of the backend's `Transfer` compute.

`TypeOK` of `SrbPath` and `BlkRing` is part of `RingSound` and `IndicesSound`, which the runs check. `Ownership`,
`ReadsLivePath` and the inductive invariants are in no run of their own; TLC has checked them on the
instances of the runs.

## What is not modelled

- Inquiry data (`pdo-inquiry.c` of both drivers): formatting of SCSI pages; no state.
- Driver entry and dispatch, in part: parameters, the registration with StorPort and the `Hw` entry points that
  only call into `fdo.c`. What dispatch does with references is in `Lifecycle`.
- Debug and assertion helpers, crash-dump logging: output. A failed ASSERT is a state of the models.
- Crash-dump grant tables and event channels, in part: the grant table's mapping and the hypercalls.
- The crash-dump frontend and target, in part: `FrontendDestroy`, `FdoTerminate`, `PdoAbortAllSrbs`, which
  nothing that runs calls, and the SCSI commands answered without the disk.
- The co-installer (`src/coinst`): edits of the registry, one after the other, by library calls.
- In xenvbd: SCSI commands that are answered at once (`PdoModeSense` to `PdoReadCapacity16`,
  `PdoRequestSense`), usage notifications and capabilities, which keep flags that nothing modelled reads.
