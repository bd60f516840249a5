------------------------------ MODULE Frontend ------------------------------
(***************************************************************************)
(* The frontend of one target (frontend.c 44-96 and 555-1810) and the     *)
(* power transitions of its PDO that drive it (pdo.c 385-583).             *)
(*                                                                         *)
(* Two threads and a callback act on it: the thread that powers the PDO up *)
(* or down, which holds StateLock while __FrontendSetState runs;           *)
(* SuspendLateCallback, which runs alone, between two critical sections of *)
(* the first; and FdoFrontend, which answers the watches on the backend    *)
(* and takes no StateLock.  All of it runs at DISPATCH_LEVEL: on one CPU a *)
(* section is not interrupted, with Smp it is interleaved with the others. *)
(*                                                                         *)
(* The backend and the toolstack are external: they act through XenStore,  *)
(* following the state diagram of include/xen/io/blkif.h.                  *)
(***************************************************************************)
EXTENDS Naturals

CONSTANTS
  MaxOrder,        \* XENVBD_MAX_RING_PAGE_ORDER
  Failures,        \* the kinds of calls that may fail
  Masked,          \* what Pdo->EmulatedMasked may be: is the emulated disk unplugged?
  Detach,          \* the toolstack may take the device offline
  Bypass,          \* the backend may skip InitWait, as blkif.h allows
  Smp              \* more than one CPU

\* "store": a XenStore call of a transition; "read": one of FdoFrontend;
\* "pages", "pool": memory; "grant", "evtchn": the interfaces.
FailureKinds == {"store", "read", "pages", "pool", "grant", "evtchn"}

ASSUME FrontendAssumption ==
  /\ MaxOrder \in Nat
  /\ Failures \subseteq FailureKinds
  /\ Masked \subseteq BOOLEAN
  /\ {Detach, Bypass, Smp} \subseteq BOOLEAN

\* Arithmetic of 1 << RingOrder, which the proofs need and the provers lack.
ASSUME PowersAssumption ==
  /\ 2 ^ MaxOrder \in Nat
  /\ \A k \in 0 .. MaxOrder : 2 ^ k \in 1 .. 2 ^ MaxOrder

VARIABLES
  life,        \* of the PDO: "Absent", "Creating" (PdoCreate), "Live"
  masked,      \* Pdo->EmulatedMasked
  powered,     \* Pdo->DevicePowerState is D0
  State,       \* Frontend->State
  pc,          \* where the power thread or the suspend callback is
  target,      \* the argument of __FrontendSetState
  failed,      \* its Failed
  caller,      \* who called it
  seen,        \* the local BackendState
  resume,      \* SuspendLateCallback: the saved State and the thread's pc
  active,      \* Frontend->Active
  registered,  \* Frontend->SuspendLateCallback is not NULL; so are the interfaces
  backendPath, \* Frontend->BackendPath: which allocation, or NULL
  watches,     \* the four watches on the backend are registered
  sharedRing,  \* Frontend->SharedRing is not NULL
  refs,        \* the pages whose RingGrantRefs entry is not 0
  port,        \* Frontend->EvtchnPort is not NULL
  leaked,      \* history: the grants that failures of __AllocRing have left in refs
  ringOrder,   \* Frontend->RingOrder
  connected,   \* Frontend->Caps.Connected
  sectors,     \* Frontend->DiskInfo.SectorCount
  fstate,      \* XenStore: the frontend's state
  published,   \* XenStore: the pages of the frontend's ring-ref keys
  backend,     \* XenStore: the backend's state
  online,      \* XenStore: the backend's online key
  size,        \* XenStore: the backend's sectors key
  mapped,      \* the pages the backend has mapped
  event,       \* BackendEvent is set
  reader,      \* FdoFrontend: "Idle", or "Reading" with the path it uses
  ejected,     \* PdoIssueDeviceEject has been called
  bugcheck     \* the ASSERT that has failed, or "None"

control == <<State, pc, target, failed, caller, seen, resume>>
ring == <<sharedRing, refs, leaked, port>>
power == <<life, masked, powered, active, registered>>
store == <<fstate, published, backend, online, size, mapped>>
watcher == <<event, reader, ejected>>
vars == <<control, ring, power, store, watcher, backendPath, watches, ringOrder,
          connected, sectors, bugcheck>>

XenbusState == {"Unknown", "Initialising", "InitWait", "Initialised", "Connected",
                "Closing", "Closed"}
XenvbdState == {"Invalid", "Initialized", "Closed", "Prepared", "Connected", "Enabled"}
Paths == {"a", "b"}
Sizes == {1, 2}
Pages == 0 .. 2 ^ MaxOrder - 1
RingPages == 0 .. 2 ^ ringOrder - 1

\* Locals that are no longer used are reset.
NoResume == [State |-> "Closed", pc |-> "Idle"]

\* Where the power thread runs at PASSIVE_LEVEL, outside StateLock.
PassivePcs == {"Idle", "PowerUp", "PowerDown", "Release"}
AwaitPcs == {"AwaitInit", "AwaitClosing", "AwaitClosed", "AwaitInitWait", "AwaitConnected"}
LockedPcs == AwaitPcs \cup {"Loop", "Close", "AskClosing", "AskClosed", "CloseDone",
                            "CloseFailed", "Prepared", "Publish", "Connecting"}
Asserts == {"None", "Path", "Grant", "Port", "Ring", "Callback", "Destroy", "Resume"}

ControlTypes ==
  /\ State \in XenvbdState /\ target \in XenvbdState
  /\ pc \in PassivePcs \cup LockedPcs
  /\ failed \in BOOLEAN
  /\ caller \in {"None", "PowerUp", "PowerDown", "Suspend", "Resume"}
  /\ seen \in XenbusState
  /\ resume \in [State : XenvbdState, pc : PassivePcs]
  /\ bugcheck \in Asserts
PowerTypes ==
  /\ life \in {"Absent", "Creating", "Live"}
  /\ masked \in BOOLEAN /\ powered \in BOOLEAN
  /\ active \in BOOLEAN /\ registered \in BOOLEAN
RingTypes ==
  /\ sharedRing \in BOOLEAN /\ port \in BOOLEAN
  /\ refs \subseteq Pages /\ leaked \subseteq Pages
  /\ ringOrder \in 0 .. MaxOrder /\ connected \in BOOLEAN
StoreTypes ==
  /\ fstate \in XenbusState /\ backend \in XenbusState
  /\ published \subseteq Pages /\ mapped \subseteq Pages
  /\ online \in BOOLEAN /\ size \in Sizes
WatcherTypes ==
  /\ backendPath \in Paths \cup {"NULL"} /\ watches \in BOOLEAN
  /\ sectors \in Sizes \cup {0}
  /\ event \in BOOLEAN /\ ejected \in BOOLEAN
  /\ reader \in [pc : {"Idle", "Reading"}, path : Paths \cup {"NULL"}]

TypeOK == ControlTypes /\ PowerTypes /\ RingTypes /\ StoreTypes /\ WatcherTypes

\* The toolstack has made the nodes; no PDO yet.
Init ==
  /\ life = "Absent" /\ masked = TRUE /\ powered = FALSE
  /\ active = FALSE /\ registered = FALSE
  /\ State = "Initialized" /\ pc = "Idle" /\ target = "Closed" /\ failed = FALSE
  /\ caller = "None" /\ seen = "Unknown" /\ resume = NoResume
  /\ backendPath = "NULL" /\ watches = FALSE
  /\ sharedRing = FALSE /\ refs = {} /\ leaked = {} /\ port = FALSE
  /\ ringOrder = 0 /\ connected = FALSE /\ sectors = 0
  /\ fstate = "Initialising" /\ backend = "Initialising" /\ online = TRUE
  /\ published = {} /\ mapped = {} /\ size \in Sizes
  /\ event = FALSE /\ reader = [pc |-> "Idle", path |-> "NULL"] /\ ejected = FALSE
  /\ bugcheck = "None"

-----------------------------------------------------------------------------
(* What the steps share.                                                   *)

MayFail(kind) == kind \in Failures
Passive == pc \in PassivePcs

\* The CPU is the power thread's: FdoFrontend is not in its section, or on another CPU.
HasCpu == Smp \/ reader.pc = "Idle"
Step(at) == bugcheck = "None" /\ HasCpu /\ pc = at

\* An ASSERT fails and the machine stops.
Stop(what) == bugcheck' = what /\ UNCHANGED <<control, ring, power, store, watcher,
  backendPath, watches, ringOrder, connected, sectors>>

\* __UpdateBackendPath, when the key is read: a new copy of it, or no memory for one.
UpdateBackendPath ==
  \/ backendPath' = IF backendPath = "a" THEN "b" ELSE "a"
  \/ MayFail("pool") /\ backendPath' = "NULL"

\* Mutant of FreeRing: the event channel stays open.
FreeRingKeepsPort ==
  sharedRing' = FALSE /\ refs' = {} /\ leaked' = {} /\ UNCHANGED port

\* __FreeRing: the event channel, the grants of all pages, the memory.
FreeRing == sharedRing' = FALSE /\ refs' = {} /\ leaked' = {} /\ port' = FALSE

\* __ReadFeatures: max-ring-page-order, or 0, and never above the driver's own limit.
RingOrders == 0 .. MaxOrder

\* Mutant of Watched: only the state is watched.
WatchedStateOnly == {"state"}

\* The keys of the backend that FrontendPrepare watches.
Watched == {"state", "info", "sector-size", "sectors"}

\* __CheckBackendForEject
EjectDue == ~online /\ backend = "Closing"

\* __FrontendSetState: what the while loop does next.
Route ==
  IF failed \/ State = target THEN "Return"
  ELSE CASE State = "Initialized" /\ target # "Invalid" -> "Close"
         [] State = "Closed" /\ target \in {"Prepared", "Connected", "Enabled"} -> "Prepare"
         [] State = "Prepared" /\ target \in {"Connected", "Enabled"} -> "Connect"
         [] State = "Prepared" /\ target = "Closed" -> "Close"
         [] State = "Connected" /\ target = "Enabled" -> "Enable"
         [] State = "Connected" /\ target \in {"Closed", "Prepared"} -> "Close"
         [] State = "Enabled" /\ target \in {"Closed", "Prepared", "Connected"} -> "Disable"
         [] OTHER -> "Refuse"

Decide(route) == Step("Loop") /\ Route = route

-----------------------------------------------------------------------------
(* FrontendClose.                                                          *)

StartClose ==
  /\ Decide("Close") /\ pc' = "Close"
  /\ UNCHANGED <<State, target, failed, caller, seen, resume, ring, power, store, watcher,
                 backendPath, watches, ringOrder, connected, sectors, bugcheck>>

\* The watches are removed, the backend's path read again.
CloseBegin ==
  /\ Step("Close") /\ watches' = FALSE /\ seen' = "Unknown"
  /\ \/ UpdateBackendPath /\ pc' = "AwaitInit"
     \/ MayFail("store") /\ pc' = "CloseFailed" /\ UNCHANGED backendPath
  /\ UNCHANGED <<State, target, failed, caller, resume, ring, power, store, watcher,
                 ringOrder, connected, sectors, bugcheck>>

\* Where a wait ends when the backend is in state s, and when a store call fails.
AfterWait(s) ==
  CASE pc = "AwaitInit" -> IF s = "Initialising" THEN pc ELSE "AskClosing"
    [] pc = "AwaitClosing" -> "AskClosing"
    [] pc = "AwaitClosed" -> "AskClosed"
    [] pc = "AwaitInitWait" -> IF s \in {"Closed", "Initialising"} THEN pc ELSE "Prepared"
    [] pc = "AwaitConnected" -> IF s \in {"InitWait", "Initialising", "Initialised"}
                                THEN pc ELSE "Connecting"
AfterFailure ==
  CASE pc = "AwaitInitWait" -> "Prepared"
    [] pc = "AwaitConnected" -> "Connecting"
    [] OTHER -> "CloseFailed"

\* __WaitState spins, polling the store, until the backend's state is another one.
WaitState ==
  /\ bugcheck = "None" /\ HasCpu /\ pc \in AwaitPcs
  /\ backendPath # "NULL"
  /\ backend # seen /\ seen' = backend /\ pc' = AfterWait(backend)
  /\ UNCHANGED <<State, target, failed, caller, resume, ring, power, store, watcher,
                 backendPath, watches, ringOrder, connected, sectors, bugcheck>>

\* The watch or a read of the state fails.
WaitFails ==
  /\ bugcheck = "None" /\ HasCpu /\ pc \in AwaitPcs /\ backendPath # "NULL"
  /\ MayFail("store") /\ seen' = "Unknown" /\ pc' = AfterFailure
  /\ UNCHANGED <<State, target, failed, caller, resume, ring, power, store, watcher,
                 backendPath, watches, ringOrder, connected, sectors, bugcheck>>

\* ASSERT3P(Frontend->BackendPath, !=, NULL)
WaitStateAsserts ==
  /\ bugcheck = "None" /\ HasCpu /\ pc \in AwaitPcs /\ backendPath = "NULL"
  /\ Stop("Path")

\* The first loop: ask for CLOSING until the backend is closing or closed.
AskClosing ==
  /\ Step("AskClosing")
  /\ \/ seen \in {"Closing", "Closed"} /\ pc' = "AskClosed" /\ UNCHANGED fstate
     \/ seen \notin {"Closing", "Closed"} /\ pc' = "AwaitClosing" /\ fstate' = "Closing"
     \/ /\ seen \notin {"Closing", "Closed"} /\ MayFail("store")
        /\ pc' = "CloseFailed" /\ UNCHANGED fstate
  /\ UNCHANGED <<State, target, failed, caller, seen, resume, ring, power, published,
                 backend, online, size, mapped, watcher, backendPath, watches, ringOrder,
                 connected, sectors, bugcheck>>

\* Mutant of AskClosed: the backend is waited for and not told.
AskClosedSilently ==
  /\ Step("AskClosed")
  /\ \/ seen = "Closed" /\ pc' = "CloseDone" /\ UNCHANGED fstate
     \/ seen # "Closed" /\ pc' = "AwaitClosed" /\ UNCHANGED fstate
     \/ seen # "Closed" /\ MayFail("store") /\ pc' = "CloseFailed" /\ UNCHANGED fstate
  /\ UNCHANGED <<State, target, failed, caller, seen, resume, ring, power, published,
                 backend, online, size, mapped, watcher, backendPath, watches, ringOrder,
                 connected, sectors, bugcheck>>

\* Mutant of AskClosed: the backend is told and not waited for.
AskClosedAtOnce ==
  /\ Step("AskClosed") /\ pc' = "CloseDone"
  /\ fstate' = IF seen = "Closed" THEN fstate ELSE "Closed"
  /\ UNCHANGED <<State, target, failed, caller, seen, resume, ring, power, published,
                 backend, online, size, mapped, watcher, backendPath, watches, ringOrder,
                 connected, sectors, bugcheck>>

\* The second: ask for CLOSED until it is closed.
AskClosed ==
  /\ Step("AskClosed")
  /\ \/ seen = "Closed" /\ pc' = "CloseDone" /\ UNCHANGED fstate
     \/ seen # "Closed" /\ pc' = "AwaitClosed" /\ fstate' = "Closed"
     \/ seen # "Closed" /\ MayFail("store") /\ pc' = "CloseFailed" /\ UNCHANGED fstate
  /\ UNCHANGED <<State, target, failed, caller, seen, resume, ring, power, published,
                 backend, online, size, mapped, watcher, backendPath, watches, ringOrder,
                 connected, sectors, bugcheck>>

\* Mutant of CloseEnd: the ring is freed only if the close succeeds.
CloseEndOnSuccess ==
  /\ Step("CloseDone") \/ Step("CloseFailed")
  /\ State' = IF pc = "CloseDone" THEN "Closed"
              ELSE IF State = "Initialized" THEN State ELSE "Invalid"
  /\ failed' = (failed \/ pc = "CloseFailed")
  /\ IF State = "Connected" /\ pc = "CloseDone" THEN FreeRing ELSE UNCHANGED ring
  /\ pc' = "Loop" /\ seen' = "Unknown"
  /\ UNCHANGED <<target, caller, resume, power, store, watcher, backendPath, watches,
                 ringOrder, connected, sectors, bugcheck>>

\* Back in __FrontendSetState: FrontendDisconnect if it was CONNECTED; INVALID if the
\* close failed, except from INITIALIZED.
CloseEnd ==
  /\ Step("CloseDone") \/ Step("CloseFailed")
  /\ State' = IF pc = "CloseDone" THEN "Closed"
              ELSE IF State = "Initialized" THEN State ELSE "Invalid"
  /\ failed' = (failed \/ pc = "CloseFailed")
  /\ IF State = "Connected" THEN FreeRing ELSE UNCHANGED ring
  /\ pc' = "Loop" /\ seen' = "Unknown"
  /\ UNCHANGED <<target, caller, resume, power, store, watcher, backendPath, watches,
                 ringOrder, connected, sectors, bugcheck>>

-----------------------------------------------------------------------------
(* FrontendPrepare, FrontendConnect, FrontendEnable, FrontendDisable.      *)

\* The state asked for is out of reach: Failed.  A failed Prepare or Connect is undone
\* by a Close.
Refuse ==
  /\ Decide("Refuse") /\ failed' = TRUE
  /\ UNCHANGED <<State, pc, target, caller, seen, resume, ring, power, store, watcher,
                 backendPath, watches, ringOrder, connected, sectors, bugcheck>>
Undo == failed' = TRUE /\ pc' = "Close"

\* A new watch fires at once: the event is set.  The frontend becomes INITIALISING.
PrepareBegin ==
  /\ Decide("Prepare")
  /\ \/ /\ UpdateBackendPath /\ watches' = TRUE /\ event' = TRUE
        /\ fstate' = "Initialising" /\ seen' = "Unknown" /\ pc' = "AwaitInitWait"
        /\ UNCHANGED failed
     \/ /\ MayFail("store") /\ Undo /\ watches' = FALSE
        /\ UpdateBackendPath \/ UNCHANGED backendPath
        /\ event' \in {event, TRUE}
        /\ UNCHANGED <<fstate, seen>>
  /\ UNCHANGED <<State, target, caller, resume, ring, power, published, backend, online,
                 size, mapped, reader, ejected, ringOrder, connected, sectors, bugcheck>>

\* INITWAIT is the only answer taken; __ReadFeatures reads max-ring-page-order.
PrepareEnd ==
  /\ Step("Prepared")
  /\ \/ /\ seen = "InitWait"
        /\ ringOrder' \in RingOrders
        /\ State' = "Prepared" /\ pc' = "Loop"
        /\ UNCHANGED <<failed, watches>>
     \/ seen # "InitWait" /\ watches' = FALSE /\ Undo /\ UNCHANGED <<State, ringOrder>>
  /\ UNCHANGED <<target, caller, seen, resume, ring, power, store, watcher, backendPath,
                 connected, sectors, bugcheck>>

\* __AllocRing.  When no grant is left the grants made before are kept; when no event
\* channel is opened Status is still that of the last Get, STATUS_SUCCESS.
AllocRing ==
  /\ Decide("Connect")
  /\ ~sharedRing /\ refs \cap RingPages = {} /\ ~port
  /\ \/ /\ sharedRing' = TRUE /\ refs' = refs \cup RingPages /\ port' = TRUE
        /\ pc' = "Publish" /\ UNCHANGED <<leaked, failed>>
     \/ MayFail("pages") /\ Undo /\ UNCHANGED ring
     \/ /\ MayFail("grant") /\ Undo
        /\ \E n \in RingPages : /\ refs' = refs \cup {i \in RingPages : i < n}
                                 /\ leaked' = leaked \cup {i \in RingPages : i < n}
        /\ UNCHANGED <<sharedRing, port>>
     \/ MayFail("evtchn") /\ pc' = "Publish" /\ UNCHANGED <<ring, failed>>
  /\ UNCHANGED <<State, target, caller, seen, resume, power, store, watcher, backendPath,
                 watches, ringOrder, connected, sectors, bugcheck>>

\* ASSERT3P(SharedRing, ==, NULL), ASSERT3U(RingGrantRefs[Index], ==, 0),
\* ASSERT3P(EvtchnPort, ==, NULL)
AllocRingAsserts ==
  /\ Decide("Connect") /\ (sharedRing \/ port \/ refs \cap RingPages # {})
  /\ Stop(IF sharedRing THEN "Ring" ELSE IF port THEN "Port" ELSE "Grant")

\* __WriteRing, a transaction, and the frontend becomes INITIALISED.
Publish ==
  /\ Step("Publish")
  /\ \/ /\ published' = refs \cap RingPages /\ fstate' = "Initialised"
        /\ seen' = "Unknown" /\ pc' = "AwaitConnected" /\ UNCHANGED <<ring, failed>>
     \/ /\ MayFail("store") /\ FreeRing /\ Undo
        /\ published' \in {published, refs \cap RingPages}
        /\ UNCHANGED <<fstate, seen>>
  /\ UNCHANGED <<State, target, caller, resume, power, backend, online, size, mapped,
                 watcher, backendPath, watches, ringOrder, connected, sectors, bugcheck>>

\* CONNECTED is the only answer taken.  The ring is freed before the backend is told.
ConnectEnd ==
  /\ Step("Connecting")
  /\ \/ /\ seen = "Connected" /\ fstate' = "Connected"
        /\ State' = "Connected" /\ pc' = "Loop"
        /\ sectors' \in {size} \cup (IF MayFail("read") THEN {sectors} ELSE {})
        /\ UNCHANGED <<ring, failed>>
     \/ /\ seen # "Connected" \/ MayFail("store")
        /\ FreeRing /\ Undo /\ UNCHANGED <<fstate, State, sectors>>
  /\ UNCHANGED <<target, caller, seen, resume, power, published, backend, online, size,
                 mapped, watcher, backendPath, watches, ringOrder, connected, bugcheck>>

Enable ==
  /\ Decide("Enable") /\ State' = "Enabled" /\ connected' = TRUE
  /\ UNCHANGED <<pc, target, failed, caller, seen, resume, ring, power, store, watcher,
                 backendPath, watches, ringOrder, sectors, bugcheck>>

Disable ==
  /\ Decide("Disable") /\ State' = "Connected" /\ connected' = FALSE
  /\ UNCHANGED <<pc, target, failed, caller, seen, resume, ring, power, store, watcher,
                 backendPath, watches, ringOrder, sectors, bugcheck>>

-----------------------------------------------------------------------------
(* PdoCreate, PdoD3ToD0, PdoD0ToD3, PdoDestroy.                            *)

\* __FrontendSetState is called with StateLock held.
SetState(who, state) ==
  caller' = who /\ target' = state /\ failed' = FALSE /\ pc' = "Loop"

\* FrontendD3ToD0: the interfaces and the suspend callback.  If it is not registered
\* all is undone, in PdoD3ToD0 and PdoCreate too: no step.
\* ASSERT3P(SuspendLateCallback, ==, NULL)
Register ==
  /\ powered' = TRUE /\ registered' = TRUE /\ active' = TRUE /\ pc' = "PowerUp"
  /\ bugcheck' = IF registered THEN "Callback" ELSE bugcheck
  /\ UNCHANGED <<State, target, failed, caller, seen, resume, ring, store, watcher,
                 backendPath, watches, ringOrder, connected, sectors>>

\* PdoCreate, from the scan of the bus, and FrontendCreate.
Create ==
  /\ Step("Idle") /\ life = "Absent" /\ life' = "Creating" /\ masked' \in Masked
  /\ Register

\* PdoD3ToD0 of a PDO that is in D3.  The power state changes before the work is done.
PowerOn ==
  /\ Step("Idle") /\ life = "Live" /\ ~powered
  /\ Register /\ UNCHANGED <<life, masked>>

\* "connect frontend", if the emulated disk is masked.
Connect ==
  /\ Step("PowerUp")
  /\ \/ masked /\ SetState("PowerUp", "Enabled") /\ UNCHANGED life
     \/ /\ ~masked /\ pc' = "Idle" /\ life' = "Live"
        /\ UNCHANGED <<target, failed, caller>>
  /\ UNCHANGED <<State, seen, resume, ring, masked, powered, active, registered, store,
                 watcher, backendPath, watches, ringOrder, connected, sectors, bugcheck>>

\* PdoD0ToD3: __PdoPauseDataPath, at PASSIVE_LEVEL.
PowerOff ==
  /\ Step("Idle") /\ life = "Live" /\ powered
  /\ powered' = FALSE
  /\ pc' = IF masked THEN "PowerDown" ELSE "Release"
  /\ UNCHANGED <<State, target, failed, caller, seen, resume, ring, life, masked, active,
                 registered, store, watcher, backendPath, watches, ringOrder, connected,
                 sectors, bugcheck>>

Disconnect ==
  /\ Step("PowerDown") /\ SetState("PowerDown", "Closed")
  /\ UNCHANGED <<State, seen, resume, ring, power, store, watcher, backendPath, watches,
                 ringOrder, connected, sectors, bugcheck>>

\* __FrontendSetState returns to the power thread: a failure to power up is undone.
Return ==
  /\ Decide("Return") /\ caller \in {"PowerUp", "PowerDown"}
  /\ \/ /\ caller = "PowerUp" /\ ~failed
        /\ pc' = "Idle" /\ life' = "Live" /\ UNCHANGED powered
     \/ caller = "PowerUp" /\ failed /\ pc' = "Release" /\ UNCHANGED <<life, powered>>
     \/ caller = "PowerDown" /\ pc' = "Release" /\ UNCHANGED <<life, powered>>
  /\ caller' = "None" /\ failed' = FALSE /\ target' = "Closed" /\ seen' = "Unknown"
  /\ UNCHANGED <<State, resume, ring, masked, active, registered, store, watcher,
                 backendPath, watches, ringOrder, connected, sectors, bugcheck>>

\* FrontendD0ToD3; PdoD3ToD0 ends in D3 if it has failed.
Release ==
  /\ Step("Release")
  /\ powered' = FALSE /\ active' = FALSE /\ registered' = FALSE /\ backendPath' = "NULL"
  /\ pc' = "Idle"
  /\ UNCHANGED <<State, target, failed, caller, seen, resume, ring, life, masked, store,
                 watcher, watches, ringOrder, connected, sectors, bugcheck>>

\* PdoDestroy, or the end of a PdoCreate that has failed; FdoFrontend is kept out by
\* Fdo->Lock.  FrontendDestroy asserts that all is released; of the grants, the first.
CanDestroy ==
  /\ Step("Idle") /\ ~powered
  /\ life = "Creating" \/ (life = "Live" /\ reader.pc = "Idle")
Released ==
  /\ ~registered /\ backendPath = "NULL"
  /\ ~sharedRing /\ 0 \notin refs /\ ~port /\ ~watches

Destroy ==
  /\ CanDestroy /\ Released
  /\ life' = "Absent" /\ State' = "Initialized"
  /\ masked' = TRUE /\ refs' = {} /\ leaked' = {} /\ sectors' = 0 /\ ringOrder' = 0
  /\ ejected' = FALSE
  /\ UNCHANGED <<pc, target, failed, caller, seen, resume, sharedRing, port, powered,
                 active, registered, store, event, reader, backendPath, watches,
                 connected, bugcheck>>

DestroyAsserts == CanDestroy /\ ~Released /\ Stop("Destroy")

-----------------------------------------------------------------------------
(* FrontendSuspendLateCallback.                                            *)

\* One CPU runs, none holds StateLock or is in FdoFrontend.  The domain is resumed
\* where it was, or with a new backend.
SuspendBegin ==
  /\ bugcheck = "None" /\ Passive /\ reader.pc = "Idle"
  /\ life = "Live" /\ registered
  /\ resume' = [State |-> State, pc |-> pc]
  /\ SetState("Suspend", "Closed")
  /\ \/ UNCHANGED <<fstate, backend, mapped>>
     \/ fstate' = "Initialising" /\ backend' = "Initialising" /\ mapped' = {}
  /\ UNCHANGED <<State, seen, ring, power, published, online, size, watcher, backendPath,
                 watches, ringOrder, connected, sectors, bugcheck>>

\* Mutant of SuspendClosed: the target is left closed.
SuspendClosedOnly ==
  /\ Decide("Return") /\ caller = "Suspend" /\ ~failed
  /\ caller' = "None" /\ pc' = resume.pc /\ UNCHANGED <<target, failed>>
  /\ UNCHANGED <<State, seen, resume, ring, power, store, watcher, backendPath, watches,
                 ringOrder, connected, sectors, bugcheck>>

\* Closed; now to the State it had.
SuspendClosed ==
  /\ Decide("Return") /\ caller = "Suspend" /\ ~failed
  /\ SetState("Resume", resume.State)
  /\ UNCHANGED <<State, seen, resume, ring, power, store, watcher, backendPath, watches,
                 ringOrder, connected, sectors, bugcheck>>

SuspendEnd ==
  /\ Decide("Return") /\ caller = "Resume" /\ ~failed
  /\ caller' = "None" /\ pc' = resume.pc
  /\ target' = "Closed" /\ seen' = "Unknown" /\ resume' = NoResume
  /\ UNCHANGED <<State, failed, ring, power, store, watcher,
                 backendPath, watches, ringOrder, connected, sectors, bugcheck>>

\* ASSERT(FALSE)
SuspendAsserts ==
  /\ Decide("Return") /\ caller \in {"Suspend", "Resume"} /\ failed
  /\ Stop("Resume")

-----------------------------------------------------------------------------
(* FdoFrontend, the thread BackendEvent wakes; under Fdo->Lock.            *)

\* Between two sections of StateLock, or on another CPU; never during a suspend.
MayRead == reader.pc = "Idle" /\ caller \notin {"Suspend", "Resume"} /\ (Smp \/ Passive)

\* FrontendBackendPathChanged: only if Active.
ReadBegin ==
  /\ bugcheck = "None" /\ MayRead /\ life = "Live" /\ event
  /\ event' = FALSE
  /\ reader' = IF active THEN [pc |-> "Reading", path |-> backendPath] ELSE reader
  /\ UNCHANGED <<control, ring, power, store, ejected, backendPath, watches, ringOrder,
                 connected, sectors, bugcheck>>

\* __ReadDiskInfo, then __CheckBackendForEject: nothing without a path, or when the
\* store fails.
ReadEnd ==
  /\ bugcheck = "None" /\ reader.pc = "Reading"
  /\ reader' = [pc |-> "Idle", path |-> "NULL"]
  /\ \/ /\ reader.path # "NULL"
        /\ sectors' = size
        /\ ejected' = (ejected \/ EjectDue)
     \/ /\ reader.path = "NULL" \/ MayFail("read")
        /\ UNCHANGED <<sectors, ejected>>
  /\ UNCHANGED <<control, ring, power, store, event, backendPath, watches, ringOrder,
                 connected, bugcheck>>

-----------------------------------------------------------------------------
(* External: the backend and the toolstack.  A change the watches see sets *)
(* BackendEvent.                                                           *)

BackendGoes(from, to) ==
  /\ bugcheck = "None" /\ backend \in from /\ backend' = to
  /\ event' = (event \/ watches)
  /\ UNCHANGED <<control, ring, power, fstate, published, online, size, reader, ejected,
                 backendPath, watches, ringOrder, connected, sectors, bugcheck>>

\* Its disk is opened; or the frontend comes back after a close.
BackendReady ==
  /\ backend = "Closed" => fstate = "Initialising" /\ online
  /\ \E to \in {"InitWait"} \cup (IF Bypass THEN {"Initialised"} ELSE {}) :
       BackendGoes({"Initialising", "Closed"}, to)
  /\ UNCHANGED mapped

\* It maps the ring the frontend has published, or fails to.
BackendConnect ==
  /\ fstate = "Initialised"
  /\ \/ /\ published # {} /\ published \subseteq refs
        /\ BackendGoes({"InitWait", "Initialised"}, "Connected") /\ mapped' = published
     \/ ~(published # {} /\ published \subseteq refs)
        /\ BackendGoes({"InitWait", "Initialised"}, "Closing") /\ UNCHANGED mapped

BackendClosing ==
  /\ fstate = "Closing"
  /\ BackendGoes({"Initialising", "InitWait", "Initialised", "Connected"}, "Closing")
  /\ UNCHANGED mapped

\* It unmaps the ring before it says that it is closed.
BackendClosed ==
  /\ fstate = "Closed"
  /\ BackendGoes(XenbusState \ {"Closed"}, "Closed")
  /\ mapped' = {}

\* The toolstack takes the device away: offline, and the backend closing, at once.
GoOffline ==
  /\ Detach /\ online /\ bugcheck = "None" /\ backend # "Closed"
  /\ online' = FALSE /\ backend' = "Closing" /\ event' = (event \/ watches)
  /\ UNCHANGED <<control, ring, power, fstate, published, size, mapped, reader, ejected,
                 backendPath, watches, ringOrder, connected, sectors, bugcheck>>

\* A new device, when no PDO is left of the old one.
NewDevice ==
  /\ bugcheck = "None" /\ life = "Absent" /\ pc = "Idle"
  /\ online' = TRUE /\ backend' = "Initialising" /\ fstate' = "Initialising" /\ mapped' = {}
  /\ UNCHANGED <<control, ring, power, published, size, watcher, backendPath, watches,
                 ringOrder, connected, sectors, bugcheck>>

\* The disk is resized.
Resize ==
  /\ bugcheck = "None" /\ size' \in Sizes \ {size}
  /\ event' = (event \/ (watches /\ "sectors" \in Watched))
  /\ UNCHANGED <<control, ring, power, fstate, published, backend, online, mapped, reader,
                 ejected, backendPath, watches, ringOrder, connected, sectors, bugcheck>>

Halted == bugcheck # "None" /\ UNCHANGED vars

-----------------------------------------------------------------------------
Close == StartClose \/ CloseBegin \/ AskClosing \/ AskClosed \/ CloseEnd
Open == PrepareBegin \/ PrepareEnd \/ AllocRing \/ AllocRingAsserts \/ Publish
          \/ ConnectEnd \/ Enable \/ Disable \/ Refuse
\* Inside __FrontendSetState; a wait need not fail.
Locked == Close \/ Open \/ WaitState \/ WaitStateAsserts
            \/ Return \/ SuspendClosed \/ SuspendEnd \/ SuspendAsserts
\* The power thread between its sections.
Unlocked == Connect \/ Disconnect \/ Release
Reader == ReadBegin \/ ReadEnd
Backend == BackendReady \/ BackendConnect \/ BackendClosing \/ BackendClosed
Toolstack == GoOffline \/ NewDevice \/ Resize

Next == Locked \/ WaitFails \/ Unlocked
          \/ Create \/ PowerOn \/ PowerOff \/ Destroy \/ DestroyAsserts
          \/ SuspendBegin \/ Reader \/ Backend \/ Toolstack \/ Halted

Spec == Init /\ [][Next]_vars

\* A CPU at DISPATCH_LEVEL runs on; a thread that is ready time and again runs in the
\* end; the backend follows the state diagram.
Fairness == /\ WF_vars(Locked) /\ SF_vars(Unlocked)
            /\ SF_vars(ReadBegin) /\ WF_vars(ReadEnd)
            /\ WF_vars(BackendReady) /\ WF_vars(BackendConnect)
            /\ WF_vars(BackendClosing) /\ WF_vars(BackendClosed)
FairSpec == Spec /\ Fairness

-----------------------------------------------------------------------------
(* Properties.                                                             *)

\* The ring, its grants and its event channel are released before they are made again,
\* the callback registered once, and all is gone at FrontendDestroy: no ASSERT about them
\* fails, but for grants that a failed __AllocRing has left.
AssertsHold ==
  /\ bugcheck \notin {"Ring", "Port", "Callback"}
  /\ bugcheck \in {"Grant", "Destroy"} => leaked # {}

\* Outside __FrontendSetState the ring, all its grants, the event channel and the watches
\* exist exactly when the state is ENABLED, and so does Connected, whatever has failed;
\* only the grants of a failed __AllocRing remain.
ResourcesMatch ==
  Passive /\ bugcheck = "None" =>
    IF State = "Enabled"
    THEN sharedRing /\ port /\ refs = RingPages /\ watches /\ connected
    ELSE ~sharedRing /\ ~port /\ refs = leaked /\ ~watches /\ ~connected

\* The backend has unmapped the ring when FrontendClose succeeds: FrontendDisconnect
\* frees memory that no one else has mapped.
ClosedMeansUnmapped == pc = "CloseDone" => mapped = {}

\* A target in D0 whose disk is masked is enabled, whatever has failed or been suspended
\* on the way.
PoweredMeansEnabled ==
  pc = "Idle" /\ life = "Live" /\ powered /\ masked /\ bugcheck = "None" => State = "Enabled"

\* FrontendBackendPathChanged uses a path that is still allocated, and the interfaces.
ReadsLivePath == reader.pc = "Reading" => registered /\ reader.path = backendPath

\* A callback that restores the state it found always succeeds: ASSERT(FALSE).
ResumeSucceeds == bugcheck # "Resume"

\* A backend that skips InitWait is not turned down.
BypassTolerated == ~(pc = "Close" /\ failed /\ seen = "Initialised")

\* A power transition or a suspend ends, unless the device is taken away: __WaitState
\* spins for a backend that does not come back.
TransitionsEnd == pc # "Idle" ~> pc = "Idle" \/ bugcheck # "None" \/ ~online

\* A backend that closes because the device is taken away is answered by an eject.
EjectIssued ==
  State = "Enabled" /\ ~online /\ backend = "Closing"
    ~> ejected \/ State # "Enabled" \/ bugcheck # "None"

\* A new size of the disk reaches DiskInfo.
ResizeSeen ==
  State = "Enabled" /\ sectors # size
    ~> sectors = size \/ State # "Enabled" \/ bugcheck # "None"

\* The watches, dropped and made again by suspends, resumes and power cycles, lose no
\* change of the backend (frontend.c:1211-1235, 1793-1808).
ChangesSeen == EjectIssued /\ ResizeSeen
=============================================================================
