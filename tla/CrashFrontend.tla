---------------------------- MODULE CrashFrontend ---------------------------
(***************************************************************************)
(* How the crash-dump driver comes up (src/xencrsh/frontend.c 310-1190,    *)
(* fdo.c 61-280, pdo.c 93-170): FdoInitialize closes every disk the dead   *)
(* kernel left open, then finds the disk to dump to and connects it.       *)
(*                                                                         *)
(* The driver is one thread; it learns of the backends' states by polling  *)
(* XenStore.  A backend is a process of its own that acts when the         *)
(* frontend's state has been written, on the value it finds then.  Calls   *)
(* to XenStore are atomic here: CrashStore models them.                    *)
(***************************************************************************)
EXTENDS Integers, FiniteSets

CONSTANTS
  Disks,        \* the directories of device/vbd
  MaxFailures   \* bound: calls that fail (XenStore, memory, mapping of the ring)

ASSUME CrashFrontendAssumption ==
  /\ IsFiniteSet(Disks) /\ Disks # {}
  /\ MaxFailures \in Nat

VARIABLES
  front, back,  \* XenStore: the states of the two ends of each disk
  watch,        \* the backends whose watch on the frontend's state has fired
  ringRef,      \* XenStore: whose ring-ref and event-channel there are, "old" or "new"
  mapped,       \* the ring a backend has mapped: "none", "old" or "new"
  fpc,          \* where FdoInitialize is
  disk,         \* the disk it works on
  seen,         \* its BackendState
  todo,         \* the rest of FdoCloseAllTargets' list
  dump,         \* the disk to dump to, by the "dump" or "hibernation" flag
  target,       \* Frontend->State of Fdo->Target, or "none"
  failing,      \* the state FrontendSetState gives up from, or "no"
  connected,    \* Frontend->Connected
  ring,         \* the shared page, its grant and its event channel
  failures      \* calls that failed

feVars == <<front, back, watch, ringRef, mapped, fpc, disk, seen, todo, dump, target,
            failing, connected, ring, failures>>
store == <<front, back, watch, ringRef, mapped>>
-----------------------------------------------------------------------------
XenbusStates == {"invalid", "initializing", "initwait", "initialized", "connected", "closing", "closed"}
TargetStates == {"none", "INITIALIZED", "CLOSED", "PREPARED", "CONNECTED", "ENABLED", "INVALID"}

ClosePcs == {"wait", "setClosing", "waitClosing", "setClosed", "waitClosed"}
PreparePcs == {"writeTarget", "setInitializing", "waitInitWait", "readFeatures"}
ConnectPcs == {"allocRing", "writeRing", "setInitialized", "waitConnected", "setConnected", "readDisk"}
Pcs == {"start", "sweep", "find", "update", "setState", "up", "badConfig"} \cup ClosePcs \cup PreparePcs \cup ConnectPcs

NoRing == [page |-> FALSE, grant |-> FALSE, port |-> FALSE]
AllRing == [page |-> TRUE, grant |-> TRUE, port |-> TRUE]

\* What a kernel that crashes at any point of its own handshakes leaves behind.
OldStates ==
  LET S(f, b, w, m) == [front |-> f, back |-> b, watch |-> w, mapped |-> m]
  IN  {S("invalid", "initializing", FALSE, "none"), S("initializing", "closed", TRUE, "none"),
       S("initializing", "initwait", FALSE, "none"), S("initialized", "initwait", TRUE, "none"),
       S("initialized", "connected", FALSE, "old"), S("connected", "connected", FALSE, "old"),
       S("closing", "connected", TRUE, "old"), S("closing", "closing", FALSE, "old"),
       S("closed", "closing", TRUE, "old"), S("closed", "closed", FALSE, "none")}

FrontendInit ==
  /\ \E old \in [Disks -> OldStates] :
       /\ front = [d \in Disks |-> old[d].front]
       /\ back = [d \in Disks |-> old[d].back]
       /\ watch = {d \in Disks : old[d].watch}
       /\ mapped = [d \in Disks |-> old[d].mapped]
  /\ ringRef = [d \in Disks |-> "old"]
  /\ fpc = "start"
  /\ dump \in Disks
  /\ disk = dump
  /\ seen = "invalid"
  /\ todo = {}
  /\ target = "none"
  /\ failing = "no"
  /\ connected = FALSE
  /\ ring = NoRing
  /\ failures = 0
-----------------------------------------------------------------------------
(* Steps. *)

Goto(l) == fpc' = l
Fails == failures < MaxFailures /\ failures' = failures + 1
Works == UNCHANGED failures

\* ___SetState and ___SetState2: the write fires the backend's watch.
SetState(s) ==
  /\ front' = [front EXCEPT ![disk] = s]
  /\ watch' = watch \cup {disk}
  /\ UNCHANGED <<back, ringRef, mapped>>

\* __PollState and __WaitState2: read every 100 ms, until the state is a new one.
Poll ==
  /\ back[disk] # seen
  /\ seen' = back[disk]
  /\ Works

Sweeping == target = "none"

\* Where a failure of FrontendCloseTarget or FrontendClose leads: the first is ignored.
CloseFailed ==
  IF Sweeping
  THEN Goto("sweep") /\ UNCHANGED <<target, failing>>
  ELSE /\ target' = IF target = "INITIALIZED" THEN target ELSE "INVALID"
       /\ failing' = "no"
       /\ Goto("up")

\* FrontendClose has succeeded: the way up goes on, or stops here.
CloseDone ==
  IF Sweeping
  THEN Goto("sweep") /\ UNCHANGED <<target, failing>>
  ELSE /\ target' = "CLOSED"
       /\ failing' = "no"
       /\ Goto(IF failing = "no" THEN "setState" ELSE "up")
-----------------------------------------------------------------------------
(* FdoInitialize, FdoCloseAllTargets and FdoFindTarget. *)

\* StoreDirectory.
Start ==
  /\ fpc = "start"
  /\ \/ Works /\ todo' = Disks /\ Goto("sweep")
     \/ Fails /\ Goto("badConfig") /\ UNCHANGED todo
  /\ UNCHANGED <<store, disk, seen, dump, target, failing, connected, ring>>

\* The next disk, unless its backend cannot be read.
Sweep ==
  /\ fpc = "sweep"
  /\ \E d \in todo :
       /\ todo' = todo \ {d}
       /\ \/ Works /\ disk' = d /\ seen' = "invalid" /\ Goto("wait")
          \/ Fails /\ UNCHANGED <<disk, seen, fpc>>
  /\ UNCHANGED <<store, dump, target, failing, connected, ring>>

\* FdoFindTarget, PdoCreate and FrontendCreate.  Without the frontend's path, which
\* PdoCreate does not look at, the target stays INITIALIZED; without a PDO the adapter fails.
Find ==
  /\ fpc = "sweep" /\ todo = {}
  /\ disk' = dump
  /\ \/ Works /\ target' = "INITIALIZED" /\ Goto("update")
     \/ Fails /\ target' = "INITIALIZED" /\ Goto("up")
     \/ Fails /\ UNCHANGED target /\ Goto("badConfig")
  /\ UNCHANGED <<store, seen, todo, dump, failing, connected, ring>>
-----------------------------------------------------------------------------
(* FrontendCloseTarget and FrontendClose. *)

\* __UpdateBackendPath, and the inquiry data are freed.
UpdatePath ==
  /\ fpc = "update"
  /\ \/ /\ Works /\ seen' = "invalid" /\ Goto("wait")
        /\ UNCHANGED <<target, failing>>
     \/ Fails /\ CloseFailed /\ UNCHANGED seen
  /\ UNCHANGED <<store, disk, todo, dump, connected, ring>>

WaitFails ==
  /\ fpc \in {"wait", "waitClosing", "waitClosed"}
  /\ Fails /\ CloseFailed
  /\ seen' = "invalid"
  /\ UNCHANGED <<store, disk, todo, dump, connected, ring>>

AfterClosing(s) == IF s = "closing" THEN Goto("setClosed") /\ UNCHANGED <<target, failing>>
                   ELSE IF s = "closed" THEN CloseDone
                   ELSE Goto("setClosing") /\ UNCHANGED <<target, failing>>

Wait ==
  /\ fpc = "wait"
  /\ Poll
  /\ IF seen' = "initializing" THEN UNCHANGED <<fpc, target, failing>> ELSE AfterClosing(seen')
  /\ UNCHANGED <<store, disk, todo, dump, connected, ring>>

SetClosing ==
  /\ fpc = "setClosing"
  /\ \/ /\ Works /\ SetState("closing") /\ Goto("waitClosing")
        /\ UNCHANGED <<target, failing>>
     \/ Fails /\ CloseFailed /\ UNCHANGED store
  /\ UNCHANGED <<disk, seen, todo, dump, connected, ring>>

\* A mutant: CLOSING is enough.
WaitClosingEnough ==
  /\ fpc = "waitClosing"
  /\ Poll
  /\ IF seen' \in {"closing", "closed"} THEN CloseDone ELSE AfterClosing(seen')
  /\ UNCHANGED <<store, disk, todo, dump, connected, ring>>

WaitClosing ==
  /\ fpc = "waitClosing"
  /\ Poll
  /\ AfterClosing(seen')
  /\ UNCHANGED <<store, disk, todo, dump, connected, ring>>

SetClosed ==
  /\ fpc = "setClosed"
  /\ \/ /\ Works /\ SetState("closed") /\ Goto("waitClosed")
        /\ UNCHANGED <<target, failing>>
     \/ Fails /\ CloseFailed /\ UNCHANGED store
  /\ UNCHANGED <<disk, seen, todo, dump, connected, ring>>

WaitClosed ==
  /\ fpc = "waitClosed"
  /\ Poll
  /\ IF seen' = "closed" THEN CloseDone ELSE Goto("setClosed") /\ UNCHANGED <<target, failing>>
  /\ UNCHANGED <<store, disk, todo, dump, connected, ring>>
-----------------------------------------------------------------------------
(* FrontendSetState, on its way to ENABLED. *)

SetTargetState ==
  /\ fpc = "setState"
  /\ CASE target = "CLOSED" -> Goto("writeTarget") /\ UNCHANGED <<target, connected>>
       [] target = "PREPARED" -> Goto("allocRing") /\ UNCHANGED <<target, connected>>
       [] target = "CONNECTED" -> Goto("up") /\ target' = "ENABLED" /\ connected' = TRUE
  /\ UNCHANGED <<store, disk, seen, todo, dump, failing, ring, failures>>

\* A step of FrontendPrepare or FrontendConnect fails: __FreeRing, then FrontendClose.
GiveUp ==
  /\ ring' = NoRing
  /\ failing' = target
  /\ Goto("update")

\* FrontendPrepare.
WriteTargetPath ==
  /\ fpc = "writeTarget"
  /\ \/ Works /\ Goto("setInitializing") /\ UNCHANGED <<ring, failing>>
     \/ Fails /\ GiveUp
  /\ UNCHANGED <<store, disk, seen, todo, dump, target, connected>>

SetInitializing ==
  /\ fpc = "setInitializing"
  /\ \/ Works /\ SetState("initializing") /\ seen' = "invalid" /\ Goto("waitInitWait") /\ UNCHANGED <<ring, failing>>
     \/ Fails /\ GiveUp /\ UNCHANGED <<store, seen>>
  /\ UNCHANGED <<disk, todo, dump, target, connected>>

WaitInitWait ==
  /\ fpc = "waitInitWait"
  /\ \/ /\ Poll
        /\ CASE seen' \in {"closed", "initializing"} -> UNCHANGED <<fpc, ring, failing>>
             [] seen' = "initwait" -> Goto("readFeatures") /\ UNCHANGED <<ring, failing>>
             [] OTHER -> GiveUp
     \/ Fails /\ GiveUp /\ UNCHANGED seen
  /\ UNCHANGED <<store, disk, todo, dump, target, connected>>

\* PdoReadInquiryData and __ReadFeatures: what cannot be read has a default.
ReadFeatures ==
  /\ fpc = "readFeatures"
  /\ target' = "PREPARED"
  /\ Goto("setState")
  /\ UNCHANGED <<store, disk, seen, todo, dump, failing, connected, ring, failures>>

\* FrontendConnect.  __AllocRing gives back what it got when a part of it fails.
AllocRing ==
  /\ fpc = "allocRing"
  /\ \/ Works /\ ring' = AllRing /\ Goto("writeRing") /\ UNCHANGED failing
     \/ Fails /\ GiveUp
  /\ UNCHANGED <<store, disk, seen, todo, dump, target, connected>>

\* __WriteRing: a transaction that is retried until it is committed.
WriteRing ==
  /\ fpc = "writeRing"
  /\ \/ /\ Works /\ Goto("setInitialized")
        /\ ringRef' = [ringRef EXCEPT ![disk] = "new"]
        /\ UNCHANGED <<ring, failing>>
     \/ Fails /\ GiveUp /\ UNCHANGED ringRef
  /\ UNCHANGED <<front, back, watch, mapped, disk, seen, todo, dump, target, connected>>

SetInitialized ==
  /\ fpc = "setInitialized"
  /\ \/ Works /\ SetState("initialized") /\ seen' = "invalid" /\ Goto("waitConnected") /\ UNCHANGED <<ring, failing>>
     \/ Fails /\ GiveUp /\ UNCHANGED <<store, seen>>
  /\ UNCHANGED <<disk, todo, dump, target, connected>>

\* A mutant: any state but the first is taken for CONNECTED.
WaitConnectedNot ==
  /\ fpc = "waitConnected"
  /\ Poll
  /\ Goto("setConnected")
  /\ UNCHANGED <<store, disk, todo, dump, target, connected, ring, failing>>

\* A mutant: a backend that closes is waited for.
WaitConnectedOnly ==
  /\ fpc = "waitConnected"
  /\ Poll
  /\ IF seen' = "connected" THEN Goto("setConnected") ELSE UNCHANGED fpc
  /\ UNCHANGED <<store, disk, todo, dump, target, connected, ring, failing>>

WaitConnected ==
  /\ fpc = "waitConnected"
  /\ \/ /\ Poll
        /\ CASE seen' \in {"initwait", "initializing", "initialized"} -> UNCHANGED <<fpc, ring, failing>>
             [] seen' = "connected" -> Goto("setConnected") /\ UNCHANGED <<ring, failing>>
             [] OTHER -> GiveUp
     \/ Fails /\ GiveUp /\ UNCHANGED seen
  /\ UNCHANGED <<store, disk, todo, dump, target, connected>>

SetConnected ==
  /\ fpc = "setConnected"
  /\ \/ Works /\ SetState("connected") /\ Goto("readDisk") /\ UNCHANGED <<ring, failing>>
     \/ Fails /\ GiveUp /\ UNCHANGED store
  /\ UNCHANGED <<disk, seen, todo, dump, target, connected>>

ReadDiskInfo ==
  /\ fpc = "readDisk"
  /\ target' = "CONNECTED"
  /\ Goto("setState")
  /\ UNCHANGED <<store, disk, seen, todo, dump, failing, connected, ring, failures>>
-----------------------------------------------------------------------------
(* A backend: its probe, and what it does when the frontend's state was written. *)

driverVars == <<front, ringRef, fpc, disk, seen, todo, dump, target, failing, connected, ring>>
Becomes(d, s) == back' = [back EXCEPT ![d] = s]
Unmap(d) == mapped' = [mapped EXCEPT ![d] = "none"]

BackendProbe(d) ==
  /\ back[d] = "initializing"
  /\ Becomes(d, "initwait")
  /\ UNCHANGED <<watch, mapped, driverVars, failures>>

\* The old kernel's grants are still there; the driver's own is while it has the ring.
CanMap(d) == ringRef[d] = "old" \/ ring.grant

BackendActs(d) ==
  /\ d \in watch
  /\ watch' = watch \ {d}
  /\ CASE front[d] = "initializing" -> /\ IF back[d] = "closed" THEN Becomes(d, "initwait") ELSE UNCHANGED back
                                       /\ UNCHANGED mapped /\ Works
       [] front[d] \in {"initialized", "connected"} ->
            IF back[d] = "connected" THEN UNCHANGED <<back, mapped, failures>>
            ELSE \/ /\ CanMap(d)
                    /\ Works /\ Becomes(d, "connected")
                    /\ mapped' = [mapped EXCEPT ![d] = ringRef[d]]
                 \/ ~CanMap(d) /\ Works /\ Becomes(d, "closing") /\ Unmap(d)
                 \/ Fails /\ Becomes(d, "closing") /\ Unmap(d)
       [] front[d] = "closing" -> Becomes(d, "closing") /\ UNCHANGED mapped /\ Works
       [] front[d] = "closed" -> Becomes(d, "closed") /\ Unmap(d) /\ Works
       [] OTHER -> UNCHANGED <<back, mapped, failures>>
  /\ UNCHANGED driverVars
-----------------------------------------------------------------------------
Closing == UpdatePath \/ WaitFails \/ Wait \/ SetClosing \/ WaitClosing \/ SetClosed \/ WaitClosed
Preparing == WriteTargetPath \/ SetInitializing \/ WaitInitWait \/ ReadFeatures
Connecting == AllocRing \/ WriteRing \/ SetInitialized \/ WaitConnected \/ SetConnected \/ ReadDiskInfo
FdoInitialize == Start \/ Sweep \/ Find \/ Closing \/ SetTargetState \/ Preparing \/ Connecting
Backend(d) == BackendProbe(d) \/ BackendActs(d)

FrontendNext == FdoInitialize \/ \E d \in Disks : Backend(d)
FrontendSpec == FrontendInit /\ [][FrontendNext]_feVars

\* The driver's thread goes on while it has a step; a backend acts on what it is told.
FairFrontendSpec ==
  /\ FrontendSpec
  /\ WF_feVars(FdoInitialize)
  /\ \A d \in Disks : WF_feVars(Backend(d))
-----------------------------------------------------------------------------
(* Properties. *)

FrontendTypeOK ==
  /\ front \in [Disks -> XenbusStates] /\ back \in [Disks -> XenbusStates]
  /\ watch \subseteq Disks /\ todo \subseteq Disks
  /\ mapped \in [Disks -> {"none", "old", "new"}] /\ ringRef \in [Disks -> {"old", "new"}]
  /\ fpc \in Pcs /\ seen \in XenbusStates /\ disk \in Disks /\ dump \in Disks
  /\ target \in TargetStates /\ failing \in TargetStates \cup {"no"}
  /\ connected \in BOOLEAN /\ ring \in {NoRing, AllRing}
  /\ failures \in 0 .. MaxFailures

(* When the disks have been closed and nothing failed, no backend has the dead kernel's *)
(* ring mapped, whatever handshake that kernel was in the middle of, and none will map  *)
(* it later (fdo.c:241-244, frontend.c:1135-1188).                                      *)
OldRingsReleased ==
  failures = 0 /\ ((fpc = "sweep" /\ todo = {}) \/ target # "none")
    => \A d \in Disks : mapped[d] # "old"

(* The backend waits for a ring when the frontend makes one: the assertion of the       *)
(* comment at frontend.c:810, which nothing in the code checks.                         *)
InitWaitAtConnect == fpc = "allocRing" => back[dump] = "initwait" /\ mapped[dump] = "none"

(* A target that takes SRBs is connected to a backend that maps this driver's ring and  *)
(* holds its grant (frontend.c:752-865, 1040-1043).                                     *)
ServesNewRing == connected => mapped[dump] = "new" /\ back[dump] = "connected" /\ ring = AllRing

(* No ring of either kernel is in use by a backend that should have let go of it or has *)
(* not been given it (frontend.c:752-865).                                              *)
HandshakesSound == FrontendTypeOK /\ OldRingsReleased /\ InitWaitAtConnect /\ ServesNewRing

(* FrontendConnect frees the ring and its grant before FrontendClose tells the backend: *)
(* a backend that has mapped it lets go of it in the end, unless that close fails too   *)
(* (frontend.c:861, 1024-1033).                                                         *)
FreedRingUnmapped ==
  (mapped[dump] = "new" /\ ring = NoRing) ~> (mapped[dump] # "new" \/ target = "INVALID")

(* FdoInitialize ends, with the adapter up or refused: none of the polling loops, which *)
(* have no limit, waits for a state that the backend has passed or will never reach     *)
(* (frontend.c:385-408, 1092-1118).                                                     *)
ComesUp == <>(fpc \in {"up", "badConfig"})
=============================================================================
