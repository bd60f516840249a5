------------------------------ MODULE Lifecycle -----------------------------
(***************************************************************************)
(* The life of the adapter's FDO and of its target PDOs: the Targets table *)
(* and its references, enumeration, PnP and power IRPs, eject and removal, *)
(* and the three worker threads (fdo.c, pdo.c 247-630 and 2010-2229,       *)
(* driver.c 212-302 and 513-582, thread.c).                                *)
(*                                                                         *)
(* Actors: "scan", "front" and "power" are RescanThread, FrontendThread    *)
(* and DevicePowerThread; "pnp" is the thread of the PnP manager's IRP;    *)
(* "io" is a CPU in FdoStartIo.  A step is what one critical section does, *)
(* or one access to a field that no lock protects.                         *)
(*                                                                         *)
(* StorPort, the PnP and power managers and the toolstack are external.    *)
(* The PnP manager sends one IRP at a time; while a power IRP is pending   *)
(* it asks for bus relations only, for the device tree is locked.          *)
(***************************************************************************)
EXTENDS Integers, FiniteSets

CONSTANTS
  NumTargets,   \* XENVBD_MAX_TARGETS
  Pdos,         \* the memory PDOs are allocated from
  Null,
  Failures,     \* the kinds of calls that may fail
  Activities    \* what goes on beside plugging, unplugging, starting and removing

\* "create": PdoCreate; "power": PdoD3ToD0; "register": the debug and suspend callbacks
\* and the watch of the FDO.
FailureKinds == {"create", "power", "register"}

\* "io": SRBs; "eject": the backend asks for the device to be ejected; "power": power
\* IRPs of the FDO; "stop": targets are stopped and restarted; "remove": the FDO goes.
\* "migrate": the machine is suspended and resumed.
ActivityKinds == {"io", "eject", "power", "stop", "remove", "migrate"}

ASSUME LifecycleAssumption ==
  /\ NumTargets \in Nat \ {0}
  /\ Null \notin Pdos
  /\ Failures \subseteq FailureKinds
  /\ Activities \subseteq ActivityKinds

Targets == 0 .. NumTargets - 1
Workers == {"scan", "front", "power"}
Actors == Workers \cup {"pnp", "io"}

VARIABLES
  device,     \* XenStore: the targets in the directory device/vbd
  hidden,     \* XenStore: those whose "ejected" key is 1
  leaving,    \* XenStore: those whose backend is closing and offline
  table,      \* Fdo->Targets
  pdo,        \* the PDOs
  fdo,        \* the FDO, and __XenvbdFdo
  thread,     \* WorkEvent and Alerted of each worker
  pc, at,     \* where an actor is, and the TargetId of its loop
  held,       \* the PDO it works on
  irp,        \* the IRP of the PnP thread
  powerIrp,   \* Fdo->DevicePowerIrp: the state it asks for, or "None"
  listed,     \* the directory as read by the enumeration in progress
  inval,      \* its NeedInvalidate
  node,       \* the PnP manager's view of each target's device
  reported,   \* the targets StorPort found when relations were last asked for
  asked,      \* those with EjectRequested: IoRequestDeviceEject has been called
  busChange,  \* BusChangeDetected has been notified and not yet followed up
  bug         \* the ASSERT that has failed, or "None"

storeVars == <<device, hidden, leaving>>
actorVars == <<pc, at, held>>
scanVars == <<listed, inval>>
pnpVars == <<node, reported, asked, busChange>>
vars == <<storeVars, table, pdo, fdo, thread, actorVars, irp, powerIrp, scanVars,
          pnpVars, bug>>

PnpStates == {"Present", "Enumerated", "Started", "StopPending", "Stopped",
              "RemovePending", "SurpriseRemovePending", "Deleted"}
Nodes == {"none", "new", "known", "started", "stopping", "stopped", "removing",
          "removed", "ejecting", "surprised"}
Minors == {"none", "add", "relations", "remove",
           "QUERY_ID", "START_DEVICE", "QUERY_STOP_DEVICE", "CANCEL_STOP_DEVICE",
           "STOP_DEVICE", "QUERY_REMOVE_DEVICE", "CANCEL_REMOVE_DEVICE",
           "SURPRISE_REMOVAL", "REMOVE_DEVICE", "EJECT"}

\* PdoCreate; frontend: is the frontend powered and, when masked, enabled?
NewPdo(t) == [live |-> TRUE, target |-> t, refs |-> 1, removed |-> FALSE,
              pnp |-> "Present", prev |-> "Present", missing |-> FALSE,
              power |-> "D0", frontend |-> TRUE, devobj |-> FALSE,
              ejectPending |-> FALSE, written |-> FALSE]
FreedPdo == [NewPdo(0) EXCEPT !.live = FALSE, !.refs = 0, !.power = "D3", !.frontend = FALSE]
NoFdo == [linked |-> FALSE, refs |-> 0, removed |-> FALSE, power |-> "D3",
          locked |-> FALSE, acquired |-> FALSE, watched |-> FALSE]
NoThread == [event |-> FALSE, alerted |-> FALSE]
NoIrp == [minor |-> "none", t |-> 0]
Irps == [minor : Minors, t : Targets]

EnumPcs == {"lock", "read", "get", "present", "delete", "judge", "new",
            "unlock", "notify", "relations"}
DestroyPcs == {"unlink", "destroy.off", "destroy.end", "drop", "wait"}
PowerPcs == {"take", "up.set", "acquire", "up", "up.on", "up.end", "up.put", "watch",
             "down.set", "unwatch", "down", "down.off", "down.end", "down.put",
             "release", "settle", "finish"}
IrpPcs == {"irp.map", "irp.pending", "irp.do", "irp.on", "irp.started", "irp.off",
           "irp.judge", "irp.delete", "irp.enumerate", "irp.put", "irp.pass"}
TermPcs == {"term", "term.wait", "alert", "join", "sweep"}
Pcs == {"idle", "woken", "dead", "hold"}
         \cup EnumPcs \cup DestroyPcs \cup PowerPcs \cup IrpPcs \cup TermPcs

TypeOK ==
  /\ device \subseteq Targets /\ hidden \subseteq Targets /\ leaving \subseteq Targets
  /\ table \in [Targets -> Pdos \cup {Null}]
  /\ pdo \in [Pdos -> [live : BOOLEAN, target : Targets, refs : Nat, removed : BOOLEAN,
                       pnp : PnpStates, prev : PnpStates, missing : BOOLEAN,
                       power : {"D0", "D3"}, frontend : BOOLEAN, devobj : BOOLEAN,
                       ejectPending : BOOLEAN, written : BOOLEAN]]
  /\ fdo \in [linked : BOOLEAN, refs : Nat, removed : BOOLEAN, power : {"D0", "D3"},
              locked : BOOLEAN, acquired : BOOLEAN, watched : BOOLEAN]
  /\ thread \in [Workers -> [event : BOOLEAN, alerted : BOOLEAN]]
  /\ pc \in [Actors -> Pcs]
  /\ at \in [Actors -> 0 .. NumTargets + Cardinality(Workers)]
  /\ held \in [Actors -> Pdos \cup {Null}]
  /\ irp \in Irps /\ powerIrp \in {"None", "D0", "D3"}
  /\ listed \subseteq Targets /\ inval \in BOOLEAN
  /\ node \in [Targets -> Nodes] /\ reported \subseteq Targets /\ asked \subseteq Targets
  /\ busChange \in BOOLEAN
  /\ bug \in {"None", "PnpState", "DeviceObject", "PowerIrp", "References", "NotD3",
              "NotDeleted", "FindAdapter"}

Init ==
  /\ device \in SUBSET Targets /\ hidden = {} /\ leaving = {}
  /\ table = [t \in Targets |-> Null]
  /\ pdo = [p \in Pdos |-> FreedPdo]
  /\ fdo = NoFdo
  /\ thread = [w \in Workers |-> NoThread]
  /\ pc = [a \in Actors |-> IF a \in Workers THEN "dead" ELSE "idle"]
  /\ at = [a \in Actors |-> 0] /\ held = [a \in Actors |-> Null]
  /\ irp = NoIrp /\ powerIrp = "None"
  /\ listed = {} /\ inval = FALSE
  /\ node = [t \in Targets |-> "none"] /\ reported = {} /\ asked = {}
  /\ busChange = FALSE
  /\ bug = "None"

-----------------------------------------------------------------------------
(* Helpers.                                                                *)

Go(a, l) == pc' = [pc EXCEPT ![a] = l]
Step(a, l, p) == Go(a, l) /\ held' = [held EXCEPT ![a] = p]
Loop(a, l, n) == Go(a, l) /\ at' = [at EXCEPT ![a] = n]
NextTarget(a, l) == Loop(a, l, at[a] + 1) /\ held' = [held EXCEPT ![a] = Null]
MayFail(kind) == kind \in Failures
InLoop(a) == at[a] < NumTargets
Own(a) == pdo[held[a]]

\* __PdoReference and __PdoDereference.
Ref(f, p) == [f EXCEPT ![p].refs = @ + 1]
Deref(f, p) == [f EXCEPT ![p].refs = @ - 1, ![p].removed = @ \/ f[p].refs = 1]

\* PdoSetMissing and PdoIsMissing.
SetMissing(f, p) == [f EXCEPT ![p].missing = TRUE]
IsMissing(p) == pdo[p].missing

\* __FdoReference and __FdoDereference.
RefFdo(f) == [f EXCEPT !.refs = @ + 1]
DerefFdo(f) == [f EXCEPT !.refs = @ - 1, !.removed = @ \/ f.refs = 1]

\* ___FdoGetPdo in a loop over all targets: with a PDO on to l, else to the next target.
GetPdo(a, l) ==
  LET p == table[at[a]] IN
    IF p = Null THEN NextTarget(a, pc[a]) /\ UNCHANGED pdo
    ELSE Step(a, l, p) /\ pdo' = Ref(pdo, p) /\ UNCHANGED at

\* PdoSetDevicePnpState, and on to l.  PrevPnpState is only used to leave these states.
Pending == {"StopPending", "RemovePending"}
SetPnp(a, state, l) ==
  LET p == held[a] IN
    IF pdo[p].pnp = "Deleted" /\ state # "Deleted"
    THEN bug' = "PnpState" /\ UNCHANGED <<pdo, pc>>
    ELSE /\ pdo' = [pdo EXCEPT ![p].pnp = state,
                               ![p].prev = IF state \in Pending THEN pdo[p].pnp ELSE "Present"]
         /\ Go(a, l) /\ UNCHANGED bug

Enumerators == {"scan", "pnp"}
Powerers == {"power", "pnp"}

-----------------------------------------------------------------------------
(* thread.c.  The wait and the clearing of the event are two steps.        *)

Wake(w) == thread' = [thread EXCEPT ![w].event = TRUE]

WaitEnds(w) ==
  /\ pc[w] = "idle" /\ thread[w].event
  /\ Go(w, "woken")
  /\ UNCHANGED <<storeVars, table, pdo, fdo, thread, at, held, irp, powerIrp, scanVars,
                 pnpVars, bug>>

ClearEvent(w) ==
  /\ pc[w] = "woken"
  /\ thread' = [thread EXCEPT ![w].event = FALSE]
  /\ Go(w, IF thread[w].alerted THEN "dead" ELSE IF w = "power" THEN "take" ELSE "lock")
  /\ UNCHANGED <<storeVars, table, pdo, fdo, at, held, irp, powerIrp, scanVars, pnpVars,
                 bug>>

-----------------------------------------------------------------------------
(* Enumeration: FdoScan and IRP_MN_QUERY_DEVICE_RELATIONS, under Fdo->Lock. *)

\* FdoDispatchPnp, BusRelations: takes a reference to the FDO.  The PnP manager brings
\* one change of a device to its end, or undoes it, before it asks.
Midway == {"stopping", "stopped", "removing", "ejecting"}
QueryRelations ==
  /\ pc["pnp"] = "idle" /\ fdo.linked /\ busChange
  /\ \A t \in Targets : node[t] = "none" \/ (t \in reported /\ node[t] \notin Midway)
  /\ fdo' = RefFdo(fdo)
  /\ irp' = [minor |-> "relations", t |-> 0]
  /\ busChange' = FALSE
  /\ Go("pnp", "lock")
  /\ UNCHANGED <<storeVars, table, pdo, thread, at, held, powerIrp, scanVars, node,
                 reported, asked, bug>>

\* Mutant of LockFdo: DevicePower is not looked at.
LockWhatever(a) ==
  /\ pc[a] = "lock" /\ ~fdo.locked
  /\ fdo' = [fdo EXCEPT !.locked = TRUE]
  /\ Loop(a, "read", 0)
  /\ UNCHANGED <<storeVars, table, pdo, thread, held, irp, powerIrp, scanVars, pnpVars,
                 bug>>

\* The lock is taken; in D3 it is dropped at once.
LockFdo(a) ==
  /\ pc[a] = "lock" /\ ~fdo.locked
  /\ IF fdo.power # "D0"
     THEN Go(a, IF a = "pnp" THEN "relations" ELSE "idle") /\ UNCHANGED <<fdo, at>>
     ELSE /\ fdo' = [fdo EXCEPT !.locked = TRUE]
          /\ Loop(a, "read", 0)
  /\ UNCHANGED <<storeVars, table, pdo, thread, held, irp, powerIrp, scanVars, pnpVars,
                 bug>>

\* FdoScanTargets.
ReadDirectory(a) ==
  /\ pc[a] = "read"
  /\ listed' = device
  /\ Go(a, "get")
  /\ UNCHANGED <<storeVars, table, pdo, fdo, thread, at, held, irp, powerIrp, inval,
                 pnpVars, bug>>

\* __FdoEnumerate, the first loop: __FdoGetPdo, and PdoSetMissing when it is not listed.
EnumGet(a) ==
  LET p == table[at[a]]
      missing == ~IsMissing(p) /\ at[a] \notin listed IN
  /\ pc[a] = "get"
  /\ IF ~InLoop(a) THEN Loop(a, "new", 0) /\ UNCHANGED <<pdo, held>>
     ELSE IF p = Null THEN NextTarget(a, "get") /\ UNCHANGED pdo
     ELSE /\ pdo' = IF missing THEN SetMissing(Ref(pdo, p), p) ELSE Ref(pdo, p)
          /\ Step(a, IF missing THEN "present" ELSE "judge", p)
          /\ UNCHANGED at
  /\ UNCHANGED <<storeVars, table, fdo, thread, irp, powerIrp, scanVars, pnpVars, bug>>

EnumPresent(a) ==
  /\ pc[a] = "present"
  /\ IF Own(a).pnp = "Present"
     THEN Go(a, "delete") /\ UNCHANGED inval
     ELSE Go(a, "judge") /\ inval' = TRUE
  /\ UNCHANGED <<storeVars, table, pdo, fdo, thread, at, held, irp, powerIrp, listed,
                 pnpVars, bug>>

EnumDelete(a) ==
  /\ pc[a] = "delete"
  /\ SetPnp(a, "Deleted", "judge")
  /\ UNCHANGED <<storeVars, table, fdo, thread, at, held, irp, powerIrp, scanVars, pnpVars>>

\* Mutant of EnumJudge: a missing target is destroyed whatever its PnP state.
JudgeMissing(a) ==
  /\ pc[a] = "judge"
  /\ pdo' = Deref(pdo, held[a])
  /\ IF IsMissing(held[a]) THEN Go(a, "unlink") /\ UNCHANGED <<at, held>>
     ELSE NextTarget(a, "get")
  /\ UNCHANGED <<storeVars, table, fdo, thread, irp, powerIrp, scanVars, pnpVars, bug>>

\* The reference goes before PdoDestroy.
EnumJudge(a) ==
  /\ pc[a] = "judge"
  /\ pdo' = Deref(pdo, held[a])
  /\ IF IsMissing(held[a]) /\ Own(a).pnp = "Deleted"
     THEN Go(a, "unlink") /\ UNCHANGED <<at, held>>
     ELSE NextTarget(a, "get")
  /\ UNCHANGED <<storeVars, table, fdo, thread, irp, powerIrp, scanVars, pnpVars, bug>>

\* __FdoHiddenTarget looks for the "ejected" key; other devices than disks are left out.
HiddenTarget(t) == t \in hidden

\* FdoLinkPdo, the end of PdoCreate.
LinkPdo(t, p) == table' = [table EXCEPT ![t] = p]

\* Where PdoCreate can allocate a PDO; it fails when there is no memory.
FreeMemory == {p \in Pdos : ~pdo[p].live}

\* The second loop.  Nobody sees a PDO before FdoLinkPdo: PdoCreate is one step.
EnumNew(a) ==
  LET t == at[a] IN
  /\ pc[a] = "new" /\ InLoop(a)
  /\ Loop(a, "new", t + 1)
  /\ \/ /\ t \in listed /\ ~HiddenTarget(t) /\ table[t] = Null /\ FreeMemory # {}
        /\ LET p == CHOOSE p \in FreeMemory : TRUE IN
             pdo' = [pdo EXCEPT ![p] = NewPdo(t)] /\ LinkPdo(t, p)
        /\ IF t \in leaving THEN Wake("front") ELSE UNCHANGED thread
        /\ inval' = TRUE
     \/ /\ \/ t \notin listed \/ HiddenTarget(t) \/ table[t] # Null
           \/ MayFail("create") \/ FreeMemory = {}
        /\ UNCHANGED <<pdo, table, thread, inval>>
  /\ UNCHANGED <<storeVars, fdo, held, irp, powerIrp, listed, pnpVars, bug>>

EnumEnds(a) ==
  /\ pc[a] = "new" /\ ~InLoop(a)
  /\ Loop(a, "unlock", 0)
  /\ UNCHANGED <<storeVars, table, pdo, fdo, thread, held, irp, powerIrp, scanVars,
                 pnpVars, bug>>

\* Mutant of UnlockFdo: the event is cleared after the scan, not before.
UnlockThenClear(a) ==
  /\ pc[a] = "unlock"
  /\ fdo' = [fdo EXCEPT !.locked = FALSE]
  /\ Go(a, IF a = "pnp" THEN "relations" ELSE IF inval THEN "notify" ELSE "idle")
  /\ listed' = {} /\ inval' = FALSE
  /\ thread' = IF a = "pnp" THEN thread ELSE [thread EXCEPT ![a].event = FALSE]
  /\ UNCHANGED <<storeVars, table, pdo, at, held, irp, powerIrp, pnpVars, bug>>

UnlockFdo(a) ==
  /\ pc[a] = "unlock"
  /\ fdo' = [fdo EXCEPT !.locked = FALSE]
  /\ Go(a, IF a = "pnp" THEN "relations" ELSE IF inval THEN "notify" ELSE "idle")
  /\ listed' = {} /\ inval' = FALSE
  /\ UNCHANGED <<storeVars, table, pdo, thread, at, held, irp, powerIrp, pnpVars, bug>>

\* FdoScan: StorPortNotification(BusChangeDetected).
Notify ==
  /\ pc["scan"] = "notify"
  /\ busChange' = TRUE
  /\ Go("scan", "idle")
  /\ UNCHANGED <<storeVars, table, pdo, fdo, thread, at, held, irp, powerIrp, scanVars, node,
                 reported, asked, bug>>

\* The FDO's reference is dropped, and StorPort looks for targets with SRBs, which a
\* missing one fails (__ValidateSrbForPdo).
RelationsEnd ==
  /\ pc["pnp"] = "relations"
  /\ fdo' = DerefFdo(fdo)
  /\ LET found == {t \in Targets : table[t] # Null /\ ~IsMissing(table[t])} IN
       /\ reported' = found
       /\ node' = [t \in Targets |-> IF node[t] = "none" /\ t \in found THEN "new" ELSE node[t]]
  /\ irp' = NoIrp
  /\ Go("pnp", "idle")
  /\ UNCHANGED <<storeVars, table, pdo, thread, at, held, powerIrp, scanVars, asked,
                 busChange, bug>>

-----------------------------------------------------------------------------
(* PdoDestroy, by an enumeration or by __FdoTerminate.                     *)

\* Mutant of Unlink: the PDO stays in the table.
UnlinkForgotten(a) ==
  /\ pc[a] = "unlink"
  /\ Go(a, "destroy.off")
  /\ UNCHANGED <<storeVars, table, pdo, fdo, thread, at, held, irp, powerIrp, scanVars,
                 pnpVars, bug>>

\* FdoUnlinkPdo.
Unlink(a) ==
  /\ pc[a] = "unlink"
  /\ table' = [t \in Targets |-> IF table[t] = held[a] THEN Null ELSE table[t]]
  /\ Go(a, "destroy.off")
  /\ UNCHANGED <<storeVars, pdo, fdo, thread, at, held, irp, powerIrp, scanVars, pnpVars, bug>>

\* Mutant of OffBegin: the power state is only compared.
OffKeepsPower(a, from, middle, to) ==
  /\ pc[a] = from
  /\ Go(a, IF Own(a).power = "D3" THEN to ELSE middle)
  /\ UNCHANGED <<storeVars, table, pdo, fdo, thread, at, held, irp, powerIrp, scanVars,
                 pnpVars, bug>>

\* PdoD0ToD3: PdoSetDevicePowerState and, when it has changed, the frontend's close.
OffBegin(a, from, middle, to) ==
  /\ pc[a] = from
  /\ pdo' = [pdo EXCEPT ![held[a]].power = "D3"]
  /\ Go(a, IF Own(a).power = "D3" THEN to ELSE middle)
  /\ UNCHANGED <<storeVars, table, fdo, thread, at, held, irp, powerIrp, scanVars, pnpVars,
                 bug>>
OffEnd(a, middle, to) ==
  /\ pc[a] = middle
  /\ pdo' = [pdo EXCEPT ![held[a]].frontend = FALSE]
  /\ Go(a, to)
  /\ UNCHANGED <<storeVars, table, fdo, thread, at, held, irp, powerIrp, scanVars, pnpVars,
                 bug>>

\* Mutant of DropInitial: the initial reference is kept.
DropForgotten(a) ==
  /\ pc[a] = "drop"
  /\ Go(a, "wait")
  /\ UNCHANGED <<storeVars, table, pdo, fdo, thread, at, held, irp, powerIrp, scanVars,
                 pnpVars, bug>>

\* The initial reference.
DropInitial(a) ==
  /\ pc[a] = "drop"
  /\ pdo' = Deref(pdo, held[a])
  /\ Go(a, "wait")
  /\ UNCHANGED <<storeVars, table, fdo, thread, at, held, irp, powerIrp, scanVars, pnpVars,
                 bug>>

\* RemoveEvent, the ASSERTs, and the memory is freed.
Free(a) ==
  /\ pc[a] = "wait" /\ Own(a).removed
  /\ IF Own(a).refs # 0 \/ Own(a).pnp # "Deleted"
     THEN /\ bug' = IF Own(a).refs # 0 THEN "References" ELSE "NotDeleted"
          /\ UNCHANGED <<pdo, actorVars>>
     ELSE /\ pdo' = [pdo EXCEPT ![held[a]] = FreedPdo]
          /\ NextTarget(a, IF a = "pnp" /\ irp.minor = "remove" THEN "sweep" ELSE "get")
          /\ UNCHANGED bug
  /\ UNCHANGED <<storeVars, table, fdo, thread, irp, powerIrp, scanVars, pnpVars>>

-----------------------------------------------------------------------------
(* The FDO's power: DevicePowerThread, and the PnP thread for             *)
(* FdoFindAdapter (D3 to D0) and IRP_MN_REMOVE_DEVICE (D0 to D3).          *)

\* FdoDevicePower takes the IRP out of its slot.
TakeIrp ==
  /\ pc["power"] = "take"
  /\ IF powerIrp = "None" THEN bug' = "PowerIrp" /\ UNCHANGED pc
     ELSE Go("power", IF powerIrp = "D0" THEN "up.set" ELSE "down.set") /\ UNCHANGED bug
  /\ powerIrp' = "None"
  /\ UNCHANGED <<storeVars, table, pdo, fdo, thread, at, held, irp, scanVars, pnpVars>>

\* Mutant of SetPower: Fdo->Lock is not taken.
SetPowerUnlocked(a, from, state, to) ==
  /\ pc[a] = from
  /\ fdo' = [fdo EXCEPT !.power = state]
  /\ Go(a, IF fdo.power = state THEN "finish" ELSE to)
  /\ UNCHANGED <<storeVars, table, pdo, thread, at, held, irp, powerIrp, scanVars, pnpVars,
                 bug>>

\* __FdoSetDevicePowerState, under Fdo->Lock, comes first on the way up and on the way down.
SetPower(a, from, state, to) ==
  /\ pc[a] = from /\ ~fdo.locked
  /\ fdo' = [fdo EXCEPT !.power = state]
  /\ Go(a, IF fdo.power = state THEN "finish" ELSE to)
  /\ UNCHANGED <<storeVars, table, pdo, thread, at, held, irp, powerIrp, scanVars, pnpVars,
                 bug>>
UpSet(a) == SetPower(a, "up.set", "D0", "acquire")
DownSet(a) == SetPower(a, "down.set", "D3", "unwatch")
Settle(a) == SetPower(a, "settle", "D3", "finish")

\* __FdoAcquire, and the debug callback.
Acquire(a) ==
  /\ pc[a] = "acquire"
  /\ fdo' = [fdo EXCEPT !.acquired = TRUE]
  /\ \/ Loop(a, "up", 0)
     \/ MayFail("register") /\ Loop(a, "release", 0)
  /\ UNCHANGED <<storeVars, table, pdo, thread, held, irp, powerIrp, scanVars, pnpVars, bug>>

\* __FdoD3ToD0 powers up each PDO; the first failure powers all of them down.
UpGet(a) ==
  /\ pc[a] = "up"
  /\ IF InLoop(a) THEN GetPdo(a, "up.on") ELSE Loop(a, "watch", 0) /\ UNCHANGED <<pdo, held>>
  /\ UNCHANGED <<storeVars, table, fdo, thread, irp, powerIrp, scanVars, pnpVars, bug>>

\* PdoD3ToD0, for a PDO that is in D3.
OnBegin(a, from, middle, to) ==
  /\ pc[a] = from
  /\ pdo' = [pdo EXCEPT ![held[a]].power = "D0"]
  /\ Go(a, IF Own(a).power = "D0" THEN to ELSE middle)
  /\ UNCHANGED <<storeVars, table, fdo, thread, at, held, irp, powerIrp, scanVars, pnpVars,
                 bug>>
OnEnd(a, middle, to) ==
  /\ pc[a] = middle
  /\ pdo' = [pdo EXCEPT ![held[a]].frontend = TRUE]
  /\ IF Own(a).target \in leaving THEN Wake("front") ELSE UNCHANGED thread
  /\ Go(a, to)
  /\ UNCHANGED <<storeVars, table, fdo, at, held, irp, powerIrp, scanVars, pnpVars, bug>>
OnFails(f, p) == [f EXCEPT ![p].power = "D3"]

UpFails(a) ==
  /\ pc[a] = "up.end" /\ MayFail("power")
  /\ pdo' = Deref(OnFails(pdo, held[a]), held[a])
  /\ Loop(a, "down", 0) /\ held' = [held EXCEPT ![a] = Null]
  /\ UNCHANGED <<storeVars, table, fdo, thread, irp, powerIrp, scanVars, pnpVars, bug>>

\* The reference of a loop over the targets is dropped.
PutPdo(a, from, to) ==
  /\ pc[a] = from
  /\ pdo' = Deref(pdo, held[a])
  /\ NextTarget(a, to)
  /\ UNCHANGED <<storeVars, table, fdo, thread, irp, powerIrp, scanVars, pnpVars, bug>>

\* The suspend callback and the watch, whose event a new watch sets.
WatchDevices(a) ==
  /\ pc[a] = "watch"
  /\ \/ /\ fdo' = [fdo EXCEPT !.watched = TRUE]
        /\ Wake("scan")
        /\ Go(a, "finish") /\ UNCHANGED at
     \/ /\ MayFail("register")
        /\ Loop(a, "down", 0)
        /\ UNCHANGED <<fdo, thread>>
  /\ UNCHANGED <<storeVars, table, pdo, held, irp, powerIrp, scanVars, pnpVars, bug>>

UnwatchDevices(a) ==
  /\ pc[a] = "unwatch"
  /\ fdo' = [fdo EXCEPT !.watched = FALSE]
  /\ Loop(a, "down", 0)
  /\ UNCHANGED <<storeVars, table, pdo, thread, held, irp, powerIrp, scanVars, pnpVars, bug>>

DownGet(a) ==
  /\ pc[a] = "down"
  /\ IF InLoop(a) THEN GetPdo(a, "down.off")
     ELSE Loop(a, "release", 0) /\ UNCHANGED <<pdo, held>>
  /\ UNCHANGED <<storeVars, table, fdo, thread, irp, powerIrp, scanVars, pnpVars, bug>>

\* __FdoRelease; after a failed way up the power state is only set now.
ReleaseInterfaces(a) ==
  /\ pc[a] = "release"
  /\ fdo' = [fdo EXCEPT !.acquired = FALSE]
  /\ Go(a, IF fdo.power = "D0" THEN "settle" ELSE "finish")
  /\ UNCHANGED <<storeVars, table, pdo, thread, at, held, irp, powerIrp, scanVars, pnpVars,
                 bug>>

\* The reference of the IRP goes, and the IRP to StorPort.  FdoFindAdapter reports a
\* failure, and StorPort frees an FDO whose threads run and to which __XenvbdFdo points.
Finish(a) ==
  /\ pc[a] = "finish"
  /\ IF a = "pnp" /\ irp.minor = "add"
     THEN /\ bug' = IF fdo.power = "D0" THEN bug ELSE "FindAdapter"
          /\ irp' = NoIrp /\ Go(a, "idle") /\ busChange' = TRUE
          /\ UNCHANGED fdo
     ELSE /\ fdo' = DerefFdo(fdo)
          /\ Go(a, IF a = "pnp" THEN "term" ELSE "idle")
          /\ UNCHANGED <<irp, bug, busChange>>
  /\ UNCHANGED <<storeVars, table, pdo, thread, at, held, powerIrp, scanVars, node, reported,
                 asked>>

Power(a) ==
  \/ UpSet(a) \/ DownSet(a) \/ Settle(a)
  \/ Acquire(a)
  \/ UpGet(a)
  \/ OnBegin(a, "up.on", "up.end", "up.put")
  \/ OnEnd(a, "up.end", "up.put")
  \/ UpFails(a)
  \/ PutPdo(a, "up.put", "up")
  \/ WatchDevices(a) \/ UnwatchDevices(a)
  \/ DownGet(a)
  \/ OffBegin(a, "down.off", "down.end", "down.put")
  \/ OffEnd(a, "down.end", "down.put")
  \/ PutPdo(a, "down.put", "down")
  \/ ReleaseInterfaces(a)
  \/ Finish(a)

-----------------------------------------------------------------------------
(* FdoFindAdapter with __FdoInitialize, and __FdoTerminate.                *)

FindAdapter ==
  /\ pc["pnp"] = "idle" /\ pc["io"] = "idle" /\ ~fdo.linked
  /\ fdo' = [NoFdo EXCEPT !.linked = TRUE, !.refs = 1]
  /\ thread' = [w \in Workers |-> NoThread]
  /\ pc' = [a \in Actors |-> IF a = "pnp" THEN "up.set" ELSE "idle"]
  /\ irp' = [minor |-> "add", t |-> 0]
  /\ UNCHANGED <<storeVars, table, pdo, at, held, powerIrp, scanVars, pnpVars, bug>>

\* The children have been removed, and no power IRP is pending.
Quiet == powerIrp = "None" /\ pc["power"] \notin PowerPcs
RemoveFdo ==
  /\ "remove" \in Activities
  /\ pc["pnp"] = "idle" /\ fdo.linked /\ Quiet
  /\ \A t \in Targets : node[t] \in {"none", "removed"}
  /\ fdo' = RefFdo(fdo)
  /\ irp' = [minor |-> "remove", t |-> 0]
  /\ Go("pnp", "down.set")
  /\ UNCHANGED <<storeVars, table, pdo, thread, at, held, powerIrp, scanVars, pnpVars, bug>>

\* DriverUnlinkFdo and the initial reference.
Terminate ==
  /\ pc["pnp"] = "term"
  /\ IF fdo.power # "D3" THEN bug' = "NotD3" /\ UNCHANGED <<fdo, pc>>
     ELSE /\ fdo' = [DerefFdo(fdo) EXCEPT !.linked = FALSE]
          /\ Go("pnp", "term.wait")
          /\ UNCHANGED bug
  /\ UNCHANGED <<storeVars, table, pdo, thread, at, held, irp, powerIrp, scanVars, pnpVars>>

TerminateWait ==
  /\ pc["pnp"] = "term.wait" /\ fdo.removed
  /\ bug' = IF fdo.refs = 0 THEN bug ELSE "References"
  /\ Loop("pnp", "alert", 0)
  /\ UNCHANGED <<storeVars, table, pdo, fdo, thread, held, irp, powerIrp, scanVars, pnpVars>>

\* ThreadAlert and ThreadJoin, one thread after the other.
Joined == <<"power", "front", "scan">>[at["pnp"] + 1]
AlertThread ==
  /\ pc["pnp"] = "alert"
  /\ thread' = [thread EXCEPT ![Joined] = [event |-> TRUE, alerted |-> TRUE]]
  /\ Go("pnp", "join")
  /\ UNCHANGED <<storeVars, table, pdo, fdo, at, held, irp, powerIrp, scanVars, pnpVars, bug>>
JoinThread ==
  /\ pc["pnp"] = "join" /\ pc[Joined] = "dead"
  /\ IF at["pnp"] = 2 THEN Loop("pnp", "sweep", 0) ELSE Loop("pnp", "alert", at["pnp"] + 1)
  /\ UNCHANGED <<storeVars, table, pdo, fdo, thread, held, irp, powerIrp, scanVars, pnpVars,
                 bug>>

\* The remaining targets are forced into Deleted and destroyed.
Sweep ==
  LET p == table[at["pnp"]] IN
  /\ pc["pnp"] = "sweep" /\ InLoop("pnp")
  /\ IF p = Null THEN NextTarget("pnp", "sweep") /\ UNCHANGED pdo
     ELSE /\ pdo' = [SetMissing(pdo, p) EXCEPT ![p].pnp = "Deleted", ![p].prev = "Present"]
          /\ Step("pnp", "unlink", p) /\ UNCHANGED at
  /\ UNCHANGED <<storeVars, table, fdo, thread, irp, powerIrp, scanVars, pnpVars, bug>>

\* The FDO's memory is cleared; StorPort deletes its device objects.
Terminated ==
  /\ pc["pnp"] = "sweep" /\ ~InLoop("pnp")
  /\ fdo' = NoFdo
  /\ irp' = NoIrp
  /\ node' = [t \in Targets |-> "none"] /\ reported' = {} /\ asked' = {} /\ busChange' = FALSE
  /\ Loop("pnp", "idle", 0)
  /\ UNCHANGED <<storeVars, table, pdo, thread, held, powerIrp, scanVars, bug>>

-----------------------------------------------------------------------------
(* IRPs to a target's device: DispatchPnp, DriverMapPdo, PdoDispatchPnp.   *)

\* Which IRP the PnP manager may send to the device of a target: it starts one only
\* below a parent that is powered.
MaySend(m, t) ==
  LET here == t \in reported IN
  CASE m = "QUERY_ID" -> node[t] = "new"
    [] m = "START_DEVICE" ->
         node[t] \in {"known", "stopped", "removed"} /\ here /\ fdo.power = "D0"
    [] m = "QUERY_STOP_DEVICE" -> node[t] = "started" /\ here /\ "stop" \in Activities
    [] m \in {"CANCEL_STOP_DEVICE", "STOP_DEVICE"} -> node[t] = "stopping"
    [] m = "QUERY_REMOVE_DEVICE" -> node[t] = "started" /\ here
    [] m = "CANCEL_REMOVE_DEVICE" -> node[t] = "removing"
    [] m = "SURPRISE_REMOVAL" -> node[t] \in {"started", "stopped"} /\ ~here
    [] m = "REMOVE_DEVICE" ->
         \/ node[t] \in {"removing", "surprised", "known", "removed"}
         \/ node[t] = "new" /\ ~here
    [] m = "EJECT" -> node[t] = "ejecting"
    [] OTHER -> FALSE

NodeAfter(m, t) ==
  CASE m = "QUERY_ID" -> "known"
    [] m = "START_DEVICE" -> "started"
    [] m = "QUERY_STOP_DEVICE" -> "stopping"
    [] m = "CANCEL_STOP_DEVICE" -> "started"
    [] m = "STOP_DEVICE" -> "stopped"
    [] m = "QUERY_REMOVE_DEVICE" -> "removing"
    [] m = "CANCEL_REMOVE_DEVICE" -> "started"
    [] m = "SURPRISE_REMOVAL" -> "surprised"
    [] m = "EJECT" -> "removed"
    [] OTHER -> IF t \notin reported THEN "none"
                ELSE IF node[t] = "removing" /\ t \in asked THEN "ejecting" ELSE "removed"

\* DriverGetFdoOrPdo: FdoGetPdoFromDeviceObject returns with a reference.  A device that
\* no PDO knows is mapped when its id is asked for, and passed by otherwise.
SendIrp(m, t) ==
  LET p == table[t]
      found == p # Null /\ pdo[p].devobj IN
  /\ pc["pnp"] = "idle" /\ fdo.linked /\ Quiet /\ MaySend(m, t)
  /\ irp' = [minor |-> m, t |-> t]
  /\ IF found THEN Step("pnp", "irp.pending", p) /\ pdo' = Ref(pdo, p)
     ELSE /\ Go("pnp", IF m = "QUERY_ID" THEN "irp.map" ELSE "irp.pass")
          /\ UNCHANGED <<held, pdo>>
  /\ UNCHANGED <<storeVars, table, fdo, thread, at, powerIrp, scanVars, pnpVars, bug>>

\* FdoMapDeviceObjectToPdo, PdoSetDeviceObject.
MapPdo ==
  LET p == table[irp.t] IN
  /\ pc["pnp"] = "irp.map"
  /\ IF p # Null /\ pdo[p].devobj THEN bug' = "DeviceObject" /\ UNCHANGED <<pdo, pc>>
     ELSE /\ pdo' = IF p = Null THEN pdo ELSE [pdo EXCEPT ![p].devobj = TRUE]
          /\ Go("pnp", "irp.pass")
          /\ UNCHANGED bug
  /\ UNCHANGED <<storeVars, table, fdo, thread, at, held, irp, powerIrp, scanVars, pnpVars>>

\* Mutant of CheckEjectPending: it is left to IRP_MN_EJECT.
CheckOnEject ==
  /\ pc["pnp"] = "irp.pending"
  /\ IF pdo[held["pnp"]].ejectPending /\ irp.minor = "EJECT"
     THEN /\ pdo' = [pdo EXCEPT ![held["pnp"]].ejectPending = FALSE]
          /\ asked' = asked \cup {irp.t}
     ELSE UNCHANGED <<pdo, asked>>
  /\ Go("pnp", "irp.do")
  /\ UNCHANGED <<storeVars, table, fdo, thread, at, held, irp, powerIrp, scanVars, node,
                 reported, busChange, bug>>

\* __PdoCheckEjectPending comes first, whatever the IRP.
CheckEjectPending ==
  LET p == held["pnp"] IN
  /\ pc["pnp"] = "irp.pending"
  /\ IF pdo[p].ejectPending
     THEN /\ pdo' = [pdo EXCEPT ![p].ejectPending = FALSE]
          /\ asked' = asked \cup {irp.t}
     ELSE UNCHANGED <<pdo, asked>>
  /\ Go("pnp", "irp.do")
  /\ UNCHANGED <<storeVars, table, fdo, thread, at, held, irp, powerIrp, scanVars, node,
                 reported, busChange, bug>>

\* IRPs that only set the PnP state.
StateOf == [QUERY_STOP_DEVICE |-> "StopPending", STOP_DEVICE |-> "Stopped",
            QUERY_REMOVE_DEVICE |-> "RemovePending",
            SURPRISE_REMOVAL |-> "SurpriseRemovePending"]
SimpleIrp ==
  /\ pc["pnp"] = "irp.do" /\ irp.minor \in DOMAIN StateOf
  /\ SetPnp("pnp", StateOf[irp.minor], "irp.put")
  /\ UNCHANGED <<storeVars, table, fdo, thread, at, held, irp, powerIrp, scanVars, pnpVars>>

\* __PdoCheckEjectFailed and __PdoRestoreDevicePnpState.
CancelIrp ==
  LET p == held["pnp"]
      stop == irp.minor = "CANCEL_STOP_DEVICE"
      pending == IF stop THEN "StopPending" ELSE "RemovePending" IN
  /\ pc["pnp"] = "irp.do" /\ irp.minor \in {"CANCEL_STOP_DEVICE", "CANCEL_REMOVE_DEVICE"}
  /\ pdo' = [pdo EXCEPT ![p].pnp = IF @ = pending THEN pdo[p].prev ELSE @,
                        ![p].prev = "Present"]
  /\ Go("pnp", "irp.put")
  /\ UNCHANGED <<storeVars, table, fdo, thread, at, held, irp, powerIrp, scanVars, pnpVars,
                 bug>>

OtherIrp ==
  /\ pc["pnp"] = "irp.do" /\ irp.minor = "QUERY_ID"
  /\ Go("pnp", "irp.put")
  /\ UNCHANGED <<storeVars, table, pdo, fdo, thread, at, held, irp, powerIrp, scanVars,
                 pnpVars, bug>>

\* IRP_MN_START_DEVICE: the status of PdoD3ToD0 is ignored.
StartBegin == irp.minor = "START_DEVICE" /\ OnBegin("pnp", "irp.do", "irp.on", "irp.started")
StartFails ==
  /\ pc["pnp"] = "irp.on" /\ MayFail("power")
  /\ pdo' = OnFails(pdo, held["pnp"])
  /\ Go("pnp", "irp.started")
  /\ UNCHANGED <<storeVars, table, fdo, thread, at, held, irp, powerIrp, scanVars, pnpVars,
                 bug>>
StartEnd ==
  /\ pc["pnp"] = "irp.started"
  /\ SetPnp("pnp", "Started", "irp.put")
  /\ UNCHANGED <<storeVars, table, fdo, thread, at, held, irp, powerIrp, scanVars, pnpVars>>

\* __PdoRemoveDevice: after the power, the PnP state says what the removal means.
RemoveBegin ==
  irp.minor = "REMOVE_DEVICE" /\ OffBegin("pnp", "irp.do", "irp.off", "irp.judge")
RemoveJudge ==
  LET p == held["pnp"] IN
  /\ pc["pnp"] = "irp.judge"
  /\ IF pdo[p].pnp \in {"SurpriseRemovePending", "Enumerated"}
     THEN pdo' = SetMissing(pdo, p) /\ Go("pnp", "irp.delete")
     ELSE Go("pnp", "irp.enumerate") /\ UNCHANGED pdo
  /\ UNCHANGED <<storeVars, table, fdo, thread, at, held, irp, powerIrp, scanVars, pnpVars,
                 bug>>
RemoveKeeps ==
  /\ pc["pnp"] = "irp.enumerate"
  /\ SetPnp("pnp", "Enumerated", "irp.put")
  /\ UNCHANGED <<storeVars, table, fdo, thread, at, held, irp, powerIrp, scanVars, pnpVars>>

\* __PdoEject.
EjectBegin ==
  /\ pc["pnp"] = "irp.do" /\ irp.minor = "EJECT"
  /\ pdo' = SetMissing(pdo, held["pnp"])
  /\ Go("pnp", "irp.delete")
  /\ UNCHANGED <<storeVars, table, fdo, thread, at, held, irp, powerIrp, scanVars, pnpVars,
                 bug>>

\* Mutant of MarkDeleted: no BusChangeDetected.
MarkQuietly ==
  /\ pc["pnp"] = "irp.delete"
  /\ SetPnp("pnp", "Deleted", "irp.put")
  /\ UNCHANGED <<storeVars, table, fdo, thread, at, held, irp, powerIrp, scanVars, pnpVars>>

\* The end of an ejection and of a removal for good.
MarkDeleted ==
  /\ pc["pnp"] = "irp.delete"
  /\ SetPnp("pnp", "Deleted", "irp.put")
  /\ busChange' = TRUE
  /\ UNCHANGED <<storeVars, table, fdo, thread, at, held, irp, powerIrp, scanVars, node,
                 reported, asked>>

\* The PDO's reference goes, and the IRP to StorPort.
IrpEnd ==
  /\ pc["pnp"] \in {"irp.put", "irp.pass"}
  /\ pdo' = IF held["pnp"] = Null THEN pdo ELSE Deref(pdo, held["pnp"])
  /\ Step("pnp", "idle", Null)
  /\ node' = [node EXCEPT ![irp.t] = NodeAfter(irp.minor, irp.t)]
  /\ asked' = IF irp.minor \in {"CANCEL_REMOVE_DEVICE", "EJECT"} \/ node'[irp.t] = "none"
              THEN asked \ {irp.t} ELSE asked
  /\ reported' = IF node'[irp.t] = "none" THEN reported \ {irp.t} ELSE reported
  /\ irp' = NoIrp
  /\ UNCHANGED <<storeVars, table, fdo, thread, at, powerIrp, scanVars, busChange, bug>>

-----------------------------------------------------------------------------
(* FdoStartIo, FdoFrontend and FdoDispatchPower.                           *)

IoBegin(t) ==
  LET p == table[t] IN
  /\ "io" \in Activities
  /\ pc["io"] = "idle" /\ fdo.linked /\ irp.minor \notin {"add", "remove"}
  /\ p # Null
  /\ Step("io", "hold", p) /\ pdo' = Ref(pdo, p)
  /\ UNCHANGED <<storeVars, table, fdo, thread, at, irp, powerIrp, scanVars, pnpVars, bug>>
IoEnd ==
  /\ pc["io"] = "hold"
  /\ Step("io", "idle", Null) /\ pdo' = Deref(pdo, held["io"])
  /\ UNCHANGED <<storeVars, table, fdo, thread, at, irp, powerIrp, scanVars, pnpVars, bug>>

\* FrontendBackendPathChanged: only while Frontend->Active.
Watched == {t \in Targets : table[t] # Null /\ pdo[table[t]].frontend}

\* PdoIssueDeviceEject of these PDOs: of those that have a device object the PnP manager
\* is asked, the others wait for one, and a bus change makes it look.
IssueDeviceEject(gone) ==
  LET now == {p \in gone : pdo[p].devobj} IN
    /\ hidden' = hidden \cup {pdo[p].target : p \in {q \in gone : ~pdo[q].written}}
    /\ pdo' = [p \in Pdos |-> IF p \notin gone THEN pdo[p]
                 ELSE [pdo[p] EXCEPT !.written = TRUE, !.ejectPending = @ \/ p \notin now]]
    /\ asked' = asked \cup {pdo[p].target : p \in now}
    /\ busChange' = (busChange \/ gone # now)

\* FdoFrontend, one section under Fdo->Lock: PdoBackendPathChanged of each target, with a
\* reference to it, up to PdoIssueDeviceEject for those whose backend is leaving.
PathsChanged ==
  /\ pc["front"] = "lock" /\ ~fdo.locked
  /\ IssueDeviceEject(IF fdo.power = "D0" THEN {table[t] : t \in Watched \cap leaving} ELSE {})
  /\ Go("front", "idle")
  /\ UNCHANGED <<device, leaving, table, fdo, thread, at, held, irp, powerIrp, scanVars, node,
                 reported, bug>>

\* FdoDispatchPower: one IRP at a time, with a reference to the FDO.
DispatchPower(state) ==
  /\ "power" \in Activities
  /\ fdo.linked /\ Quiet /\ pc["power"] # "dead" /\ state # fdo.power
  /\ pc["pnp"] = "idle" \/ irp.minor = "relations"
  /\ fdo' = RefFdo(fdo)
  /\ powerIrp' = state
  /\ Wake("power")
  /\ UNCHANGED <<storeVars, table, pdo, actorVars, irp, scanVars, pnpVars, bug>>

-----------------------------------------------------------------------------
(* The toolstack.  The watch on the directory wakes RescanThread, those on *)
(* the backends FrontendThread.                                            *)

DirectoryChanged ==
  IF fdo.watched THEN Wake("scan") ELSE UNCHANGED thread

Plug(t) ==
  /\ t \notin device
  /\ device' = device \cup {t}
  /\ DirectoryChanged
  /\ UNCHANGED <<hidden, leaving, table, pdo, fdo, actorVars, irp, powerIrp, scanVars, pnpVars,
                 bug>>
Unplug(t) ==
  /\ t \in device
  /\ device' = device \ {t} /\ hidden' = hidden \ {t} /\ leaving' = leaving \ {t}
  /\ DirectoryChanged
  /\ UNCHANGED <<table, pdo, fdo, actorVars, irp, powerIrp, scanVars, pnpVars, bug>>
Leave(t) ==
  /\ "eject" \in Activities
  /\ t \in device \ leaving
  /\ leaving' = leaving \cup {t}
  /\ IF t \in Watched THEN Wake("front") ELSE UNCHANGED thread
  /\ UNCHANGED <<device, hidden, table, pdo, fdo, actorVars, irp, powerIrp, scanVars, pnpVars,
                 bug>>

\* FdoSuspendLateCallback: the watch is made again, which sets its event.
Rewatch == fdo' = [fdo EXCEPT !.watched = TRUE] /\ Wake("scan")

\* PdoPostResume: the frontends whose suspend callback is registered forget that their
\* target was missing.  In the middle of a transition the callback may be there or not.
Transitions == {"up.end", "down.end", "irp.on", "irp.off", "destroy.end"}
PostResume ==
  LET powered == {p \in Pdos : pdo[p].live /\ pdo[p].frontend}
      between == {held[a] : a \in {b \in Actors : pc[b] \in Transitions}} IN
    \E ps \in SUBSET (powered \cup between) :
      /\ powered \ between \subseteq ps
      /\ pdo' = [p \in Pdos |-> IF p \in ps THEN [pdo[p] EXCEPT !.missing = FALSE] ELSE pdo[p]]

\* A migration while the callback is registered.  The new XenStore knows no watches: what
\* the toolstack changes before they are back nobody is told.  It does not take away what a
\* connected frontend resumes with.  No CPU is in the middle of what it does under a lock.
Migrate ==
  /\ "migrate" \in Activities
  /\ fdo.watched /\ ~fdo.locked
  /\ device' \in {d \in SUBSET Targets : Watched \subseteq d}
  /\ hidden' = hidden \cap device' /\ leaving' = {}
  /\ PostResume
  /\ Rewatch
  /\ UNCHANGED <<table, actorVars, irp, powerIrp, scanVars, pnpVars, bug>>

-----------------------------------------------------------------------------
(* The specification.                                                      *)

Enumerate(a) ==
  \/ ReadDirectory(a)
  \/ EnumGet(a) \/ EnumPresent(a) \/ EnumDelete(a) \/ EnumJudge(a)
  \/ EnumNew(a) \/ EnumEnds(a)
  \/ UnlockFdo(a)
Destroy(a) ==
  \/ Unlink(a)
  \/ OffBegin(a, "destroy.off", "destroy.end", "drop")
  \/ OffEnd(a, "destroy.end", "drop")
  \/ DropInitial(a)
  \/ Free(a)
Irp ==
  \/ MapPdo \/ CheckEjectPending \/ SimpleIrp \/ CancelIrp \/ OtherIrp
  \/ StartBegin \/ OnEnd("pnp", "irp.on", "irp.started") \/ StartFails \/ StartEnd
  \/ RemoveBegin \/ OffEnd("pnp", "irp.off", "irp.judge") \/ RemoveJudge \/ RemoveKeeps
  \/ EjectBegin \/ MarkDeleted
  \/ IrpEnd
Removal == Terminate \/ TerminateWait \/ AlertThread \/ JoinThread \/ Sweep \/ Terminated

\* What runs on once it has begun.
Worker(w) == WaitEnds(w) \/ ClearEvent(w)
Running(a) ==
  \/ a \in Workers /\ Worker(a)
  \/ a \in Enumerators /\ (Enumerate(a) \/ Destroy(a))
  \/ a \in Powerers /\ Power(a)
  \/ a = "scan" /\ Notify
  \/ a = "power" /\ TakeIrp
  \/ a = "pnp" /\ (RelationsEnd \/ Irp \/ Removal)
  \/ a = "io" /\ IoEnd

\* A failed ASSERT stops the machine.
Halted == bug # "None" /\ UNCHANGED vars

Managers ==
  \/ QueryRelations
  \/ \E m \in Minors, t \in Targets : SendIrp(m, t)
  \/ FindAdapter \/ RemoveFdo
  \/ \E state \in {"D0", "D3"} : DispatchPower(state)
Toolstack == Migrate \/ \E t \in Targets : Plug(t) \/ Unplug(t) \/ Leave(t)

Next ==
  \/ /\ bug = "None"
     /\ \/ \E a \in Actors : Running(a)
        \/ \E a \in Enumerators : LockFdo(a)
        \/ PathsChanged
        \/ Managers
        \/ Toolstack
        \/ \E t \in Targets : IoBegin(t)
  \/ Halted

Spec == Init /\ [][Next]_vars

\* Threads that have begun go on, and a CPU spinning on Fdo->Lock gets it in the end.
\* The PnP manager asks for relations after a notification, starts what it has found,
\* finishes what it has begun and removes what is no longer reported.
MustSend(m, t) ==
  \/ m \in {"QUERY_ID", "START_DEVICE"}
  \/ node[t] \in Midway
  \/ m \in {"SURPRISE_REMOVAL", "REMOVE_DEVICE"} /\ t \notin reported
FairSpec ==
  /\ Spec
  /\ \A a \in Actors : WF_vars(bug = "None" /\ Running(a))
  /\ \A a \in Powerers : SF_vars(bug = "None" /\ (UpSet(a) \/ DownSet(a) \/ Settle(a)))
  /\ \A a \in Enumerators : SF_vars(bug = "None" /\ LockFdo(a))
  /\ SF_vars(bug = "None" /\ PathsChanged)
  /\ SF_vars(bug = "None" /\ QueryRelations)
  /\ \A t \in Targets :
       SF_vars(bug = "None" /\ \E m \in Minors : MustSend(m, t) /\ SendIrp(m, t))

-----------------------------------------------------------------------------
(* What must hold.                                                         *)

Counting == {"present", "delete", "judge", "up.on", "up.end", "up.put", "down.off",
             "down.end", "down.put", "hold"} \cup (IrpPcs \ {"irp.map", "irp.pass"})
Holders(p) == {a \in Actors : held[a] = p /\ pc[a] \in Counting}
Destroyers(p) == {a \in Actors : held[a] = p /\ pc[a] \in DestroyPcs}

\* No PDO is used after it was freed: whatever thread still works on one, by a reference
\* or in the one PdoDestroy, and whatever is in the Targets table, is alive.
NoUseAfterFree ==
  /\ \A a \in Actors : held[a] # Null => pdo[held[a]].live
  /\ \A t \in Targets : table[t] # Null => pdo[table[t]].live /\ pdo[table[t]].target = t
  /\ \A p \in Pdos : Cardinality(Destroyers(p)) <= 1

\* ReferenceCount counts the threads that work on the PDO and the initial reference,
\* which PdoDestroy drops: RemoveEvent is set when the last of them is gone.
ReferencesCounted ==
  \A p \in Pdos : pdo[p].live =>
    LET initial == IF \E a \in Destroyers(p) : pc[a] = "wait" THEN 0 ELSE 1 IN
      /\ pdo[p].refs = Cardinality(Holders(p)) + initial
      /\ pdo[p].removed <=> pdo[p].refs = 0

\* A PDO lives as long as it is worked on, and no longer counted than that (fdo.c:607,
\* pdo.c:467-505).
ReferencesSound == TypeOK /\ NoUseAfterFree /\ ReferencesCounted

\* Of the ASSERTs in the way of IRPs, enumeration and removal two fail: a PnP state is
\* set on a PDO that was meanwhile Deleted, and FdoFindAdapter leaves a dangling FDO.
AssertsHold == bug \in {"None", "PnpState", "FindAdapter"}

\* DevicePowerState changes before the work of the transition is done (pdo.c:515, 556):
\* when no transition of a PDO in the table is in progress, the two agree again.
InTransition(p) ==
  \E a \in Actors : held[a] = p /\ pc[a] \in Transitions
PowerSettles ==
  \A t \in Targets : LET p == table[t] IN
    p # Null /\ ~InTransition(p) => (pdo[p].power = "D0" <=> pdo[p].frontend)

\* Once the FDO is down, so is every target in the table: none was created or powered up
\* behind the back of the loop in __FdoD0ToD3.
TargetsFollow ==
  fdo.power = "D3" /\ (\A a \in Powerers : pc[a] \notin PowerPcs) /\ pc["pnp"] \notin TermPcs
    => \A t \in Targets : table[t] # Null => pdo[table[t]].power = "D3"

\* The enumeration reads XenStore through an interface that is held.  On the way up D0
\* is set before __FdoAcquire, and when that fails D3 only after __FdoRelease: only in
\* these two windows an enumeration can use interfaces the FDO does not hold.
InterfacesHeld ==
  (\E a \in Enumerators : pc[a] = "read") /\ ~fdo.acquired =>
    \E b \in Powerers : pc[b] \in {"acquire", "settle"}

\* IoRequestDeviceEject is never called for a device the PnP manager has removed for good,
\* whose DEVICE_OBJECT StorPort has deleted though the PDO still holds its address.
EjectsKnownDevices == \A t \in asked : node[t] # "none"

\* An ejection that came before the device object was known is not forgotten: it waits at
\* most for the first IRP after the one that mapped the device.
EjectNotForgotten ==
  \A t \in Targets :
    table[t] # Null /\ pdo[table[t]].ejectPending /\ pdo[table[t]].devobj
      => node[t] \in {"none", "new", "known"}

\* An ejection reaches the device it is for, at whatever point of the device's life the
\* backend asks, and no other (pdo.c:2193-2229).
EjectionsReach == EjectsKnownDevices /\ EjectNotForgotten

-----------------------------------------------------------------------------
(* What must happen.                                                       *)

\* What ends a run of events: an ASSERT, or the FDO leaving D0.
Off == bug # "None" \/ fdo.power = "D3"

\* A target nobody will delete: when REMOVE_DEVICE of a device that was never started
\* comes between PdoSetMissing and the look at the PnP state (fdo.c:594, 596), the one
\* makes it Enumerated and the other leaves the deletion to a PnP manager that is done.
Stranded(t) ==
  /\ node[t] = "none" /\ table[t] # Null
  /\ pdo[table[t]].missing /\ pdo[table[t]].pnp = "Enumerated"

\* A target whose directory is gone from XenStore leaves the table, through the PnP
\* manager when it knew of it.
VanishedGo ==
  \A t \in Targets :
    table[t] # Null /\ t \notin device ~>
      table[t] = Null \/ t \in device \/ Stranded(t) \/ Off

\* A target that appears in XenStore gets a PDO.
NewAppear ==
  \A t \in Targets :
    fdo.power = "D0" /\ t \in device \ hidden ~>
      table[t] # Null \/ t \notin device \ hidden \/ Off

\* PdoDestroy's wait, which an enumeration does under Fdo->Lock, ends.
DestroyEnds == \A a \in Enumerators : pc[a] = "wait" ~> pc[a] # "wait" \/ bug # "None"

=============================================================================
