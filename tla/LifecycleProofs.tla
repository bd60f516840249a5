---------------------------- MODULE LifecycleProofs -------------------------
(***************************************************************************)
(* What Lifecycle keeps, for any number of targets, any memory, any kinds  *)
(* of failure and any activities.  The invariants come in layers: where    *)
(* each actor can be, given the IRP of the PnP thread; what it holds; who  *)
(* has Fdo->Lock, and what the FDO's references stand for; and then, for   *)
(* each PDO, who counts on it, who destroys it, and whether the Targets    *)
(* table still leads to it.                                                *)
(***************************************************************************)
EXTENDS Lifecycle, FiniteSetTheorems, TLAPS

-----------------------------------------------------------------------------
\* Where an actor can be.

Asleep == {"idle", "woken", "dead"}
UpPcs == {"up.set", "acquire", "up", "up.on", "up.end", "up.put", "watch", "settle"}
DownLoop == {"down", "down.off", "down.end", "down.put"}
DownPcs == {"down.set", "unwatch", "release", "finish"} \cup DownLoop
PnpPlaces(m) ==
  CASE m = "none" -> {"idle"}
    [] m = "relations" -> (EnumPcs \ {"notify"}) \cup DestroyPcs
    [] m = "add" -> UpPcs \cup DownLoop \cup {"release", "finish"}
    [] m = "remove" -> DownPcs \cup TermPcs \cup DestroyPcs
    [] OTHER -> IrpPcs
Places ==
  /\ pc["scan"] \in Asleep \cup (EnumPcs \ {"relations"}) \cup DestroyPcs
  /\ pc["front"] \in Asleep \cup {"lock"}
  /\ pc["power"] \in Asleep \cup PowerPcs
  /\ pc["io"] \in {"idle", "hold"}
  /\ pc["pnp"] \in PnpPlaces(irp.minor)

\* An actor holds a PDO exactly where it works on one, and a loop over the targets is in
\* its body only for a target.
BodyPcs == {"present", "delete", "judge", "up.on", "up.end", "up.put", "down.off",
            "down.end", "down.put"} \cup DestroyPcs
HeldMatch ==
  \A a \in Actors :
    /\ held[a] # Null <=> pc[a] \in Counting \cup DestroyPcs
    /\ pc[a] \in BodyPcs => at[a] < NumTargets
    /\ pc[a] \in {"alert", "join"} => at[a] \in 0 .. 2

-----------------------------------------------------------------------------
\* The FDO.

\* A power IRP is pending or being done: then the PnP thread asks for relations at most.
Busy == powerIrp # "None" \/ pc["power"] \in PowerPcs
BusyMatch ==
  /\ Busy => fdo.linked /\ irp.minor \in {"none", "relations"}
  /\ thread["power"].event \/ pc["power"] = "woken" =>
       thread["power"].alerted \/ powerIrp # "None"
  /\ pc["power"] = "take" => powerIrp # "None"
  /\ pc["power"] \in PowerPcs => ~thread["power"].event
  /\ pc["power"] \in PowerPcs \ {"take"} => powerIrp = "None"

\* FdoFindAdapter links the FDO and starts the threads, __FdoTerminate unlinks it and joins
\* them one by one.
Joining == pc["pnp"] \in {"alert", "join"}
Sweeping == irp.minor = "remove" /\ pc["pnp"] \in DestroyPcs \cup {"sweep"}
LinkMatch ==
  /\ irp.minor \notin {"none", "remove"} => fdo.linked
  /\ irp.minor = "remove" => (fdo.linked <=> pc["pnp"] \in DownPcs \cup {"term"})
  /\ irp.minor = "remove" /\ pc["pnp"] # "down.set" => fdo.power = "D3"
  /\ \A w \in Workers : thread[w].alerted => ~fdo.linked
  /\ Joining /\ at["pnp"] >= 1 => pc["power"] = "dead"
  /\ Joining /\ at["pnp"] >= 2 => pc["front"] = "dead"
  /\ Sweeping \/ (irp.minor = "none" /\ ~fdo.linked) => \A w \in Workers : pc[w] = "dead"

\* Fdo->Lock: one enumeration at a time, in D0.
Section == {"read", "get", "present", "delete", "judge", "new", "unlock"}
HasLock(a) ==
  \/ pc[a] \in Section
  \/ pc[a] \in DestroyPcs /\ ~(a = "pnp" /\ irp.minor = "remove")
LockMatch ==
  /\ \A a \in Actors : HasLock(a) => fdo.locked /\ fdo.power = "D0"
  /\ \A a, b \in Actors : HasLock(a) /\ HasLock(b) => a = b

\* The references to the FDO: the initial one, that of the PnP thread's IRP and that of
\* the power IRP.
One(b) == IF b THEN 1 ELSE 0
FdoCounted ==
  /\ fdo.refs = One(fdo.linked)
       + One(irp.minor = "relations" \/ (irp.minor = "remove" /\ pc["pnp"] \in DownPcs))
       + One(Busy)
  /\ fdo.removed => fdo.refs = 0

-----------------------------------------------------------------------------
\* The PDOs.

\* The Targets table leads to live PDOs, and so does what an actor holds.
Live ==
  /\ \A t \in Targets : table[t] # Null => pdo[table[t]].live /\ pdo[table[t]].target = t
  /\ \A a \in Actors : held[a] # Null => pdo[held[a]].live

\* A PDO is destroyed once, when it is Deleted, and no longer in the table after Unlink.
InTable(p) == \E t \in Targets : table[t] = p
DestroyMatch ==
  /\ \A a, b \in Actors : pc[a] \in DestroyPcs /\ pc[b] \in DestroyPcs => a = b
  /\ \A a \in Actors : pc[a] \in DestroyPcs =>
       /\ pdo[held[a]].pnp = "Deleted"
       /\ pc[a] # "unlink" => ~InTable(held[a])

\* No device is mapped twice.
MapMatch ==
  pc["pnp"] = "irp.map" /\ table[irp.t] # Null => ~pdo[table[irp.t]].devobj

Control == Places /\ HeldMatch /\ BusyMatch /\ LinkMatch /\ LockMatch /\ FdoCounted
LInv == TypeOK /\ Control /\ Live /\ DestroyMatch /\ ReferencesCounted /\ MapMatch /\ AssertsHold

-----------------------------------------------------------------------------
\* Power.

\* A transition of a PDO in the table is the work of one actor.
UpBody == {"up.end", "irp.on"}
DownBody == {"down.end", "irp.off"}
PowerMatch ==
  /\ \A t \in Targets : LET p == table[t] IN
       p # Null => (pdo[p].power = "D0" <=> pdo[p].frontend) \/ InTransition(p)
  /\ \A a \in Actors : InTable(held[a]) =>
       /\ pc[a] \in UpBody => pdo[held[a]].power = "D0" /\ ~pdo[held[a]].frontend
       /\ pc[a] \in DownBody => pdo[held[a]].power = "D3"

\* On the way up D0 comes before the interfaces, and after them it goes.
AcquiredMatch ==
  fdo.power = "D0" /\ ~fdo.acquired => \E b \in Powerers : pc[b] \in {"acquire", "settle"}

-----------------------------------------------------------------------------

\* The parts of TypeOK: what the layers on control need, the PDOs, and the rest.
ControlTypes ==
  /\ fdo \in [linked : BOOLEAN, refs : Nat, removed : BOOLEAN, power : {"D0", "D3"},
              locked : BOOLEAN, acquired : BOOLEAN, watched : BOOLEAN]
  /\ thread \in [Workers -> [event : BOOLEAN, alerted : BOOLEAN]]
  /\ pc \in [Actors -> Pcs]
  /\ at \in [Actors -> 0 .. NumTargets + 3]
  /\ held \in [Actors -> Pdos \cup {Null}]
  /\ irp \in Irps /\ powerIrp \in {"None", "D0", "D3"}
PdoRecords ==
  [live : BOOLEAN, target : Targets, refs : Nat, removed : BOOLEAN, pnp : PnpStates,
   prev : PnpStates, missing : BOOLEAN, power : {"D0", "D3"}, frontend : BOOLEAN,
   devobj : BOOLEAN, ejectPending : BOOLEAN, written : BOOLEAN]
PdoTypes == table \in [Targets -> Pdos \cup {Null}] /\ pdo \in [Pdos -> PdoRecords]
OtherTypes ==
  /\ device \subseteq Targets /\ hidden \subseteq Targets /\ leaving \subseteq Targets
  /\ listed \subseteq Targets /\ inval \in BOOLEAN
  /\ node \in [Targets -> Nodes] /\ reported \subseteq Targets /\ asked \subseteq Targets
  /\ busChange \in BOOLEAN
  /\ bug \in {"None", "PnpState", "DeviceObject", "PowerIrp", "References", "NotD3",
              "NotDeleted", "FindAdapter"}

\* There are three worker threads.
LEMMA WorkersThree == Cardinality(Workers) = 3 /\ IsFiniteSet(Workers)
<1>1. Cardinality({"scan", "front"}) = 2 /\ IsFiniteSet({"scan", "front"})
  <2>1. Cardinality({"scan"}) = 1 /\ IsFiniteSet({"scan"})
    BY FS_Singleton
  <2>2. {"scan", "front"} = {"scan"} \cup {"front"}
    OBVIOUS
  <2> QED
    BY <2>1, <2>2, FS_AddElement
<1>2. Workers = {"scan", "front"} \cup {"power"}
  BY DEF Workers
<1> QED
  BY <1>1, <1>2, FS_AddElement

\* TypeOK is those three parts, before a step and after it.
LEMMA TypeParts ==
  /\ TypeOK <=> ControlTypes /\ PdoTypes /\ OtherTypes
  /\ TypeOK' <=> (ControlTypes /\ PdoTypes /\ OtherTypes)'
BY WorkersThree DEF TypeOK, ControlTypes, PdoTypes, PdoRecords, OtherTypes

\* The part of TypeOK that the layers on control need.
LEMMA ControlFacts == TypeOK => ControlTypes
BY TypeParts

\* Steps that go together.
SetSteps(a) == UpSet(a) \/ DownSet(a) \/ Settle(a) \/ Acquire(a)
UpSteps(a) ==
  \/ UpGet(a) \/ UpFails(a)
  \/ OnBegin(a, "up.on", "up.end", "up.put")
  \/ OnEnd(a, "up.end", "up.put")
  \/ PutPdo(a, "up.put", "up")
DownSteps(a) ==
  \/ WatchDevices(a) \/ UnwatchDevices(a) \/ DownGet(a) \/ ReleaseInterfaces(a)
  \/ OffBegin(a, "down.off", "down.end", "down.put")
  \/ OffEnd(a, "down.end", "down.put")
  \/ PutPdo(a, "down.put", "down")
PlainIrps == MapPdo \/ CheckEjectPending \/ SimpleIrp \/ CancelIrp \/ OtherIrp
StartIrp == StartBegin \/ OnEnd("pnp", "irp.on", "irp.started") \/ StartFails \/ StartEnd
RemoveIrps ==
  \/ RemoveBegin \/ OffEnd("pnp", "irp.off", "irp.judge") \/ RemoveJudge \/ RemoveKeeps
  \/ EjectBegin \/ MarkDeleted
JoinSteps == TerminateWait \/ AlertThread \/ JoinThread
SweepSteps == Sweep \/ Terminated

-----------------------------------------------------------------------------
\* What a step does to a PDO.

\* g is f but for p; of p, this is the same.
OnlyAt(g, f, p) == g \in [Pdos -> PdoRecords] /\ \A q \in Pdos \ {p} : g[q] = f[q]
SameLife(g, f, p) == g[p].live = f[p].live /\ g[p].target = f[p].target
SameRefs(g, f, p) == g[p].refs = f[p].refs /\ g[p].removed = f[p].removed
SamePnp(g, f, p) == g[p].pnp = f[p].pnp
SamePower(g, f, p) == g[p].power = f[p].power /\ g[p].frontend = f[p].frontend
SameDevice(g, f, p) == g[p].devobj = f[p].devobj

\* __PdoReference.
LEMMA RefEffect ==
  ASSUME NEW f \in [Pdos -> PdoRecords], NEW p \in Pdos
  PROVE  /\ OnlyAt(Ref(f, p), f, p) /\ SameLife(Ref(f, p), f, p) /\ SamePnp(Ref(f, p), f, p)
         /\ SamePower(Ref(f, p), f, p) /\ SameDevice(Ref(f, p), f, p)
         /\ Ref(f, p)[p].refs = f[p].refs + 1
         /\ Ref(f, p)[p].removed = f[p].removed
BY DEF PdoRecords, OnlyAt, SameLife, SamePnp, SamePower, SameDevice, Ref

\* A record with another count is a record.
LEMMA RecordEffect ==
  ASSUME NEW f \in [Pdos -> PdoRecords], NEW p \in Pdos, NEW n \in Nat, NEW b \in BOOLEAN
  PROVE  [f EXCEPT ![p].refs = n, ![p].removed = b] \in [Pdos -> PdoRecords]
<1>1. [f EXCEPT ![p].refs = n] \in [Pdos -> PdoRecords]
  BY DEF PdoRecords
<1>2. \A g \in [Pdos -> PdoRecords] : [g EXCEPT ![p].removed = b] \in [Pdos -> PdoRecords]
  BY DEF PdoRecords
<1>3. [f EXCEPT ![p].refs = n, ![p].removed = b]
        = [[f EXCEPT ![p].refs = n] EXCEPT ![p].removed = b]
  OBVIOUS
<1> QED
  BY <1>1, <1>2, <1>3

\* __PdoDereference.
LEMMA DerefEffect ==
  ASSUME NEW f \in [Pdos -> PdoRecords], NEW p \in Pdos, f[p].refs > 0
  PROVE  /\ OnlyAt(Deref(f, p), f, p) /\ SameLife(Deref(f, p), f, p)
         /\ SamePnp(Deref(f, p), f, p) /\ SamePower(Deref(f, p), f, p)
         /\ SameDevice(Deref(f, p), f, p)
         /\ Deref(f, p)[p].refs = f[p].refs - 1
         /\ Deref(f, p)[p].removed <=> f[p].removed \/ f[p].refs = 1
<1> DEFINE r == f[p].removed \/ f[p].refs = 1
<1>1. r \in BOOLEAN
  OBVIOUS
<1>2. Deref(f, p) = [f EXCEPT ![p].refs = f[p].refs - 1, ![p].removed = r]
  BY DEF Deref
<1> HIDE DEF r
<1>3. PICK n \in Nat : n = f[p].refs - 1
  BY DEF PdoRecords
<1>4. [f EXCEPT ![p].refs = n, ![p].removed = r] \in [Pdos -> PdoRecords]
  BY <1>1, RecordEffect
<1>5. Deref(f, p)[p].removed = r
  BY <1>1, <1>2 DEF PdoRecords
<1>6. /\ \A q \in Pdos \ {p} : Deref(f, p)[q] = f[q]
      /\ SameLife(Deref(f, p), f, p) /\ SamePnp(Deref(f, p), f, p)
      /\ SamePower(Deref(f, p), f, p) /\ SameDevice(Deref(f, p), f, p)
      /\ Deref(f, p)[p].refs = f[p].refs - 1
  BY <1>2 DEF PdoRecords, SameLife, SamePnp, SamePower, SameDevice
<1> QED
  BY <1>2, <1>3, <1>4, <1>5, <1>6 DEF OnlyAt, r

\* PdoSetDevicePnpState, or its undoing.
PutPnp(f, p, s, r) == [f EXCEPT ![p].pnp = s, ![p].prev = r]
\* It changes the PnP states of one PDO and nothing else.
LEMMA PnpEffect ==
  ASSUME NEW f \in [Pdos -> PdoRecords], NEW p \in Pdos, NEW s \in PnpStates, NEW r \in PnpStates
  PROVE  /\ OnlyAt(PutPnp(f, p, s, r), f, p) /\ SameLife(PutPnp(f, p, s, r), f, p)
         /\ SameRefs(PutPnp(f, p, s, r), f, p) /\ SamePower(PutPnp(f, p, s, r), f, p)
         /\ SameDevice(PutPnp(f, p, s, r), f, p) /\ PutPnp(f, p, s, r)[p].pnp = s
<1>1. PICK h \in [Pdos -> PdoRecords] : h = [f EXCEPT ![p].pnp = s]
  BY DEF PdoRecords
<1>2. PutPnp(f, p, s, r) \in [Pdos -> PdoRecords]
  <2>1. [h EXCEPT ![p].prev = r] \in [Pdos -> PdoRecords]
    BY DEF PdoRecords
  <2>2. PutPnp(f, p, s, r) = [[f EXCEPT ![p].pnp = s] EXCEPT ![p].prev = r]
    BY DEF PutPnp
  <2> QED
    BY <1>1, <2>1, <2>2
<1> QED
  BY <1>2 DEF PutPnp, OnlyAt, PdoRecords, SameLife, SameRefs, SamePower, SameDevice

\* PdoSetMissing.
LEMMA MissingEffect ==
  ASSUME NEW f \in [Pdos -> PdoRecords], NEW p \in Pdos
  PROVE  /\ OnlyAt(SetMissing(f, p), f, p) /\ SameLife(SetMissing(f, p), f, p)
         /\ SameRefs(SetMissing(f, p), f, p) /\ SamePnp(SetMissing(f, p), f, p)
         /\ SamePower(SetMissing(f, p), f, p) /\ SameDevice(SetMissing(f, p), f, p)
BY DEF PdoRecords, SetMissing, OnlyAt, SameLife, SameRefs, SamePnp, SamePower, SameDevice

\* PdoPostResume: of every PDO it changes Missing at most.
LEMMA ResumeEffect ==
  ASSUME pdo \in [Pdos -> PdoRecords], PostResume
  PROVE  /\ pdo' \in [Pdos -> PdoRecords]
         /\ \A q \in Pdos : /\ SameLife(pdo', pdo, q) /\ SameRefs(pdo', pdo, q)
                            /\ SamePnp(pdo', pdo, q) /\ SamePower(pdo', pdo, q)
                            /\ SameDevice(pdo', pdo, q)
                            /\ pdo'[q].ejectPending = pdo[q].ejectPending
<1>1. PICK ps : pdo' = [p \in Pdos |-> IF p \in ps THEN [pdo[p] EXCEPT !.missing = FALSE]
                                                 ELSE pdo[p]]
  BY DEF PostResume
<1>2. ASSUME NEW q \in Pdos
      PROVE  pdo'[q] = pdo[q] \/ pdo'[q] = [pdo[q] EXCEPT !.missing = FALSE]
  BY <1>1
<1>3. \A r \in PdoRecords : [r EXCEPT !.missing = FALSE] \in PdoRecords
  BY DEF PdoRecords
<1>4. \A q \in Pdos : pdo'[q] \in PdoRecords
  BY <1>2, <1>3
<1>5. pdo' \in [Pdos -> PdoRecords]
  BY <1>1, <1>4
<1>6. ASSUME NEW q \in Pdos
      PROVE  /\ SameLife(pdo', pdo, q) /\ SameRefs(pdo', pdo, q)
             /\ SamePnp(pdo', pdo, q) /\ SamePower(pdo', pdo, q)
             /\ SameDevice(pdo', pdo, q)
             /\ pdo'[q].ejectPending = pdo[q].ejectPending
  <2> DEFINE r == pdo[q]
  <2>1. r \in PdoRecords /\ (pdo'[q] = r \/ pdo'[q] = [r EXCEPT !.missing = FALSE])
    BY <1>2, <1>6
  <2> QED
    BY <2>1 DEF PdoRecords, SameLife, SameRefs, SamePnp, SamePower, SameDevice
<1> QED
  BY <1>5, <1>6

\* PdoSetDevicePowerState, and the frontend's part of a transition.
PutPower(f, p, s) == [f EXCEPT ![p].power = s]
PutFrontend(f, p, b) == [f EXCEPT ![p].frontend = b]
\* Each changes what its name says, of one PDO.
LEMMA PowerEffect ==
  ASSUME NEW f \in [Pdos -> PdoRecords], NEW p \in Pdos, NEW s \in {"D0", "D3"}, NEW b \in BOOLEAN
  PROVE  /\ OnlyAt(PutPower(f, p, s), f, p) /\ SameLife(PutPower(f, p, s), f, p)
         /\ SameRefs(PutPower(f, p, s), f, p) /\ SamePnp(PutPower(f, p, s), f, p)
         /\ SameDevice(PutPower(f, p, s), f, p)
         /\ OnlyAt(PutFrontend(f, p, b), f, p) /\ SameLife(PutFrontend(f, p, b), f, p)
         /\ SameRefs(PutFrontend(f, p, b), f, p) /\ SamePnp(PutFrontend(f, p, b), f, p)
         /\ SameDevice(PutFrontend(f, p, b), f, p)
BY DEF PutPower, PutFrontend, PdoRecords, OnlyAt, SameLife, SameRefs, SamePnp, SameDevice

\* PdoSetDeviceObject, and __PdoCheckEjectPending.
PutDevice(f, p) == [f EXCEPT ![p].devobj = TRUE]
PutNoEject(f, p) == [f EXCEPT ![p].ejectPending = FALSE]
\* Neither touches the life, the references, the PnP state or the power of a PDO.
LEMMA DeviceEffect ==
  ASSUME NEW f \in [Pdos -> PdoRecords], NEW p \in Pdos
  PROVE  /\ OnlyAt(PutDevice(f, p), f, p) /\ SameLife(PutDevice(f, p), f, p)
         /\ SameRefs(PutDevice(f, p), f, p) /\ SamePnp(PutDevice(f, p), f, p)
         /\ SamePower(PutDevice(f, p), f, p)
         /\ OnlyAt(PutNoEject(f, p), f, p) /\ SameLife(PutNoEject(f, p), f, p)
         /\ SameRefs(PutNoEject(f, p), f, p) /\ SamePnp(PutNoEject(f, p), f, p)
         /\ SamePower(PutNoEject(f, p), f, p) /\ SameDevice(PutNoEject(f, p), f, p)
BY DEF PutDevice, PutNoEject, PdoRecords, OnlyAt, SameLife, SameRefs, SamePnp, SamePower, SameDevice

-----------------------------------------------------------------------------
\* What a step does for those who count on a PDO.

\* Nobody takes or drops a reference, or goes on in PdoDestroy past a step that matters.
SamePlace(a) ==
  /\ pc'[a] \in Counting <=> pc[a] \in Counting
  /\ pc'[a] \in DestroyPcs <=> pc[a] \in DestroyPcs
  /\ pc'[a] = "unlink" <=> pc[a] = "unlink"
  /\ pc'[a] = "wait" <=> pc[a] = "wait"
SameCount(p) ==
  /\ SameLife(pdo', pdo, p) /\ SameRefs(pdo', pdo, p)
  /\ pdo[p].pnp = "Deleted" => pdo'[p].pnp = "Deleted"
Stays ==
  /\ pdo' \in [Pdos -> PdoRecords]
  /\ UNCHANGED <<table, held>>
  /\ \A p \in Pdos : SameCount(p)
  /\ \A a \in Actors : SamePlace(a)

\* Actor a goes on alone, and of the PDOs only p changes.
Alone(a) == \A b \in Actors \ {a} : pc'[b] = pc[b] /\ held'[b] = held[b]

\* ... taking a reference on a PDO in the table.
Takes(a, p) ==
  /\ OnlyAt(pdo', pdo, p) /\ Alone(a) /\ UNCHANGED table /\ InTable(p)
  /\ pc[a] \notin Counting \cup DestroyPcs
  /\ pc'[a] \in Counting /\ held'[a] = p
  /\ SameLife(pdo', pdo, p) /\ SamePnp(pdo', pdo, p)
  /\ pdo'[p].refs = pdo[p].refs + 1 /\ pdo'[p].removed = pdo[p].removed

\* ... dropping its reference, to destroy the PDO if it is Deleted.
Drops(a, p) ==
  /\ OnlyAt(pdo', pdo, p) /\ Alone(a) /\ UNCHANGED table
  /\ pc[a] \in Counting /\ held[a] = p
  /\ \/ pc'[a] \notin Counting \cup DestroyPcs /\ held'[a] = Null
     \/ pc'[a] = "unlink" /\ held'[a] = p /\ pdo'[p].pnp = "Deleted"
  /\ SameLife(pdo', pdo, p) /\ SamePnp(pdo', pdo, p)
  /\ pdo'[p].refs = pdo[p].refs - 1
  /\ pdo'[p].removed <=> pdo[p].removed \/ pdo[p].refs = 1

\* The last step of a transition of the FDO, by either thread.
LEMMA FinishControl ==
  ASSUME TypeOK, Control, NEW a \in Powerers, Finish(a)
  PROVE  LinkMatch' /\ LockMatch' /\ FdoCounted'
<1> USE ControlFacts DEF Enumerators, Actors, Workers, Powerers, ControlTypes, Go
<1>1. /\ UNCHANGED <<thread, at, held, powerIrp>> /\ pc[a] = "finish"
      /\ fdo'.linked = fdo.linked /\ fdo'.power = fdo.power /\ fdo'.locked = fdo.locked
      /\ \A b \in Actors \ {a} : pc'[b] = pc[b]
  BY DEF Finish, DerefFdo
<1>2. CASE a = "pnp" /\ irp.minor = "add"
  <2>1. UNCHANGED fdo /\ irp'.minor = "none" /\ pc'[a] = "idle" /\ fdo.linked /\ ~Busy
    BY <1>2 DEF Finish, NoIrp, Control, LinkMatch, BusyMatch
  <2>2. ~Busy'
    BY <1>1, <1>2, <2>1 DEF Busy
  <2>3. LinkMatch'
    BY <1>1, <1>2, <2>1 DEF Control, LinkMatch, Joining, Sweeping
  <2>4. LockMatch'
    BY <1>1, <1>2, <2>1 DEF Control, LockMatch, HasLock, Section, DestroyPcs
  <2> QED
    BY <1>1, <1>2, <2>1, <2>2, <2>3, <2>4 DEF Control, FdoCounted, One
<1>3. CASE a = "pnp" /\ irp.minor # "add"
  <2>1. irp.minor = "remove" /\ fdo.linked /\ ~Busy
    BY <1>1, <1>3 DEF Control, Places, PnpPlaces, LinkMatch, BusyMatch, EnumPcs, DestroyPcs,
       DownPcs, IrpPcs
  <2>2. UNCHANGED irp /\ pc'[a] = "term" /\ fdo' = DerefFdo(fdo)
    BY <1>3 DEF Finish
  <2>3. LinkMatch'
    BY <1>1, <1>3, <2>1, <2>2 DEF Control, LinkMatch, Joining, Sweeping, DestroyPcs
  <2>4. LockMatch'
    BY <1>1, <1>3, <2>1, <2>2 DEF Control, LockMatch, HasLock, Section, DestroyPcs
  <2>5. ~Busy' /\ fdo.refs = 2 /\ ~fdo.removed
    BY <1>1, <1>3, <2>1 DEF Busy, Control, FdoCounted, One, DownPcs
  <2>6. FdoCounted'
    BY <1>1, <1>3, <2>1, <2>2, <2>5 DEF FdoCounted, One, DerefFdo, DownPcs, DownLoop
  <2> QED
    BY <2>3, <2>4, <2>6
<1>4. CASE a = "power"
  <2>1. UNCHANGED irp /\ pc'[a] = "idle" /\ fdo' = DerefFdo(fdo)
    BY <1>4 DEF Finish
  <2>2. Busy /\ ~Busy' /\ fdo.linked /\ pc'["pnp"] = pc["pnp"]
    BY <1>1, <1>4, <2>1 DEF Busy, Control, BusyMatch, PowerPcs
  <2>3. LinkMatch'
    BY <1>1, <1>4, <2>1, <2>2 DEF Control, LinkMatch, BusyMatch, Joining, Sweeping
  <2>4. LockMatch'
    BY <1>1, <1>4, <2>1 DEF Control, LockMatch, HasLock, Section, DestroyPcs
  <2>5. FdoCounted'
    BY <1>1, <1>4, <2>1, <2>2 DEF Control, FdoCounted, One, DerefFdo
  <2> QED
    BY <2>3, <2>4, <2>5
<1> QED
  BY <1>2, <1>3, <1>4

\* DriverUnlinkFdo, and the initial reference to the FDO.
LEMMA TerminateControl ==
  ASSUME TypeOK, Control, Terminate
  PROVE  LinkMatch' /\ FdoCounted'
<1> USE ControlFacts DEF Actors, Workers, ControlTypes, Go
<1>1. irp.minor = "remove" /\ fdo.power = "D3" /\ ~Busy /\ fdo.linked
  BY DEF Terminate, Control, Places, PnpPlaces, LinkMatch, BusyMatch, EnumPcs, DestroyPcs,
     UpPcs, DownLoop, IrpPcs
<1>2. /\ fdo' = [DerefFdo(fdo) EXCEPT !.linked = FALSE] /\ pc' = [pc EXCEPT !["pnp"] = "term.wait"]
      /\ UNCHANGED <<thread, at, irp, powerIrp>>
  BY <1>1 DEF Terminate
<1>3. ~Busy' /\ fdo.refs = 1
  BY <1>1, <1>2 DEF Busy, Control, FdoCounted, One, Terminate, DownPcs, DownLoop
<1>4. LinkMatch'
  BY <1>1, <1>2 DEF Control, LinkMatch, Joining, Sweeping, DestroyPcs, DownPcs, DownLoop, DerefFdo
<1>5. FdoCounted'
  BY <1>1, <1>2, <1>3 DEF FdoCounted, One, DerefFdo, DownPcs, DownLoop
<1> QED
  BY <1>4, <1>5

\* A worker thread wakes up, or ends.
LEMMA WorkerControl ==
  ASSUME TypeOK, Control, NEW a \in Workers, Worker(a)
  PROVE  Control'
<1> USE ControlFacts DEF Control, Places, PnpPlaces, EnumPcs, DestroyPcs, IrpPcs, UpPcs,
   DownLoop, DownPcs, TermPcs, Asleep, PowerPcs, Irps, ControlTypes, Enumerators, Actors,
   Workers, Powerers, storeVars, actorVars, scanVars, pnpVars, InLoop, Loop, NextTarget,
   Step, Go, WaitEnds, ClearEvent, Worker
<1>1. Places'
  BY DEF BusyMatch, Busy, LinkMatch
<1>2. HeldMatch'
  BY DEF HeldMatch, Counting, BodyPcs, LinkMatch
<1>3. BusyMatch'
  BY DEF BusyMatch, Busy, LinkMatch
<1>4. LinkMatch'
  BY DEF LinkMatch, Joining, Sweeping, BusyMatch, Busy
<1>5. LockMatch'
  BY DEF LockMatch, HasLock, Section, LinkMatch, Sweeping
<1>6. FdoCounted'
  BY DEF FdoCounted, Busy, One, BusyMatch, LinkMatch
<1> QED
  BY <1>1, <1>2, <1>3, <1>4, <1>5, <1>6

\* Fdo->Lock is taken only when nobody has it.
LEMMA LockControl ==
  ASSUME TypeOK, Control, NEW a \in Enumerators, LockFdo(a)
  PROVE  Control'
<1> USE ControlFacts DEF Control, Places, PnpPlaces, EnumPcs, DestroyPcs, IrpPcs, UpPcs,
   DownLoop, DownPcs, TermPcs, Asleep, PowerPcs, Irps, ControlTypes, Enumerators, Actors,
   Workers, Powerers, storeVars, actorVars, scanVars, pnpVars, InLoop, Loop, NextTarget,
   Step, Go, LockFdo
<1>1. Places'
  BY DEF BusyMatch, Busy, LinkMatch
<1>2. HeldMatch'
  BY DEF HeldMatch, Counting, BodyPcs, LinkMatch
<1>3. BusyMatch'
  BY DEF BusyMatch, Busy, LinkMatch
<1>4. LinkMatch'
  BY DEF LinkMatch, Joining, Sweeping, BusyMatch, Busy
<1>5. LockMatch'
  BY DEF LockMatch, HasLock, Section, LinkMatch, Sweeping
<1>6. FdoCounted'
  BY DEF FdoCounted, Busy, One, BusyMatch, LinkMatch
<1> QED
  BY <1>1, <1>2, <1>3, <1>4, <1>5, <1>6

\* An enumeration, which has Fdo->Lock.
LEMMA EnumerateControl ==
  ASSUME TypeOK, Control, NEW a \in Enumerators, Enumerate(a)
  PROVE  Control'
<1> USE ControlFacts DEF Control, Places, PnpPlaces, EnumPcs, DestroyPcs, IrpPcs, UpPcs,
   DownLoop, DownPcs, TermPcs, Asleep, PowerPcs, Irps, ControlTypes, Enumerators, Actors,
   Workers, Powerers, storeVars, actorVars, scanVars, pnpVars, InLoop, Loop, NextTarget,
   Step, Go, ReadDirectory, EnumGet, EnumPresent, EnumDelete, SetPnp, EnumJudge, EnumNew,
   Wake, EnumEnds, UnlockFdo, Enumerate
<1>1. Places'
  BY DEF BusyMatch, Busy, LinkMatch
<1>2. HeldMatch'
  BY DEF HeldMatch, Counting, BodyPcs, LinkMatch
<1>3. BusyMatch'
  BY DEF BusyMatch, Busy, LinkMatch
<1>4. LinkMatch'
  BY DEF LinkMatch, Joining, Sweeping, BusyMatch, Busy
<1>5. LockMatch'
  BY DEF LockMatch, HasLock, Section, LinkMatch, Sweeping
<1>6. FdoCounted'
  BY DEF FdoCounted, Busy, One, BusyMatch, LinkMatch
<1> QED
  BY <1>1, <1>2, <1>3, <1>4, <1>5, <1>6

\* PdoDestroy, up to the memory being freed.
LEMMA DestroyControl ==
  ASSUME TypeOK, Control, NEW a \in Enumerators, Destroy(a)
  PROVE  Control'
<1> USE ControlFacts DEF Control, Places, PnpPlaces, EnumPcs, DestroyPcs, IrpPcs, UpPcs,
   DownLoop, DownPcs, TermPcs, Asleep, PowerPcs, Irps, ControlTypes, Enumerators, Actors,
   Workers, Powerers, storeVars, actorVars, scanVars, pnpVars, InLoop, Loop, NextTarget,
   Step, Go, Unlink, OffBegin, OffEnd, DropInitial, Free, Destroy
<1>1. Places'
  BY DEF BusyMatch, Busy, LinkMatch
<1>2. HeldMatch'
  BY DEF HeldMatch, Counting, BodyPcs, LinkMatch
<1>3. BusyMatch'
  BY DEF BusyMatch, Busy, LinkMatch
<1>4. LinkMatch'
  BY DEF LinkMatch, Joining, Sweeping, BusyMatch, Busy
<1>5. LockMatch'
  BY DEF LockMatch, HasLock, Section, LinkMatch, Sweeping
<1>6. FdoCounted'
  BY DEF FdoCounted, Busy, One, BusyMatch, LinkMatch
<1> QED
  BY <1>1, <1>2, <1>3, <1>4, <1>5, <1>6

\* A transition of the FDO, by DevicePowerThread or by the PnP thread.
LEMMA PowerControl ==
  ASSUME TypeOK, Control, NEW a \in Powerers, Power(a)
  PROVE  Control'
<1> USE ControlFacts DEF Control, Places, PnpPlaces, EnumPcs, DestroyPcs, IrpPcs, UpPcs,
   DownLoop, DownPcs, TermPcs, Asleep, PowerPcs, Irps, ControlTypes, Enumerators, Actors,
   Workers, Powerers, storeVars, actorVars, scanVars, pnpVars, InLoop, Loop, NextTarget,
   Step, Go
<1>1. Places'
  BY DEF BusyMatch, Busy, LinkMatch, UpSet, SetPower, DownSet, Settle, Acquire, UpGet,
     GetPdo, OnBegin, OnEnd, Wake, UpFails, PutPdo, WatchDevices, UnwatchDevices, DownGet,
     OffBegin, OffEnd, ReleaseInterfaces, Finish, DerefFdo, NoIrp, Power
<1>2. HeldMatch'
  BY DEF HeldMatch, Counting, BodyPcs, LinkMatch, UpSet, SetPower, DownSet, Settle, Acquire,
     UpGet, GetPdo, OnBegin, OnEnd, Wake, UpFails, PutPdo, WatchDevices, UnwatchDevices,
     DownGet, OffBegin, OffEnd, ReleaseInterfaces, Finish, DerefFdo, NoIrp, Power
<1>3. BusyMatch'
  BY DEF BusyMatch, Busy, LinkMatch, UpSet, SetPower, DownSet, Settle, Acquire, UpGet,
     GetPdo, OnBegin, OnEnd, Wake, UpFails, PutPdo, WatchDevices, UnwatchDevices, DownGet,
     OffBegin, OffEnd, ReleaseInterfaces, Finish, DerefFdo, NoIrp, Power
<1>4. LinkMatch'
  <2>1. CASE SetSteps(a)
    BY <2>1 DEF LinkMatch, Joining, Sweeping, BusyMatch, Busy, SetSteps, UpSet, SetPower,
       DownSet, Settle, Acquire
  <2>2. CASE UpSteps(a)
    BY <2>2 DEF LinkMatch, Joining, Sweeping, BusyMatch, Busy, UpSteps, UpGet, GetPdo,
       OnBegin, OnEnd, Wake, UpFails, PutPdo
  <2>3. CASE DownSteps(a)
    BY <2>3 DEF LinkMatch, Joining, Sweeping, BusyMatch, Busy, DownSteps, WatchDevices,
       Wake, UnwatchDevices, DownGet, GetPdo, OffBegin, OffEnd, PutPdo, ReleaseInterfaces
  <2>4. CASE Finish(a)
    BY <2>4, FinishControl
  <2> QED
    BY <2>1, <2>2, <2>3, <2>4 DEF Power, SetSteps, UpSteps, DownSteps
<1>5. LockMatch'
  <2>1. CASE SetSteps(a)
    BY <2>1 DEF LockMatch, HasLock, Section, LinkMatch, Sweeping, SetSteps, UpSet, SetPower,
       DownSet, Settle, Acquire
  <2>2. CASE UpSteps(a)
    BY <2>2 DEF LockMatch, HasLock, Section, LinkMatch, Sweeping, UpSteps, UpGet, GetPdo,
       OnBegin, OnEnd, Wake, UpFails, PutPdo
  <2>3. CASE DownSteps(a)
    BY <2>3 DEF LockMatch, HasLock, Section, LinkMatch, Sweeping, DownSteps, WatchDevices,
       Wake, UnwatchDevices, DownGet, GetPdo, OffBegin, OffEnd, PutPdo, ReleaseInterfaces
  <2>4. CASE Finish(a)
    BY <2>4, FinishControl
  <2> QED
    BY <2>1, <2>2, <2>3, <2>4 DEF Power, SetSteps, UpSteps, DownSteps
<1>6. FdoCounted'
  <2>1. CASE SetSteps(a)
    BY <2>1 DEF FdoCounted, Busy, One, BusyMatch, LinkMatch, SetSteps, UpSet, SetPower,
       DownSet, Settle, Acquire
  <2>2. CASE UpSteps(a)
    BY <2>2 DEF FdoCounted, Busy, One, BusyMatch, LinkMatch, UpSteps, UpGet, GetPdo,
       OnBegin, OnEnd, Wake, UpFails, PutPdo
  <2>3. CASE DownSteps(a)
    BY <2>3 DEF FdoCounted, Busy, One, BusyMatch, LinkMatch, DownSteps, WatchDevices, Wake,
       UnwatchDevices, DownGet, GetPdo, OffBegin, OffEnd, PutPdo, ReleaseInterfaces
  <2>4. CASE Finish(a)
    BY <2>4, FinishControl
  <2> QED
    BY <2>1, <2>2, <2>3, <2>4 DEF Power, SetSteps, UpSteps, DownSteps
<1> QED
  BY <1>1, <1>2, <1>3, <1>4, <1>5, <1>6

\* IRPs of the PnP thread, to the FDO and to the devices of targets.
LEMMA IrpControl ==
  ASSUME TypeOK, Control, RelationsEnd \/ Irp
  PROVE  Control'
<1> USE ControlFacts DEF Control, Places, PnpPlaces, EnumPcs, DestroyPcs, IrpPcs, UpPcs,
   DownLoop, DownPcs, TermPcs, Asleep, PowerPcs, Irps, ControlTypes, Enumerators, Actors,
   Workers, Powerers, storeVars, actorVars, scanVars, pnpVars, InLoop, Loop, NextTarget,
   Step, Go
<1>1. Places'
  BY DEF BusyMatch, Busy, LinkMatch, RelationsEnd, DerefFdo, NoIrp, MapPdo,
     CheckEjectPending, SimpleIrp, SetPnp, StateOf, CancelIrp, OtherIrp, StartBegin,
     OnBegin, OnEnd, Wake, StartFails, StartEnd, RemoveBegin, OffBegin, OffEnd, RemoveJudge,
     RemoveKeeps, EjectBegin, MarkDeleted, IrpEnd, Irp
<1>2. HeldMatch'
  BY DEF HeldMatch, Counting, BodyPcs, LinkMatch, RelationsEnd, DerefFdo, NoIrp, MapPdo,
     CheckEjectPending, SimpleIrp, SetPnp, StateOf, CancelIrp, OtherIrp, StartBegin,
     OnBegin, OnEnd, Wake, StartFails, StartEnd, RemoveBegin, OffBegin, OffEnd, RemoveJudge,
     RemoveKeeps, EjectBegin, MarkDeleted, IrpEnd, Irp
<1>3. BusyMatch'
  <2>1. CASE RelationsEnd
    BY <2>1 DEF BusyMatch, Busy, LinkMatch, RelationsEnd, DerefFdo, NoIrp
  <2>2. CASE PlainIrps
    BY <2>2 DEF BusyMatch, Busy, LinkMatch, PlainIrps, MapPdo, CheckEjectPending, SimpleIrp,
       SetPnp, StateOf, CancelIrp, OtherIrp
  <2>3. CASE StartIrp
    BY <2>3 DEF BusyMatch, Busy, LinkMatch, StartIrp, StartBegin, OnBegin, OnEnd, Wake,
       StartFails, StartEnd, SetPnp
  <2>4. CASE RemoveIrps
    BY <2>4 DEF BusyMatch, Busy, LinkMatch, RemoveIrps, RemoveBegin, OffBegin, OffEnd,
       RemoveJudge, RemoveKeeps, SetPnp, EjectBegin, MarkDeleted
  <2>5. CASE IrpEnd
    BY <2>5 DEF BusyMatch, Busy, LinkMatch, IrpEnd, NoIrp
  <2> QED
    BY <2>1, <2>2, <2>3, <2>4, <2>5 DEF Irp, PlainIrps, StartIrp, RemoveIrps
<1>4. LinkMatch'
  <2>1. CASE RelationsEnd
    BY <2>1 DEF LinkMatch, Joining, Sweeping, BusyMatch, Busy, RelationsEnd, DerefFdo, NoIrp
  <2>2. CASE PlainIrps
    BY <2>2 DEF LinkMatch, Joining, Sweeping, BusyMatch, Busy, PlainIrps, MapPdo,
       CheckEjectPending, SimpleIrp, SetPnp, StateOf, CancelIrp, OtherIrp
  <2>3. CASE StartIrp
    BY <2>3 DEF LinkMatch, Joining, Sweeping, BusyMatch, Busy, StartIrp, StartBegin,
       OnBegin, OnEnd, Wake, StartFails, StartEnd, SetPnp
  <2>4. CASE RemoveIrps
    BY <2>4 DEF LinkMatch, Joining, Sweeping, BusyMatch, Busy, RemoveIrps, RemoveBegin,
       OffBegin, OffEnd, RemoveJudge, RemoveKeeps, SetPnp, EjectBegin, MarkDeleted
  <2>5. CASE IrpEnd
    BY <2>5 DEF LinkMatch, Joining, Sweeping, BusyMatch, Busy, IrpEnd, NoIrp
  <2> QED
    BY <2>1, <2>2, <2>3, <2>4, <2>5 DEF Irp, PlainIrps, StartIrp, RemoveIrps
<1>5. LockMatch'
  <2>1. CASE RelationsEnd
    BY <2>1 DEF LockMatch, HasLock, Section, LinkMatch, Sweeping, RelationsEnd, DerefFdo,
       NoIrp
  <2>2. CASE PlainIrps
    BY <2>2 DEF LockMatch, HasLock, Section, LinkMatch, Sweeping, PlainIrps, MapPdo,
       CheckEjectPending, SimpleIrp, SetPnp, StateOf, CancelIrp, OtherIrp
  <2>3. CASE StartIrp
    BY <2>3 DEF LockMatch, HasLock, Section, LinkMatch, Sweeping, StartIrp, StartBegin,
       OnBegin, OnEnd, Wake, StartFails, StartEnd, SetPnp
  <2>4. CASE RemoveIrps
    BY <2>4 DEF LockMatch, HasLock, Section, LinkMatch, Sweeping, RemoveIrps, RemoveBegin,
       OffBegin, OffEnd, RemoveJudge, RemoveKeeps, SetPnp, EjectBegin, MarkDeleted
  <2>5. CASE IrpEnd
    BY <2>5 DEF LockMatch, HasLock, Section, LinkMatch, Sweeping, IrpEnd, NoIrp
  <2> QED
    BY <2>1, <2>2, <2>3, <2>4, <2>5 DEF Irp, PlainIrps, StartIrp, RemoveIrps
<1>6. FdoCounted'
  <2>1. CASE RelationsEnd
    BY <2>1 DEF FdoCounted, Busy, One, BusyMatch, LinkMatch, RelationsEnd, DerefFdo, NoIrp
  <2>2. CASE PlainIrps
    BY <2>2 DEF FdoCounted, Busy, One, BusyMatch, LinkMatch, PlainIrps, MapPdo,
       CheckEjectPending, SimpleIrp, SetPnp, StateOf, CancelIrp, OtherIrp
  <2>3. CASE StartIrp
    BY <2>3 DEF FdoCounted, Busy, One, BusyMatch, LinkMatch, StartIrp, StartBegin, OnBegin,
       OnEnd, Wake, StartFails, StartEnd, SetPnp
  <2>4. CASE RemoveIrps
    BY <2>4 DEF FdoCounted, Busy, One, BusyMatch, LinkMatch, RemoveIrps, RemoveBegin,
       OffBegin, OffEnd, RemoveJudge, RemoveKeeps, SetPnp, EjectBegin, MarkDeleted
  <2>5. CASE IrpEnd
    BY <2>5 DEF FdoCounted, Busy, One, BusyMatch, LinkMatch, IrpEnd, NoIrp
  <2> QED
    BY <2>1, <2>2, <2>3, <2>4, <2>5 DEF Irp, PlainIrps, StartIrp, RemoveIrps
<1> QED
  BY <1>1, <1>2, <1>3, <1>4, <1>5, <1>6

\* __FdoTerminate.
LEMMA RemovalControl ==
  ASSUME TypeOK, Control, Removal
  PROVE  Control'
<1> USE ControlFacts DEF Control, Places, PnpPlaces, EnumPcs, DestroyPcs, IrpPcs, UpPcs,
   DownLoop, DownPcs, TermPcs, Asleep, PowerPcs, Irps, ControlTypes, Enumerators, Actors,
   Workers, Powerers, storeVars, actorVars, scanVars, pnpVars, InLoop, Loop, NextTarget,
   Step, Go
<1>1. Places'
  BY DEF BusyMatch, Busy, LinkMatch, Terminate, DerefFdo, TerminateWait, AlertThread,
     Joined, JoinThread, Sweep, Terminated, NoFdo, NoIrp, Removal
<1>2. HeldMatch'
  BY DEF HeldMatch, Counting, BodyPcs, LinkMatch, Terminate, DerefFdo, TerminateWait,
     AlertThread, Joined, JoinThread, Sweep, Terminated, NoFdo, NoIrp, Removal
<1>3. BusyMatch'
  BY DEF BusyMatch, Busy, LinkMatch, Terminate, DerefFdo, TerminateWait, AlertThread,
     Joined, JoinThread, Sweep, Terminated, NoFdo, NoIrp, Removal
<1>4. LinkMatch'
  <2>1. CASE Terminate
    BY <2>1, TerminateControl
  <2>2. CASE JoinSteps
    BY <2>2 DEF LinkMatch, Joining, Sweeping, BusyMatch, Busy, JoinSteps, TerminateWait,
       AlertThread, Joined, JoinThread
  <2>3. CASE SweepSteps
    BY <2>3 DEF LinkMatch, Joining, Sweeping, BusyMatch, Busy, SweepSteps, Sweep,
       Terminated, NoFdo, NoIrp
  <2> QED
    BY <2>1, <2>2, <2>3 DEF Removal, JoinSteps, SweepSteps
<1>5. LockMatch'
  BY DEF LockMatch, HasLock, Section, LinkMatch, Sweeping, Terminate, DerefFdo,
     TerminateWait, AlertThread, Joined, JoinThread, Sweep, Terminated, NoFdo, NoIrp,
     Removal
<1>6. FdoCounted'
  <2>1. CASE Terminate
    BY <2>1, TerminateControl
  <2>2. CASE JoinSteps
    BY <2>2 DEF FdoCounted, Busy, One, BusyMatch, LinkMatch, JoinSteps, TerminateWait,
       AlertThread, Joined, JoinThread
  <2>3. CASE SweepSteps
    BY <2>3 DEF FdoCounted, Busy, One, BusyMatch, LinkMatch, SweepSteps, Sweep, Terminated,
       NoFdo, NoIrp
  <2> QED
    BY <2>1, <2>2, <2>3 DEF Removal, JoinSteps, SweepSteps
<1> QED
  BY <1>1, <1>2, <1>3, <1>4, <1>5, <1>6

\* What the PnP and power managers begin.
LEMMA ManagersControl ==
  ASSUME TypeOK, Control, Managers
  PROVE  Control'
<1> USE ControlFacts DEF Control, Places, PnpPlaces, EnumPcs, DestroyPcs, IrpPcs, UpPcs,
   DownLoop, DownPcs, TermPcs, Asleep, PowerPcs, Irps, ControlTypes, Enumerators, Actors,
   Workers, Powerers, storeVars, actorVars, scanVars, pnpVars, InLoop, Loop, NextTarget,
   Step, Go
<1>1. Places'
  BY DEF BusyMatch, Busy, LinkMatch, QueryRelations, RefFdo, SendIrp, MaySend, Quiet,
     Minors, FindAdapter, NoFdo, NoThread, RemoveFdo, DispatchPower, Wake, Managers
<1>2. HeldMatch'
  BY DEF HeldMatch, Counting, BodyPcs, LinkMatch, QueryRelations, RefFdo, SendIrp, MaySend,
     Quiet, Minors, FindAdapter, NoFdo, NoThread, RemoveFdo, DispatchPower, Wake, Managers
<1>3. BusyMatch'
  BY DEF BusyMatch, Busy, LinkMatch, QueryRelations, RefFdo, SendIrp, MaySend, Quiet,
     Minors, FindAdapter, NoFdo, NoThread, RemoveFdo, DispatchPower, Wake, Managers
<1>4. LinkMatch'
  <2>1. CASE QueryRelations
    BY <2>1 DEF LinkMatch, Joining, Sweeping, BusyMatch, Busy, QueryRelations, RefFdo
  <2>2. CASE \E m \in Minors, t \in Targets : SendIrp(m, t)
    BY <2>2 DEF LinkMatch, Joining, Sweeping, BusyMatch, Busy, SendIrp, MaySend, Quiet,
       Minors
  <2>3. CASE FindAdapter
    BY <2>3 DEF LinkMatch, Joining, Sweeping, BusyMatch, Busy, FindAdapter, NoFdo, NoThread
  <2>4. CASE RemoveFdo
    BY <2>4 DEF LinkMatch, Joining, Sweeping, BusyMatch, Busy, RemoveFdo, Quiet, RefFdo
  <2>5. CASE \E state \in {"D0", "D3"} : DispatchPower(state)
    BY <2>5 DEF LinkMatch, Joining, Sweeping, BusyMatch, Busy, DispatchPower, Quiet, RefFdo,
       Wake
  <2> QED
    BY <2>1, <2>2, <2>3, <2>4, <2>5 DEF Managers
<1>5. LockMatch'
  <2>1. CASE QueryRelations
    BY <2>1 DEF LockMatch, HasLock, Section, QueryRelations, RefFdo
  <2>2. CASE \E m \in Minors, t \in Targets : SendIrp(m, t)
    BY <2>2 DEF LockMatch, HasLock, Section, SendIrp, MaySend, Minors
  <2>3. CASE FindAdapter
    BY <2>3 DEF LockMatch, HasLock, Section, FindAdapter, NoFdo
  <2>4. CASE RemoveFdo
    BY <2>4 DEF LockMatch, HasLock, Section, RemoveFdo, RefFdo
  <2>5. CASE \E state \in {"D0", "D3"} : DispatchPower(state)
    BY <2>5 DEF LockMatch, HasLock, Section, DispatchPower, RefFdo
  <2> QED
    BY <2>1, <2>2, <2>3, <2>4, <2>5 DEF Managers
<1>6. FdoCounted'
  <2>1. CASE QueryRelations
    BY <2>1 DEF FdoCounted, Busy, One, BusyMatch, LinkMatch, QueryRelations, RefFdo
  <2>2. CASE \E m \in Minors, t \in Targets : SendIrp(m, t)
    BY <2>2 DEF FdoCounted, Busy, One, BusyMatch, LinkMatch, SendIrp, MaySend, Quiet, Minors
  <2>3. CASE FindAdapter
    BY <2>3 DEF FdoCounted, Busy, One, BusyMatch, LinkMatch, FindAdapter, NoFdo, NoThread
  <2>4. CASE RemoveFdo
    BY <2>4 DEF FdoCounted, Busy, One, BusyMatch, LinkMatch, RemoveFdo, Quiet, RefFdo
  <2>5. CASE \E state \in {"D0", "D3"} : DispatchPower(state)
    BY <2>5 DEF FdoCounted, Busy, One, BusyMatch, LinkMatch, DispatchPower, Quiet, RefFdo,
       Wake
  <2> QED
    BY <2>1, <2>2, <2>3, <2>4, <2>5 DEF Managers
<1> QED
  BY <1>1, <1>2, <1>3, <1>4, <1>5, <1>6

\* Steps with little control: the watches, SRBs and the toolstack.
LEMMA OthersControl ==
  ASSUME TypeOK, Control, \/ Notify \/ TakeIrp \/ PathsChanged \/ Toolstack \/ IoEnd
         \/ (\E t \in Targets : IoBegin(t)) \/ UNCHANGED vars
  PROVE  Control'
<1> USE ControlFacts DEF Control, Places, PnpPlaces, EnumPcs, DestroyPcs, IrpPcs, UpPcs,
   DownLoop, DownPcs, TermPcs, Asleep, PowerPcs, Irps, ControlTypes, Enumerators, Actors,
   Workers, Powerers, storeVars, actorVars, scanVars, pnpVars, InLoop, Loop, NextTarget,
   Step, Go, Notify, TakeIrp, PathsChanged, Toolstack, Migrate, Rewatch, Plug, Unplug,
   Leave, DirectoryChanged, Wake, IoEnd, IoBegin, vars
<1>1. Places'
  BY DEF BusyMatch, Busy, LinkMatch
<1>2. HeldMatch'
  BY DEF HeldMatch, Counting, BodyPcs, LinkMatch
<1>3. BusyMatch'
  BY DEF BusyMatch, Busy, LinkMatch
<1>4. LinkMatch'
  BY DEF LinkMatch, Joining, Sweeping, BusyMatch, Busy
<1>5. LockMatch'
  BY DEF LockMatch, HasLock, Section, LinkMatch, Sweeping
<1>6. FdoCounted'
  BY DEF FdoCounted, Busy, One, BusyMatch, LinkMatch
<1> QED
  BY <1>1, <1>2, <1>3, <1>4, <1>5, <1>6

\* In the table is what is live and has not been unlinked.
LEMMA TableFacts ==
  ASSUME TypeOK, Live, NEW t \in Targets, table[t] # Null
  PROVE  table[t] \in Pdos /\ InTable(table[t]) /\ pdo[table[t]].live
BY TypeParts DEF PdoTypes, Live, InTable

\* What is held is live.
LEMMA HeldFacts ==
  ASSUME TypeOK, Control, Live, NEW a \in Actors, pc[a] \in Counting \cup DestroyPcs
  PROVE  held[a] \in Pdos /\ pdo[held[a]].live
BY TypeParts DEF ControlTypes, Control, HeldMatch, Live

\* Whoever counts on a PDO has one reference at least to drop.
CountsHeld ==
  \A a \in Actors : pc[a] \in Counting \cup {"drop"} => pdo[held[a]].refs > 0

\* A loop over the targets is at a target.
LEMMA LoopTarget ==
  ASSUME TypeOK, NEW a \in Actors, at[a] < NumTargets
  PROVE  at[a] \in Targets
BY TypeParts, LifecycleAssumption DEF ControlTypes, Targets, LifecycleAssumption

\* Steps that change no PDO.
LEMMA QuietStays ==
  ASSUME TypeOK, UNCHANGED <<table, pdo, held>>, \A a \in Actors : SamePlace(a)
  PROVE  Stays
BY TypeParts DEF PdoTypes, Stays, SameCount, SameLife, SameRefs

\* Steps that change the state of one PDO.
LEMMA StateStays ==
  ASSUME TypeOK, UNCHANGED <<table, held>>, NEW p \in Pdos, OnlyAt(pdo', pdo, p),
         SameLife(pdo', pdo, p), SameRefs(pdo', pdo, p),
         pdo[p].pnp = "Deleted" => pdo'[p].pnp = "Deleted",
         \A a \in Actors : SamePlace(a)
  PROVE  Stays
BY TypeParts DEF PdoTypes, OnlyAt, Stays, SameCount, SameLife, SameRefs

\* PdoSetDevicePnpState, and a failed ASSERT there.
LEMMA SetPnpStays ==
  ASSUME TypeOK, Control, Live, NEW a \in Actors, NEW s \in PnpStates, NEW l, SetPnp(a, s, l),
         UNCHANGED <<table, held>>, pc[a] \in Counting, \A b \in Actors : SamePlace(b)
  PROVE  Stays
<1>1. held[a] \in Pdos /\ pdo \in [Pdos -> PdoRecords]
  BY TypeParts, HeldFacts DEF PdoTypes
<1>2. CASE UNCHANGED pdo
  BY <1>2, QuietStays
<1>3. CASE pdo[held[a]].pnp = "Deleted" => s = "Deleted"
  <2>1. PICK r \in PnpStates : pdo' = PutPnp(pdo, held[a], s, r)
    <3>1. "Present" \in PnpStates /\ pdo[held[a]].pnp \in PnpStates
      BY <1>1 DEF PnpStates, PdoRecords
    <3> QED
      BY <1>3, <3>1 DEF SetPnp, PutPnp
  <2>2. /\ OnlyAt(pdo', pdo, held[a]) /\ SameLife(pdo', pdo, held[a])
        /\ SameRefs(pdo', pdo, held[a]) /\ pdo'[held[a]].pnp = s
    BY <1>1, <2>1, PnpEffect
  <2> QED
    BY <1>1, <1>3, <2>2, StateStays
<1> QED
  BY <1>2, <1>3 DEF SetPnp

\* __FdoEnumerate.
LEMMA EnumerateClass ==
  ASSUME TypeOK, Control, Live, CountsHeld, NEW a \in Enumerators, Enumerate(a)
  PROVE  \/ Stays
         \/ \E p \in Pdos : Takes(a, p) \/ Drops(a, p)
         \/ EnumNew(a)
<1> USE DEF Enumerators, Actors, Workers, Go, Step, Loop, NextTarget
<1>1. pdo \in [Pdos -> PdoRecords] /\ ControlTypes
  BY TypeParts DEF PdoTypes
<1>2. CASE ReadDirectory(a) \/ EnumPresent(a) \/ EnumEnds(a) \/ UnlockFdo(a)
  <2>1. UNCHANGED <<table, pdo, held>>
    BY <1>2 DEF ReadDirectory, EnumPresent, EnumEnds, UnlockFdo
  <2>2. \A b \in Actors : SamePlace(b)
    BY <1>1, <1>2 DEF ReadDirectory, EnumPresent, EnumEnds, UnlockFdo, SamePlace, ControlTypes,
       Counting, DestroyPcs, IrpPcs
  <2> QED
    BY <2>1, <2>2, QuietStays
<1>3. CASE EnumGet(a)
  <2> DEFINE p == table[at[a]]
  <2>1. CASE InLoop(a) /\ p # Null
    <3>1. p \in Pdos /\ InTable(p)
      BY <1>1, <2>1, LoopTarget, TableFacts DEF InLoop
    <3>2. PICK r \in [Pdos -> PdoRecords] : r = Ref(pdo, p)
      BY <1>1, <3>1, RefEffect DEF OnlyAt
    <3>3. pdo' = r \/ pdo' = SetMissing(r, p)
      BY <1>3, <2>1, <3>2 DEF EnumGet
    <3>4. /\ OnlyAt(pdo', pdo, p) /\ SameLife(pdo', pdo, p) /\ SamePnp(pdo', pdo, p)
          /\ pdo'[p].refs = pdo[p].refs + 1 /\ pdo'[p].removed = pdo[p].removed
      BY <1>1, <3>1, <3>2, <3>3, RefEffect, MissingEffect DEF OnlyAt, SameLife, SamePnp, SameRefs
    <3>5. /\ Alone(a) /\ UNCHANGED table /\ pc[a] \notin Counting \cup DestroyPcs
          /\ pc'[a] \in Counting /\ held'[a] = p
      BY <1>1, <1>3, <2>1 DEF EnumGet, Alone, ControlTypes, Counting, DestroyPcs, IrpPcs
    <3> QED
      BY <3>1, <3>4, <3>5 DEF Takes
  <2>2. CASE ~(InLoop(a) /\ p # Null)
    <3>1. UNCHANGED <<table, pdo>> /\ held' = [held EXCEPT ![a] = held'[a]] /\ held[a] = Null /\ held'[a] = Null
      BY <1>1, <1>3, <2>2 DEF EnumGet, ControlTypes, Control, HeldMatch, Counting, DestroyPcs, IrpPcs
    <3>2. UNCHANGED held
      BY <1>1, <3>1 DEF ControlTypes
    <3>3. \A b \in Actors : SamePlace(b)
      BY <1>1, <1>3, <2>2 DEF EnumGet, SamePlace, ControlTypes, Counting, DestroyPcs, IrpPcs
    <3> QED
      BY <3>1, <3>2, <3>3, QuietStays
  <2> QED
    BY <2>1, <2>2
<1>4. CASE EnumDelete(a)
  <2>1. UNCHANGED <<table, held>> /\ \A b \in Actors : SamePlace(b)
    BY <1>1, <1>4 DEF EnumDelete, SetPnp, SamePlace, ControlTypes, Counting, DestroyPcs, IrpPcs
  <2>2. pc[a] \in Counting /\ SetPnp(a, "Deleted", "judge") /\ "Deleted" \in PnpStates
    BY <1>4 DEF EnumDelete, Counting, PnpStates
  <2> QED
    BY <2>1, <2>2, SetPnpStays
<1>5. CASE EnumJudge(a)
  <2>1. held[a] \in Pdos /\ pdo[held[a]].refs > 0 /\ pc[a] \in Counting
    BY <1>5, HeldFacts DEF EnumJudge, Counting, CountsHeld
  <2>2. /\ Alone(a) /\ UNCHANGED table /\ pdo' = Deref(pdo, held[a])
        /\ \/ pc'[a] \notin Counting \cup DestroyPcs /\ held'[a] = Null
           \/ pc'[a] = "unlink" /\ held'[a] = held[a] /\ pdo[held[a]].pnp = "Deleted"
    BY <1>1, <1>5 DEF EnumJudge, Alone, ControlTypes, Own, Counting, DestroyPcs, IrpPcs
  <2> QED
    BY <1>1, <2>1, <2>2, DerefEffect DEF Drops, SamePnp
<1> QED
  BY <1>2, <1>3, <1>4, <1>5 DEF Enumerate

\* Where nobody's place matters: all in Counting but for a, or all in PdoDestroy.
LEMMA MoveSamePlace ==
  ASSUME TypeOK, NEW a \in Actors, NEW l, Go(a, l),
         \/ {pc[a], l} \subseteq Counting
         \/ {pc[a], l} \subseteq {"destroy.off", "destroy.end", "drop"}
         \/ {pc[a], l} \cap (Counting \cup DestroyPcs) = {}
  PROVE  \A b \in Actors : SamePlace(b)
<1>1. pc'[a] = l /\ \A b \in Actors \ {a} : pc'[b] = pc[b]
  BY TypeParts DEF ControlTypes, Go
<1> QED
  BY <1>1 DEF SamePlace, Counting, DestroyPcs, IrpPcs

\* PdoD0ToD3 and PdoD3ToD0, of the PDO an actor holds.
LEMMA TransitionStays ==
  ASSUME TypeOK, Control, Live, NEW a \in Actors, NEW from, NEW middle, NEW to,
         \/ OffBegin(a, from, middle, to) \/ OffEnd(a, from, to)
         \/ OnBegin(a, from, middle, to) \/ OnEnd(a, from, to),
         \/ {from, middle, to} \subseteq Counting
         \/ {from, middle, to} \subseteq {"destroy.off", "destroy.end", "drop"}
  PROVE  Stays
<1>1. pc[a] = from /\ (Go(a, middle) \/ Go(a, to)) /\ UNCHANGED <<table, held>>
  BY DEF OffBegin, OffEnd, OnBegin, OnEnd
<1>2. held[a] \in Pdos /\ pdo \in [Pdos -> PdoRecords]
  BY <1>1, TypeParts, HeldFacts DEF PdoTypes, DestroyPcs
<1>3. /\ OnlyAt(pdo', pdo, held[a]) /\ SameLife(pdo', pdo, held[a])
      /\ SameRefs(pdo', pdo, held[a]) /\ SamePnp(pdo', pdo, held[a])
  <2>1. \/ \E s \in {"D0", "D3"} : pdo' = PutPower(pdo, held[a], s)
        \/ \E b \in BOOLEAN : pdo' = PutFrontend(pdo, held[a], b)
    BY DEF OffBegin, OffEnd, OnBegin, OnEnd, PutPower, PutFrontend
  <2> QED
    BY <1>2, <2>1, PowerEffect
<1>4. \A b \in Actors : SamePlace(b)
  BY <1>1, MoveSamePlace
<1> QED
  BY <1>1, <1>2, <1>3, <1>4, StateStays DEF SamePnp

\* The end of a transition.
LEMMA EndStays ==
  ASSUME TypeOK, Control, Live, NEW a \in Actors, NEW from, NEW to,
         OffEnd(a, from, to) \/ OnEnd(a, from, to),
         {from, to} \subseteq Counting \/ {from, to} \subseteq {"destroy.off", "destroy.end", "drop"}
  PROVE  Stays
<1>1. \/ {from, to, to} \subseteq Counting
      \/ {from, to, to} \subseteq {"destroy.off", "destroy.end", "drop"}
  OBVIOUS
<1> QED
  BY <1>1, TransitionStays

\* ___FdoGetPdo, of a loop over the targets.
LEMMA GetPdoClass ==
  ASSUME TypeOK, Control, Live, NEW a \in Actors, NEW l \in Counting, GetPdo(a, l), InLoop(a),
         pc[a] \notin Counting \cup DestroyPcs, UNCHANGED table
  PROVE  Stays \/ \E p \in Pdos : Takes(a, p)
<1>1. pdo \in [Pdos -> PdoRecords] /\ ControlTypes
  BY TypeParts DEF PdoTypes
<1>2. CASE table[at[a]] = Null
  <2>1. held[a] = Null /\ held' = [held EXCEPT ![a] = Null] /\ UNCHANGED pdo /\ Go(a, pc[a])
    BY <1>2 DEF GetPdo, NextTarget, Loop, Control, HeldMatch
  <2>2. UNCHANGED held /\ \A b \in Actors : SamePlace(b)
    BY <1>1, <2>1, MoveSamePlace DEF ControlTypes
  <2> QED
    BY <2>1, <2>2, QuietStays
<1>3. CASE table[at[a]] # Null
  <2>1. table[at[a]] \in Pdos /\ InTable(table[at[a]])
    BY <1>3, LoopTarget, TableFacts DEF InLoop
  <2>2. pdo' = Ref(pdo, table[at[a]]) /\ Alone(a) /\ pc'[a] \in Counting /\ held'[a] = table[at[a]]
    BY <1>1, <1>3 DEF GetPdo, Step, Go, Alone, ControlTypes
  <2> QED
    BY <1>1, <2>1, <2>2, RefEffect DEF Takes
<1> QED
  BY <1>2, <1>3

\* A reference is dropped, and the actor holds nothing.
LEMMA DropClass ==
  ASSUME TypeOK, Control, Live, CountsHeld, NEW a \in Actors, NEW l, Step(a, l, Null),
         pdo' = Deref(pdo, held[a]), pc[a] \in Counting, l \notin Counting \cup DestroyPcs,
         UNCHANGED table
  PROVE  \E p \in Pdos : Drops(a, p)
<1>1. held[a] \in Pdos /\ pdo[held[a]].refs > 0 /\ pdo \in [Pdos -> PdoRecords] /\ ControlTypes
  BY HeldFacts, TypeParts DEF CountsHeld, PdoTypes
<1>2. Alone(a) /\ pc'[a] = l /\ held'[a] = Null
  BY <1>1 DEF Step, Go, Alone, ControlTypes
<1> QED
  BY <1>1, <1>2, DerefEffect DEF Drops

\* The FDO's transitions.
LEMMA PowerClass ==
  ASSUME TypeOK, Control, Live, CountsHeld, NEW a \in Powerers, Power(a)
  PROVE  Stays \/ \E p \in Pdos : Takes(a, p) \/ Drops(a, p)
<1>1. a \in Actors /\ pdo \in [Pdos -> PdoRecords] /\ ControlTypes
  BY TypeParts DEF PdoTypes, Powerers, Actors, Workers
<1>2. CASE SetSteps(a) \/ WatchDevices(a) \/ UnwatchDevices(a) \/ ReleaseInterfaces(a) \/ Finish(a)
  <2>1. UNCHANGED <<table, pdo, held>> /\ \E l : Go(a, l) /\ {pc[a], l} \cap (Counting \cup DestroyPcs) = {}
    BY <1>1, <1>2 DEF SetSteps, UpSet, DownSet, Settle, SetPower, Acquire, WatchDevices, UnwatchDevices,
       ReleaseInterfaces, Finish, Loop, Counting, DestroyPcs, IrpPcs
  <2> QED
    BY <1>1, <2>1, MoveSamePlace, QuietStays
<1>3. CASE UpGet(a) \/ DownGet(a)
  <2>1. CASE InLoop(a)
    <3>1. \E l \in Counting : GetPdo(a, l)
      BY <1>3, <2>1 DEF UpGet, DownGet, Counting
    <3>2. pc[a] \notin Counting \cup DestroyPcs /\ UNCHANGED table
      BY <1>3 DEF UpGet, DownGet, Counting, DestroyPcs, IrpPcs
    <3> QED
      BY <1>1, <2>1, <3>1, <3>2, GetPdoClass
  <2>2. CASE ~InLoop(a)
    <3>1. UNCHANGED <<table, pdo, held>> /\ \E l : Go(a, l) /\ {pc[a], l} \cap (Counting \cup DestroyPcs) = {}
      BY <1>3, <2>2 DEF UpGet, DownGet, Loop, Counting, DestroyPcs, IrpPcs
    <3> QED
      BY <1>1, <3>1, MoveSamePlace, QuietStays
  <2> QED
    BY <2>1, <2>2
<1>4. CASE \/ OnBegin(a, "up.on", "up.end", "up.put") \/ OnEnd(a, "up.end", "up.put")
           \/ OffBegin(a, "down.off", "down.end", "down.put") \/ OffEnd(a, "down.end", "down.put")
  <2>1. {"up.on", "up.end", "up.put", "down.off", "down.end", "down.put"} \subseteq Counting
    BY DEF Counting
  <2>2. CASE OnBegin(a, "up.on", "up.end", "up.put")
    BY <1>1, <2>1, <2>2, TransitionStays
  <2>3. CASE OffBegin(a, "down.off", "down.end", "down.put")
    BY <1>1, <2>1, <2>3, TransitionStays
  <2>4. CASE OnEnd(a, "up.end", "up.put")
    BY <1>1, <2>1, <2>4, EndStays
  <2>5. CASE OffEnd(a, "down.end", "down.put")
    BY <1>1, <2>1, <2>5, EndStays
  <2> QED
    BY <1>4, <2>2, <2>3, <2>4, <2>5
<1>5. CASE PutPdo(a, "up.put", "up") \/ PutPdo(a, "down.put", "down")
  <2>1. /\ pc[a] \in Counting /\ pdo' = Deref(pdo, held[a]) /\ UNCHANGED table
        /\ \E l \in {"up", "down"} : Step(a, l, Null)
    BY <1>5 DEF PutPdo, NextTarget, Loop, Step, Counting
  <2>2. {"up", "down"} \cap (Counting \cup DestroyPcs) = {}
    BY DEF Counting, DestroyPcs, IrpPcs
  <2> QED
    BY <1>1, <2>1, <2>2, DropClass
<1>6. CASE UpFails(a)
  <2>1. /\ pc[a] \in Counting /\ UNCHANGED table /\ Step(a, "down", Null)
        /\ pdo' = Deref(PutPower(pdo, held[a], "D3"), held[a])
    BY <1>6 DEF UpFails, Loop, Step, OnFails, PutPower, Counting
  <2>2. held[a] \in Pdos /\ pdo[held[a]].refs > 0
    BY <1>1, <2>1, HeldFacts DEF CountsHeld
  <2>3. PICK f \in [Pdos -> PdoRecords] : f = PutPower(pdo, held[a], "D3")
    BY <1>1, <2>2, PowerEffect DEF OnlyAt
  <2>4. /\ OnlyAt(f, pdo, held[a]) /\ SameLife(f, pdo, held[a])
        /\ SameRefs(f, pdo, held[a]) /\ SamePnp(f, pdo, held[a])
    BY <1>1, <2>2, <2>3, PowerEffect
  <2>5. Alone(a) /\ pc'[a] = "down" /\ held'[a] = Null
    BY <1>1, <2>1 DEF Step, Go, Alone, ControlTypes
  <2>6. "down" \notin Counting \cup DestroyPcs
    BY DEF Counting, DestroyPcs, IrpPcs
  <2>7. Drops(a, held[a])
    BY <1>1, <2>1, <2>2, <2>3, <2>4, <2>5, <2>6, DerefEffect
       DEF Drops, OnlyAt, SameLife, SameRefs, SamePnp
  <2> QED
    BY <2>2, <2>7
<1> QED
  BY <1>2, <1>3, <1>4, <1>5, <1>6 DEF Power, SetSteps

\* ... destroying it: entering PdoDestroy from __FdoTerminate's loop,
Enters(a, p) ==
  /\ OnlyAt(pdo', pdo, p) /\ Alone(a) /\ UNCHANGED table /\ InTable(p)
  /\ pc[a] \notin Counting \cup DestroyPcs
  /\ pc'[a] = "unlink" /\ held'[a] = p /\ pdo'[p].pnp = "Deleted"
  /\ SameLife(pdo', pdo, p) /\ SameRefs(pdo', pdo, p)

\* taking it out of the table,
Unlinks(a) ==
  /\ UNCHANGED <<pdo, held>> /\ Alone(a)
  /\ pc[a] = "unlink" /\ pc'[a] = "destroy.off"
  /\ table' = [t \in Targets |-> IF table[t] = held[a] THEN Null ELSE table[t]]

\* dropping the initial reference,
DropsInitial(a, p) ==
  /\ OnlyAt(pdo', pdo, p) /\ Alone(a) /\ UNCHANGED <<table, held>>
  /\ held[a] = p /\ pc[a] = "drop" /\ pc'[a] = "wait"
  /\ SameLife(pdo', pdo, p) /\ SamePnp(pdo', pdo, p)
  /\ pdo'[p].refs = pdo[p].refs - 1
  /\ pdo'[p].removed <=> pdo[p].removed \/ pdo[p].refs = 1

\* and freeing its memory.
Frees(a, p) ==
  /\ OnlyAt(pdo', pdo, p) /\ Alone(a) /\ UNCHANGED table
  /\ held[a] = p /\ pc[a] = "wait" /\ pdo[p].refs = 0 /\ ~pdo'[p].live
  /\ pc'[a] \notin Counting \cup DestroyPcs /\ held'[a] = Null

\* PdoCreate.
Creates(t, p) ==
  /\ OnlyAt(pdo', pdo, p) /\ UNCHANGED held /\ \A a \in Actors : SamePlace(a)
  /\ ~pdo[p].live /\ table[t] = Null /\ table' = [table EXCEPT ![t] = p]
  /\ pdo'[p] = NewPdo(t)

\* FdoUnlinkPdo, the initial reference, and PdoFree of what PdoDestroy is called for.
LEMMA DestroyClass ==
  ASSUME TypeOK, Control, Live, CountsHeld, NEW a \in Enumerators, Destroy(a)
  PROVE  Stays \/ Unlinks(a) \/ \E p \in Pdos : DropsInitial(a, p) \/ Frees(a, p)
<1>1. a \in Actors /\ pdo \in [Pdos -> PdoRecords] /\ ControlTypes
  BY TypeParts DEF PdoTypes, Enumerators, Actors, Workers
<1>2. CASE Unlink(a)
  BY <1>1, <1>2 DEF Unlink, Unlinks, Alone, ControlTypes, Go
<1>3. CASE OffBegin(a, "destroy.off", "destroy.end", "drop")
  <2>1. {"destroy.off", "destroy.end", "drop"} \subseteq {"destroy.off", "destroy.end", "drop"}
    OBVIOUS
  <2> QED
    BY <1>1, <1>3, <2>1, TransitionStays
<1>4. CASE OffEnd(a, "destroy.end", "drop")
  BY <1>1, <1>4, EndStays
<1>5. CASE DropInitial(a)
  <2>1. held[a] \in Pdos /\ pdo[held[a]].refs > 0
    BY <1>1, <1>5, HeldFacts DEF DropInitial, CountsHeld, DestroyPcs
  <2>2. /\ Alone(a) /\ UNCHANGED <<table, held>> /\ pdo' = Deref(pdo, held[a])
        /\ pc[a] = "drop" /\ pc'[a] = "wait"
    BY <1>1, <1>5 DEF DropInitial, Alone, ControlTypes, Go
  <2> QED
    BY <1>1, <2>1, <2>2, DerefEffect DEF DropsInitial
<1>6. CASE Free(a)
  <2>1. held[a] \in Pdos
    BY <1>1, <1>6, HeldFacts DEF Free, DestroyPcs
  <2>2. CASE UNCHANGED <<pdo, actorVars>>
    BY <1>6, <2>2, QuietStays DEF Free, actorVars, SamePlace
  <2>3. CASE ~UNCHANGED <<pdo, actorVars>>
    <3>1. /\ pdo' = [pdo EXCEPT ![held[a]] = FreedPdo] /\ pc[a] = "wait" /\ UNCHANGED table
          /\ pdo[held[a]].refs = 0 /\ \E l \in {"sweep", "get"} : Step(a, l, Null)
      BY <1>6, <2>3 DEF Free, Own, NextTarget, Loop, Step
    <3>2. Alone(a) /\ held'[a] = Null /\ pc'[a] \notin Counting \cup DestroyPcs
      BY <1>1, <3>1 DEF Step, Go, Alone, ControlTypes, Counting, DestroyPcs, IrpPcs
    <3>3. FreedPdo \in PdoRecords /\ ~FreedPdo.live
      <4>1. NewPdo(0) \in PdoRecords
        BY LifecycleAssumption DEF NewPdo, PdoRecords, PnpStates, Targets, LifecycleAssumption
      <4>2. \A r \in PdoRecords :
              /\ [r EXCEPT !.live = FALSE] \in PdoRecords /\ [r EXCEPT !.refs = 0] \in PdoRecords
              /\ [r EXCEPT !.power = "D3"] \in PdoRecords
              /\ [r EXCEPT !.frontend = FALSE] \in PdoRecords
        BY DEF PdoRecords
      <4>3. FreedPdo = [[[[NewPdo(0) EXCEPT !.live = FALSE] EXCEPT !.refs = 0]
                            EXCEPT !.power = "D3"] EXCEPT !.frontend = FALSE]
        BY DEF FreedPdo
      <4> QED
        BY <4>1, <4>2, <4>3, ZenonT(60) DEF PdoRecords
    <3>4. OnlyAt(pdo', pdo, held[a]) /\ ~pdo'[held[a]].live
      BY <1>1, <2>1, <3>1, <3>3 DEF OnlyAt
    <3> QED
      BY <2>1, <3>1, <3>2, <3>4 DEF Frees
  <2> QED
    BY <2>2, <2>3
<1> QED
  BY <1>2, <1>3, <1>4, <1>5, <1>6 DEF Destroy

\* PdoCreate, in a free piece of memory.
LEMMA NewClass ==
  ASSUME TypeOK, Control, NEW a \in Enumerators, EnumNew(a)
  PROVE  \/ Stays /\ UNCHANGED <<table, pdo>>
         \/ \E t \in Targets, p \in Pdos : Creates(t, p)
<1>1. a \in Actors /\ pdo \in [Pdos -> PdoRecords] /\ ControlTypes
  BY TypeParts DEF PdoTypes, Enumerators, Actors, Workers
<1>2. pc[a] = "new" /\ Go(a, "new") /\ UNCHANGED held /\ at[a] \in Targets
  BY LoopTarget, <1>1 DEF EnumNew, Loop, InLoop
<1>3. \A b \in Actors : SamePlace(b)
  <2>1. {pc[a], "new"} \cap (Counting \cup DestroyPcs) = {}
    BY <1>2 DEF Counting, DestroyPcs, IrpPcs
  <2> QED
    BY <1>1, <1>2, <2>1, MoveSamePlace
<1>4. CASE UNCHANGED <<pdo, table>>
  BY <1>2, <1>3, <1>4, QuietStays
<1>5. CASE ~UNCHANGED <<pdo, table>>
  <2> DEFINE p == CHOOSE q \in FreeMemory : TRUE
  <2>1. /\ FreeMemory # {} /\ table[at[a]] = Null
        /\ pdo' = [pdo EXCEPT ![p] = NewPdo(at[a])] /\ LinkPdo(at[a], p)
    BY <1>5 DEF EnumNew
  <2>2. p \in FreeMemory
    BY <2>1
  <2> HIDE DEF p
  <2>3. p \in Pdos /\ ~pdo[p].live
    BY <2>2 DEF FreeMemory
  <2>4. NewPdo(at[a]) \in PdoRecords
    BY <1>2 DEF NewPdo, PdoRecords, PnpStates
  <2>5. OnlyAt(pdo', pdo, p) /\ pdo'[p] = NewPdo(at[a])
    BY <1>1, <2>1, <2>3, <2>4 DEF OnlyAt
  <2> QED
    BY <1>2, <1>3, <2>1, <2>3, <2>5 DEF Creates, LinkPdo
<1> QED
  BY <1>4, <1>5

\* IRPs to the device of a target.
LEMMA IrpClass ==
  ASSUME TypeOK, Control, Live, CountsHeld, RelationsEnd \/ Irp
  PROVE  Stays \/ \E p \in Pdos : Drops("pnp", p)
<1>1. "pnp" \in Actors /\ pdo \in [Pdos -> PdoRecords] /\ ControlTypes
  BY TypeParts DEF PdoTypes, Actors
<1>2. CASE RelationsEnd
  <2>1. {"relations", "idle"} \cap (Counting \cup DestroyPcs) = {}
    BY DEF Counting, DestroyPcs, IrpPcs
  <2>2. UNCHANGED <<table, pdo, held>> /\ pc["pnp"] = "relations" /\ Go("pnp", "idle")
    BY <1>2 DEF RelationsEnd
  <2> QED
    BY <1>1, <2>1, <2>2, MoveSamePlace, QuietStays
<1>3. CASE MapPdo
  <2>1. CASE UNCHANGED <<pdo, pc>>
    BY <1>3, <2>1, QuietStays DEF MapPdo, SamePlace
  <2>2. CASE Go("pnp", "irp.pass")
    <3>1. {"irp.map", "irp.pass"} \cap (Counting \cup DestroyPcs) = {} /\ pc["pnp"] = "irp.map"
      BY <1>3 DEF MapPdo, Counting, DestroyPcs, IrpPcs
    <3>2. \A b \in Actors : SamePlace(b)
      BY <1>1, <2>2, <3>1, MoveSamePlace
    <3>3. UNCHANGED <<table, held>>
      BY <1>3 DEF MapPdo
    <3>4. CASE UNCHANGED pdo
      BY <3>2, <3>3, <3>4, QuietStays
    <3>5. CASE ~UNCHANGED pdo
      <4>1. irp.t \in Targets /\ table[irp.t] # Null /\ pdo' = PutDevice(pdo, table[irp.t])
        BY <1>1, <1>3, <3>5 DEF MapPdo, PutDevice, ControlTypes, Irps
      <4>2. table[irp.t] \in Pdos
        BY <4>1, TableFacts
      <4> QED
        BY <1>1, <3>2, <3>3, <4>1, <4>2, DeviceEffect, StateStays DEF SamePnp
    <3> QED
      BY <3>4, <3>5
  <2> QED
    BY <1>3, <2>1, <2>2 DEF MapPdo
<1>4. ASSUME pc["pnp"] \in Counting, NEW l \in Counting, Go("pnp", l)
      PROVE  held["pnp"] \in Pdos /\ \A b \in Actors : SamePlace(b)
  <2>1. {pc["pnp"], l} \subseteq Counting
    BY <1>4
  <2> QED
    BY <1>1, <1>4, <2>1, MoveSamePlace, HeldFacts
<1>5. {"irp.pending", "irp.do", "irp.on", "irp.started", "irp.off", "irp.judge", "irp.delete",
       "irp.enumerate", "irp.put"} \subseteq Counting
  BY DEF Counting, IrpPcs
<1>6. CASE CheckEjectPending
  <2>1. /\ UNCHANGED <<table, held>> /\ pc["pnp"] = "irp.pending" /\ Go("pnp", "irp.do")
        /\ pdo' = PutNoEject(pdo, held["pnp"]) \/ UNCHANGED pdo
    BY <1>6 DEF CheckEjectPending, PutNoEject
  <2>2. held["pnp"] \in Pdos /\ \A b \in Actors : SamePlace(b)
    BY <1>4, <1>5, <2>1
  <2> QED
    BY <1>1, <2>1, <2>2, DeviceEffect, StateStays, QuietStays DEF SamePnp
<1>7. CASE SimpleIrp \/ StartEnd \/ RemoveKeeps \/ MarkDeleted
  <2>1. PICK s \in PnpStates, l \in Counting : SetPnp("pnp", s, l)
    BY <1>5, <1>7 DEF SimpleIrp, StartEnd, RemoveKeeps, MarkDeleted, StateOf, PnpStates
  <2>2. UNCHANGED <<table, held>> /\ pc["pnp"] \in Counting
    BY <1>5, <1>7 DEF SimpleIrp, StartEnd, RemoveKeeps, MarkDeleted
  <2>3. \A b \in Actors : SamePlace(b)
    BY <1>1, <1>4, <2>1, <2>2 DEF SetPnp, SamePlace
  <2> QED
    BY <1>1, <2>1, <2>2, <2>3, SetPnpStays
<1>8. CASE CancelIrp
  <2>1. UNCHANGED <<table, held>> /\ pc["pnp"] = "irp.do" /\ Go("pnp", "irp.put")
    BY <1>8 DEF CancelIrp
  <2>2. held["pnp"] \in Pdos /\ \A b \in Actors : SamePlace(b)
    BY <1>4, <1>5, <2>1
  <2>3. PICK s \in PnpStates : /\ pdo' = PutPnp(pdo, held["pnp"], s, "Present")
                               /\ pdo[held["pnp"]].pnp = "Deleted" => s = "Deleted"
    <3>1. pdo[held["pnp"]].pnp \in PnpStates /\ pdo[held["pnp"]].prev \in PnpStates
      BY <1>1, <2>2 DEF PdoRecords
    <3>2. PICK pending \in {"StopPending", "RemovePending"} :
            pdo' = [pdo EXCEPT ![held["pnp"]].pnp = IF @ = pending THEN pdo[held["pnp"]].prev ELSE @,
                               ![held["pnp"]].prev = "Present"]
      BY <1>8 DEF CancelIrp
    <3>3. CASE pdo[held["pnp"]].pnp = pending
      BY <3>1, <3>2, <3>3 DEF PutPnp
    <3>4. CASE pdo[held["pnp"]].pnp # pending
      BY <3>1, <3>2, <3>4 DEF PutPnp
    <3> QED
      BY <3>3, <3>4
  <2>4. "Present" \in PnpStates
    BY DEF PnpStates
  <2> QED
    BY <1>1, <2>1, <2>2, <2>3, <2>4, PnpEffect, StateStays
<1>9. CASE OtherIrp
  <2>1. UNCHANGED <<table, pdo, held>> /\ pc["pnp"] = "irp.do" /\ Go("pnp", "irp.put")
    BY <1>9 DEF OtherIrp
  <2> QED
    BY <1>4, <1>5, <2>1, QuietStays
<1>10. CASE StartBegin \/ RemoveBegin
  <2>1. {"irp.do", "irp.on", "irp.started"} \subseteq Counting /\ {"irp.do", "irp.off", "irp.judge"} \subseteq Counting
    BY <1>5
  <2>2. CASE StartBegin
    BY <1>1, <2>1, <2>2, TransitionStays DEF StartBegin
  <2>3. CASE RemoveBegin
    BY <1>1, <2>1, <2>3, TransitionStays DEF RemoveBegin
  <2> QED
    BY <1>10, <2>2, <2>3
<1>11. CASE OnEnd("pnp", "irp.on", "irp.started")
  <2>1. {"irp.on", "irp.started"} \subseteq Counting
    BY <1>5
  <2> QED
    BY <1>1, <1>11, <2>1, EndStays
<1>12. CASE OffEnd("pnp", "irp.off", "irp.judge")
  <2>1. {"irp.off", "irp.judge"} \subseteq Counting
    BY <1>5
  <2> QED
    BY <1>1, <1>12, <2>1, EndStays
<1>13. CASE StartFails
  <2>1. /\ UNCHANGED <<table, held>> /\ pc["pnp"] = "irp.on" /\ Go("pnp", "irp.started")
        /\ pdo' = PutPower(pdo, held["pnp"], "D3")
    BY <1>13 DEF StartFails, OnFails, PutPower
  <2>2. held["pnp"] \in Pdos /\ \A b \in Actors : SamePlace(b)
    BY <1>4, <1>5, <2>1
  <2> QED
    BY <1>1, <2>1, <2>2, PowerEffect, StateStays DEF SamePnp
<1>14. CASE RemoveJudge \/ EjectBegin
  <2>1. /\ UNCHANGED <<table, held>> /\ pc["pnp"] \in Counting /\ \E l \in Counting : Go("pnp", l)
        /\ pdo' = SetMissing(pdo, held["pnp"]) \/ UNCHANGED pdo
    BY <1>5, <1>14 DEF RemoveJudge, EjectBegin
  <2>2. held["pnp"] \in Pdos /\ \A b \in Actors : SamePlace(b)
    BY <1>4, <2>1
  <2> QED
    BY <1>1, <2>1, <2>2, MissingEffect, StateStays, QuietStays DEF SamePnp
<1>15. CASE IrpEnd
  <2>1. Step("pnp", "idle", Null) /\ UNCHANGED table /\ pc["pnp"] \in {"irp.put", "irp.pass"}
    BY <1>15 DEF IrpEnd
  <2>2. "idle" \notin Counting \cup DestroyPcs /\ "irp.pass" \notin Counting \cup DestroyPcs
    BY DEF Counting, DestroyPcs, IrpPcs
  <2>3. CASE pc["pnp"] = "irp.put"
    <3>1. pc["pnp"] \in Counting /\ held["pnp"] # Null
      BY <1>1, <1>5, <2>3 DEF Control, HeldMatch
    <3>2. pdo' = Deref(pdo, held["pnp"])
      BY <1>15, <3>1 DEF IrpEnd
    <3> QED
      BY <1>1, <2>1, <2>2, <3>1, <3>2, DropClass
  <2>4. CASE pc["pnp"] = "irp.pass"
    <3>1. held["pnp"] = Null
      BY <1>1, <2>2, <2>4 DEF Control, HeldMatch
    <3>2. UNCHANGED <<table, pdo, held>>
      BY <1>1, <1>15, <2>1, <3>1 DEF IrpEnd, Step, ControlTypes
    <3>3. {pc["pnp"], "idle"} \cap (Counting \cup DestroyPcs) = {} /\ Go("pnp", "idle")
      BY <2>1, <2>2, <2>4 DEF Step
    <3> QED
      BY <1>1, <3>2, <3>3, MoveSamePlace, QuietStays
  <2> QED
    BY <2>1, <2>3, <2>4
<1> QED
  BY <1>2, <1>3, <1>6, <1>7, <1>8, <1>9, <1>10, <1>11, <1>12, <1>13, <1>14, <1>15 DEF Irp

\* __FdoTerminate: what is left in the table is forced into Deleted.
LEMMA RemovalClass ==
  ASSUME TypeOK, Control, Live, Removal
  PROVE  Stays \/ \E p \in Pdos : Enters("pnp", p)
<1>1. "pnp" \in Actors /\ pdo \in [Pdos -> PdoRecords] /\ ControlTypes
  BY TypeParts DEF PdoTypes, Actors
<1>2. CASE Terminate \/ JoinSteps \/ Terminated
  <2>1. /\ UNCHANGED <<table, pdo, held>>
        /\ UNCHANGED pc \/ \E l : Go("pnp", l) /\ {pc["pnp"], l} \cap (Counting \cup DestroyPcs) = {}
    BY <1>2 DEF Terminate, JoinSteps, TerminateWait, AlertThread, JoinThread, Terminated, Loop,
       Counting, DestroyPcs, IrpPcs
  <2>2. \A b \in Actors : SamePlace(b)
    BY <1>1, <2>1, MoveSamePlace DEF SamePlace
  <2> QED
    BY <2>1, <2>2, QuietStays
<1>3. CASE Sweep
  <2>1. pc["pnp"] \notin Counting \cup DestroyPcs /\ held["pnp"] = Null
    BY <1>1, <1>3 DEF Sweep, Counting, DestroyPcs, IrpPcs, Control, HeldMatch
  <2>2. CASE table[at["pnp"]] = Null
    <3>1. Go("pnp", "sweep") /\ UNCHANGED <<table, pdo>> /\ held' = [held EXCEPT !["pnp"] = Null]
      BY <1>3, <2>2 DEF Sweep, NextTarget, Loop
    <3>2. {pc["pnp"], "sweep"} \cap (Counting \cup DestroyPcs) = {}
      BY <2>1, <1>3 DEF Sweep
    <3>3. UNCHANGED held
      BY <1>1, <2>1, <3>1 DEF ControlTypes
    <3> QED
      BY <1>1, <3>1, <3>2, <3>3, MoveSamePlace, QuietStays
  <2>3. CASE table[at["pnp"]] # Null
    <3>1. table[at["pnp"]] \in Pdos /\ InTable(table[at["pnp"]])
      BY <1>1, <1>3, <2>3, LoopTarget, TableFacts DEF Sweep, InLoop
    <3>2. /\ Step("pnp", "unlink", table[at["pnp"]]) /\ UNCHANGED table
          /\ pdo' = PutPnp(SetMissing(pdo, table[at["pnp"]]), table[at["pnp"]], "Deleted", "Present")
      BY <1>3, <2>3 DEF Sweep, PutPnp
    <3>3. PICK f \in [Pdos -> PdoRecords] : f = SetMissing(pdo, table[at["pnp"]])
      BY <1>1, <3>1, MissingEffect DEF OnlyAt
    <3>4. {"Deleted", "Present"} \subseteq PnpStates
      BY DEF PnpStates
    <3>5. /\ OnlyAt(pdo', pdo, table[at["pnp"]]) /\ SameLife(pdo', pdo, table[at["pnp"]])
          /\ SameRefs(pdo', pdo, table[at["pnp"]]) /\ pdo'[table[at["pnp"]]].pnp = "Deleted"
      BY <1>1, <3>1, <3>2, <3>3, <3>4, MissingEffect, PnpEffect DEF OnlyAt, SameLife, SameRefs
    <3>6. Alone("pnp") /\ pc'["pnp"] = "unlink" /\ held'["pnp"] = table[at["pnp"]]
      BY <1>1, <3>2 DEF Step, Go, Alone, ControlTypes
    <3> QED
      BY <2>1, <3>1, <3>2, <3>5, <3>6 DEF Enters
  <2> QED
    BY <2>2, <2>3
<1> QED
  BY <1>2, <1>3 DEF Removal, JoinSteps

\* What the managers begin.
LEMMA ManagersClass ==
  ASSUME TypeOK, Control, Live, Managers
  PROVE  Stays \/ \E p \in Pdos : Takes("pnp", p)
<1>1. "pnp" \in Actors /\ pdo \in [Pdos -> PdoRecords] /\ ControlTypes
  BY TypeParts DEF PdoTypes, Actors
<1>2. CASE QueryRelations \/ RemoveFdo \/ \E state \in {"D0", "D3"} : DispatchPower(state)
  <2>1. /\ UNCHANGED <<table, pdo, held>>
        /\ UNCHANGED pc \/ \E l : Go("pnp", l) /\ {pc["pnp"], l} \cap (Counting \cup DestroyPcs) = {}
    BY <1>2 DEF QueryRelations, RemoveFdo, DispatchPower, actorVars, Counting, DestroyPcs, IrpPcs
  <2>2. \A b \in Actors : SamePlace(b)
    BY <1>1, <2>1, MoveSamePlace DEF SamePlace
  <2> QED
    BY <2>1, <2>2, QuietStays
<1>3. CASE FindAdapter
  <2>1. irp.minor = "none" /\ ~fdo.linked
    BY <1>1, <1>3 DEF FindAdapter, Control, Places, LinkMatch, PnpPlaces, EnumPcs, DestroyPcs,
       UpPcs, DownPcs, DownLoop, IrpPcs, TermPcs
  <2>2. \A a \in Actors : pc[a] \notin Counting \cup DestroyPcs
    BY <1>3, <2>1 DEF FindAdapter, Control, LinkMatch, Actors, Workers, Counting, DestroyPcs, IrpPcs
  <2>3. UNCHANGED <<table, pdo, held>> /\ \A a \in Actors : pc'[a] \in {"up.set", "idle"}
    BY <1>3 DEF FindAdapter
  <2>4. \A a \in Actors : SamePlace(a)
    BY <2>2, <2>3 DEF SamePlace, Counting, DestroyPcs, IrpPcs
  <2> QED
    BY <2>3, <2>4, QuietStays
<1>4. ASSUME NEW m \in Minors, NEW t \in Targets, SendIrp(m, t)
      PROVE  Stays \/ \E p \in Pdos : Takes("pnp", p)
  <2>1. pc["pnp"] = "idle" /\ "idle" \notin Counting \cup DestroyPcs /\ UNCHANGED table
    BY <1>4 DEF SendIrp, Counting, DestroyPcs, IrpPcs
  <2>2. CASE table[t] # Null /\ pdo[table[t]].devobj
    <3>1. table[t] \in Pdos /\ InTable(table[t])
      BY <1>4, <2>2, TableFacts
    <3>2. pdo' = Ref(pdo, table[t]) /\ Step("pnp", "irp.pending", table[t])
      BY <1>4, <2>2 DEF SendIrp
    <3>3. /\ Alone("pnp") /\ pc'["pnp"] = "irp.pending" /\ held'["pnp"] = table[t]
          /\ "irp.pending" \in Counting
      BY <1>1, <3>2 DEF Step, Go, Alone, ControlTypes, Counting, IrpPcs
    <3> QED
      BY <1>1, <2>1, <3>1, <3>2, <3>3, RefEffect DEF Takes
  <2>3. CASE ~(table[t] # Null /\ pdo[table[t]].devobj)
    <3>1. /\ UNCHANGED <<table, pdo, held>>
          /\ \E l : Go("pnp", l) /\ {pc["pnp"], l} \cap (Counting \cup DestroyPcs) = {}
      BY <1>4, <2>3 DEF SendIrp, Counting, DestroyPcs, IrpPcs
    <3> QED
      BY <1>1, <3>1, MoveSamePlace, QuietStays
  <2> QED
    BY <2>2, <2>3
<1> QED
  BY <1>2, <1>3, <1>4 DEF Managers

\* FdoFrontend: of a PDO it says only that its device is to be ejected.
LEMMA PathsClass ==
  ASSUME TypeOK, PathsChanged
  PROVE  Stays
<1>1. "front" \in Actors /\ pdo \in [Pdos -> PdoRecords] /\ ControlTypes
  BY TypeParts DEF PdoTypes, Actors, Workers
<1>2. {"lock", "idle"} \cap (Counting \cup DestroyPcs) = {}
  BY DEF Counting, DestroyPcs, IrpPcs
<1>3. \A b \in Actors : SamePlace(b)
  BY <1>1, <1>2, MoveSamePlace DEF PathsChanged
<1>4. PICK gone : IssueDeviceEject(gone)
  BY DEF PathsChanged
<1>5. \A p \in Pdos : /\ pdo'[p] \in PdoRecords /\ pdo'[p].live = pdo[p].live /\ pdo'[p].target = pdo[p].target
                      /\ pdo'[p].refs = pdo[p].refs /\ pdo'[p].removed = pdo[p].removed
                      /\ pdo'[p].pnp = pdo[p].pnp
  <2> SUFFICES ASSUME NEW p \in Pdos
               PROVE  /\ pdo'[p] \in PdoRecords /\ pdo'[p].live = pdo[p].live /\ pdo'[p].target = pdo[p].target
                      /\ pdo'[p].refs = pdo[p].refs /\ pdo'[p].removed = pdo[p].removed
                      /\ pdo'[p].pnp = pdo[p].pnp
    OBVIOUS
  <2> DEFINE late == pdo[p].ejectPending \/ p \notin {q \in gone : pdo[q].devobj}
  <2>1. pdo'[p] = pdo[p] \/ pdo'[p] = [pdo[p] EXCEPT !.written = TRUE, !.ejectPending = late]
    BY <1>4 DEF IssueDeviceEject
  <2>2. late \in BOOLEAN
    BY <1>1 DEF PdoRecords
  <2> HIDE DEF late
  <2>3. \A r \in PdoRecords, b \in BOOLEAN : /\ [r EXCEPT !.written = TRUE] \in PdoRecords
                                             /\ [r EXCEPT !.ejectPending = b] \in PdoRecords
    BY DEF PdoRecords
  <2>4. [pdo[p] EXCEPT !.written = TRUE, !.ejectPending = late]
          = [[pdo[p] EXCEPT !.written = TRUE] EXCEPT !.ejectPending = late]
    OBVIOUS
  <2>5. pdo'[p] \in PdoRecords
    <3>1. PICK r \in PdoRecords : r = [pdo[p] EXCEPT !.written = TRUE]
      BY <1>1, <2>3
    <3>2. [r EXCEPT !.ejectPending = late] \in PdoRecords
      BY <2>2, <2>3
    <3> QED
      BY <1>1, <2>1, <2>4, <3>1, <3>2
  <2> QED
    BY <1>1, <2>1, <2>5 DEF PdoRecords
<1>6. DOMAIN pdo' = Pdos /\ pdo' = [p \in Pdos |-> pdo'[p]]
  BY <1>4 DEF IssueDeviceEject
<1> QED
  BY <1>3, <1>5, <1>6 DEF PathsChanged, Stays, SameCount, SameLife, SameRefs

\* FdoStartIo.
LEMMA IoClass ==
  ASSUME TypeOK, Control, Live, CountsHeld, IoEnd \/ \E t \in Targets : IoBegin(t)
  PROVE  \E p \in Pdos : Takes("io", p) \/ Drops("io", p)
<1>1. "io" \in Actors /\ pdo \in [Pdos -> PdoRecords] /\ ControlTypes
  BY TypeParts DEF PdoTypes, Actors
<1>2. "hold" \in Counting /\ "idle" \notin Counting \cup DestroyPcs
  BY DEF Counting, DestroyPcs, IrpPcs
<1>3. CASE IoEnd
  <2>1. Step("io", "idle", Null) /\ pdo' = Deref(pdo, held["io"]) /\ pc["io"] \in Counting /\ UNCHANGED table
    BY <1>2, <1>3 DEF IoEnd
  <2> QED
    BY <1>1, <1>2, <2>1, DropClass
<1>4. ASSUME NEW t \in Targets, IoBegin(t)
      PROVE  \E p \in Pdos : Takes("io", p)
  <2>1. table[t] \in Pdos /\ InTable(table[t])
    BY <1>4, TableFacts DEF IoBegin
  <2>2. pdo' = Ref(pdo, table[t]) /\ Step("io", "hold", table[t]) /\ pc["io"] = "idle" /\ UNCHANGED table
    BY <1>4 DEF IoBegin
  <2>3. Alone("io") /\ pc'["io"] = "hold" /\ held'["io"] = table[t]
    BY <1>1, <2>2 DEF Step, Go, Alone, ControlTypes
  <2> QED
    BY <1>1, <1>2, <2>1, <2>2, <2>3, RefEffect DEF Takes
<1> QED
  BY <1>3, <1>4

\* Steps that no PDO notices.
LEMMA OtherClass ==
  ASSUME TypeOK,
         \/ \E w \in Workers : Worker(w)
         \/ \E a \in Enumerators : LockFdo(a)
         \/ Notify \/ TakeIrp \/ Toolstack
  PROVE  Stays
<1>1. ControlTypes
  BY TypeParts
<1>2. UNCHANGED <<table, held>> /\ (UNCHANGED pdo \/ PostResume)
  BY DEF Worker, WaitEnds, ClearEvent, LockFdo, Notify, TakeIrp, Toolstack, Migrate, Plug, Unplug, Leave,
     actorVars
<1>3. \/ UNCHANGED pc
      \/ \E a \in Actors, l \in Asleep \cup {"take", "lock", "relations", "read", "up.set", "down.set"} :
           /\ Go(a, l)
           /\ pc[a] \in Asleep \cup {"take", "lock", "notify"}
  BY DEF Worker, WaitEnds, ClearEvent, LockFdo, Notify, TakeIrp, Toolstack, Migrate, Plug, Unplug, Leave,
     actorVars, Loop, Asleep, Actors, Workers, Enumerators
<1>4. (Asleep \cup {"take", "lock", "relations", "read", "up.set", "down.set", "notify"})
        \cap (Counting \cup DestroyPcs) = {}
  BY DEF Asleep, Counting, DestroyPcs, IrpPcs
<1>5. \A b \in Actors : SamePlace(b)
  <2>1. CASE UNCHANGED pc
    BY <2>1 DEF SamePlace
  <2>2. ASSUME NEW a \in Actors, NEW l, Go(a, l), {pc[a], l} \cap (Counting \cup DestroyPcs) = {}
        PROVE  \A b \in Actors : SamePlace(b)
    BY <2>2, MoveSamePlace
  <2>3. CASE \E a \in Actors, l \in Asleep \cup {"take", "lock", "relations", "read", "up.set", "down.set"} :
               Go(a, l) /\ pc[a] \in Asleep \cup {"take", "lock", "notify"}
    <3>1. PICK a \in Actors, l \in Asleep \cup {"take", "lock", "relations", "read", "up.set", "down.set"} :
            Go(a, l) /\ pc[a] \in Asleep \cup {"take", "lock", "notify"}
      BY <2>3
    <3>2. {pc[a], l} \cap (Counting \cup DestroyPcs) = {}
      BY <1>4, <3>1
    <3> QED
      BY <2>2, <3>1, <3>2
  <2> QED
    BY <1>3, <2>1, <2>3
<1> QED
  <2>1. CASE UNCHANGED pdo
    BY <1>2, <1>5, <2>1, QuietStays
  <2>2. CASE PostResume
    BY <1>2, <1>5, <2>2, TypeParts, ResumeEffect DEF PdoTypes, Stays, SameCount, SamePnp
  <2> QED
    BY <1>2, <2>1, <2>2

\* What any step is for the PDOs.
Moves ==
  \/ Stays
  \/ \E a \in Actors, p \in Pdos : \/ Takes(a, p) \/ Drops(a, p) \/ Enters(a, p)
                                   \/ DropsInitial(a, p) \/ Frees(a, p)
  \/ \E a \in Actors : Unlinks(a)
  \/ \E t \in Targets, p \in Pdos : Creates(t, p)
\* Every step of the system is of one of these classes.
LEMMA StepClass ==
  ASSUME TypeOK, Control, Live, CountsHeld, [Next]_vars
  PROVE  Moves
<1>1. Enumerators \subseteq Actors /\ Powerers \subseteq Actors /\ "pnp" \in Actors /\ "io" \in Actors
  BY DEF Enumerators, Powerers, Actors, Workers
<1>2. CASE UNCHANGED vars
  BY <1>2, QuietStays DEF Moves, vars, actorVars, SamePlace
<1>3. CASE \E a \in Actors : Running(a)
  <2>1. PICK a \in Actors : Running(a)
    BY <1>3
  <2>2. CASE a \in Workers /\ Worker(a)
    BY <2>2, OtherClass DEF Moves
  <2>3. CASE a \in Enumerators /\ Enumerate(a)
    BY <1>1, <2>3, EnumerateClass, NewClass DEF Moves
  <2>4. CASE a \in Enumerators /\ Destroy(a)
    BY <1>1, <2>4, DestroyClass DEF Moves
  <2>5. CASE a \in Powerers /\ Power(a)
    BY <1>1, <2>5, PowerClass DEF Moves
  <2>6. CASE Notify \/ TakeIrp
    BY <2>6, OtherClass DEF Moves
  <2>7. CASE RelationsEnd \/ Irp
    BY <1>1, <2>7, IrpClass DEF Moves
  <2>8. CASE Removal
    BY <1>1, <2>8, RemovalClass DEF Moves
  <2>9. CASE IoEnd
    BY <1>1, <2>9, IoClass DEF Moves
  <2> QED
    BY <2>1, <2>2, <2>3, <2>4, <2>5, <2>6, <2>7, <2>8, <2>9 DEF Running
<1>4. CASE (\E a \in Enumerators : LockFdo(a)) \/ Toolstack
  BY <1>4, OtherClass DEF Moves
<1>5. CASE PathsChanged
  BY <1>5, PathsClass DEF Moves
<1>6. CASE Managers
  BY <1>1, <1>6, ManagersClass DEF Moves
<1>7. CASE \E t \in Targets : IoBegin(t)
  BY <1>1, <1>7, IoClass DEF Moves
<1> QED
  BY <1>2, <1>3, <1>4, <1>5, <1>6, <1>7 DEF Next, Halted

-----------------------------------------------------------------------------
\* What the layers on PDOs are kept by.

\* There are five actors.
LEMMA ActorsFinite == IsFiniteSet(Actors)
<1>1. IsFiniteSet(Workers \cup {"pnp"})
  BY WorkersThree, FS_AddElement
<1>2. Actors = (Workers \cup {"pnp"}) \cup {"io"}
  BY DEF Actors
<1> QED
  BY <1>1, <1>2, FS_AddElement

\* Those who work on a PDO can be counted.
LEMMA HoldersCounted ==
  ASSUME NEW p \in Pdos
  PROVE  /\ IsFiniteSet(Holders(p)) /\ Cardinality(Holders(p)) \in Nat
         /\ Cardinality(Holders(p)) = 0 <=> Holders(p) = {}
<1>1. IsFiniteSet(Holders(p))
  BY ActorsFinite, FS_Subset DEF Holders
<1> QED
  BY <1>1, FS_CardinalityType, FS_EmptySet

\* One enumeration at a time destroys, and __FdoTerminate does when the threads are gone.
LEMMA OneDestroyer ==
  ASSUME Places, LinkMatch, LockMatch
  PROVE  \A a, b \in Actors : pc[a] \in DestroyPcs /\ pc[b] \in DestroyPcs => a = b
<1> SUFFICES ASSUME NEW a \in Actors, NEW b \in Actors, pc[a] \in DestroyPcs, pc[b] \in DestroyPcs
             PROVE  a = b
  OBVIOUS
<1>1. CASE HasLock(a) /\ HasLock(b)
  BY <1>1 DEF LockMatch
<1>2. CASE ~HasLock(a) \/ ~HasLock(b)
  <2>1. irp.minor = "remove" /\ pc["pnp"] \in DestroyPcs
    BY <1>2 DEF HasLock
  <2>2. \A w \in Workers : pc[w] = "dead"
    BY <2>1 DEF LinkMatch, Sweeping
  <2>3. a \notin Workers /\ b \notin Workers
    BY <2>2 DEF DestroyPcs
  <2>4. pc["io"] \notin DestroyPcs
    BY DEF Places, DestroyPcs
  <2> QED
    BY <2>3, <2>4 DEF Actors
<1> QED
  BY <1>1, <1>2

\* The same, after a step.
LEMMA OneDestroyed ==
  ASSUME Places', LinkMatch', LockMatch'
  PROVE  \A a, b \in Actors : pc'[a] \in DestroyPcs /\ pc'[b] \in DestroyPcs => a = b
<1> SUFFICES ASSUME NEW a \in Actors, NEW b \in Actors, pc'[a] \in DestroyPcs, pc'[b] \in DestroyPcs
             PROVE  a = b
  OBVIOUS
<1>1. CASE HasLock(a)' /\ HasLock(b)'
  BY <1>1 DEF LockMatch
<1>2. CASE ~HasLock(a)' \/ ~HasLock(b)'
  <2>1. irp'.minor = "remove" /\ pc'["pnp"] \in DestroyPcs
    BY <1>2 DEF HasLock
  <2>2. \A w \in Workers : pc'[w] = "dead"
    BY <2>1 DEF LinkMatch, Sweeping
  <2>3. a \notin Workers /\ b \notin Workers
    BY <2>2 DEF DestroyPcs
  <2>4. pc'["io"] \notin DestroyPcs
    BY DEF Places, DestroyPcs
  <2> QED
    BY <2>3, <2>4 DEF Actors
<1> QED
  BY <1>1, <1>2

\* The count of a PDO, but for the initial reference.
Initial(p) == IF \E a \in Destroyers(p) : pc[a] = "wait" THEN 0 ELSE 1

\* A PDO in the table has its initial reference, and so has one that is being dropped.
LEMMA InitialKept ==
  ASSUME DestroyMatch, NEW p \in Pdos,
         InTable(p) \/ \E a \in Actors : held[a] = p /\ pc[a] \in DestroyPcs \ {"wait"}
  PROVE  Initial(p) = 1
BY DEF DestroyMatch, Initial, Destroyers, DestroyPcs

\* References are counted: in other words.
LEMMA CountedParts ==
  /\ ReferencesCounted <=>
       \A p \in Pdos : pdo[p].live => /\ pdo[p].refs = Cardinality(Holders(p)) + Initial(p)
                                      /\ pdo[p].removed <=> pdo[p].refs = 0
  /\ ReferencesCounted' <=>
       \A p \in Pdos : pdo'[p].live => /\ pdo'[p].refs = Cardinality(Holders(p)') + Initial(p)'
                                       /\ pdo'[p].removed <=> pdo'[p].refs = 0
BY DEF ReferencesCounted, Initial

\* Whoever counts on a PDO has a reference to drop.
LEMMA HoldersHold ==
  ASSUME TypeOK, Control, Live, DestroyMatch, ReferencesCounted
  PROVE  CountsHeld
<1> SUFFICES ASSUME NEW a \in Actors, pc[a] \in Counting \cup {"drop"}
             PROVE  pdo[held[a]].refs > 0
  BY DEF CountsHeld
<1>1. held[a] \in Pdos /\ pdo[held[a]].live
  BY HeldFacts DEF DestroyPcs
<1>2. pdo[held[a]].refs = Cardinality(Holders(held[a])) + Initial(held[a])
  BY <1>1, CountedParts
<1>3. Cardinality(Holders(held[a])) \in Nat
  BY <1>1, HoldersCounted
<1>4. CASE pc[a] \in Counting
  <2>1. Holders(held[a]) # {}
    BY <1>4 DEF Holders
  <2>2. Cardinality(Holders(held[a])) > 0
    BY <1>1, <1>3, <2>1, HoldersCounted
  <2> QED
    BY <1>2, <1>3, <2>2 DEF Initial
<1>5. CASE pc[a] = "drop"
  <2>1. Initial(held[a]) = 1
    BY <1>1, <1>5, InitialKept DEF DestroyPcs
  <2> QED
    BY <1>2, <1>3, <2>1
<1> QED
  BY <1>4, <1>5

\* Who holds and who destroys a PDO, after a step that concerns others.
LEMMA SameHolders ==
  ASSUME NEW q, \A a \in Actors : \/ SamePlace(a) /\ held'[a] = held[a]
                                  \/ /\ held[a] # q \/ pc[a] \notin Counting \cup DestroyPcs
                                     /\ held'[a] # q \/ pc'[a] \notin Counting \cup DestroyPcs
  PROVE  Holders(q)' = Holders(q) /\ Destroyers(q)' = Destroyers(q) /\ Initial(q)' = Initial(q)
<1>1. Holders(q)' = Holders(q) /\ Destroyers(q)' = Destroyers(q)
  BY DEF Holders, Destroyers, SamePlace
<1>2. \A a \in Destroyers(q) : pc'[a] = "wait" <=> pc[a] = "wait"
  BY DEF Destroyers, SamePlace
<1> QED
  BY <1>1, <1>2 DEF Initial

\* The layers on PDOs, after a step that matters to none.
LEMMA StaysKeeps ==
  ASSUME TypeOK, Control, Live, DestroyMatch, ReferencesCounted, Stays
  PROVE  Live' /\ DestroyMatch' /\ ReferencesCounted'
<1>1. Live'
  BY TypeParts DEF PdoTypes, ControlTypes, Live, Stays, SameCount, SameLife
<1>2. DestroyMatch'
  <2>1. \A a \in Actors : pc[a] \in DestroyPcs => pdo'[held[a]].pnp = "Deleted"
    BY HeldFacts DEF DestroyMatch, Stays, SameCount
  <2> QED
    BY <2>1 DEF DestroyMatch, Stays, SamePlace, InTable
<1>3. ReferencesCounted'
  <2>1. \A q \in Pdos : Holders(q)' = Holders(q) /\ Initial(q)' = Initial(q)
    BY SameHolders DEF Stays
  <2> QED
    BY <2>1, CountedParts DEF Stays, SameCount, SameLife, SameRefs
<1> QED
  BY <1>1, <1>2, <1>3

\* ... by a reference taken on a PDO in the table.
LEMMA TakesKeeps ==
  ASSUME TypeOK, Control, Live, DestroyMatch, ReferencesCounted,
         NEW a \in Actors, NEW p \in Pdos, Takes(a, p)
  PROVE  Live' /\ DestroyMatch' /\ ReferencesCounted'
<1>1. pdo[p].live /\ pdo \in [Pdos -> PdoRecords] /\ ControlTypes
  BY TypeParts, LifecycleAssumption DEF PdoTypes, Takes, InTable, Live, LifecycleAssumption
<1>2. pc[a] \notin DestroyPcs /\ pc'[a] \notin DestroyPcs /\ pc'[a] # "unlink"
  BY DEF Takes, Counting, DestroyPcs, IrpPcs
<1>3. \A q \in Pdos : SameLife(pdo', pdo, q) /\ SamePnp(pdo', pdo, q)
  BY DEF Takes, OnlyAt, SameLife, SamePnp
<1>4. Live'
  BY <1>1, <1>3, TypeParts, SMTT(30) DEF PdoTypes, ControlTypes, Live, Takes, Alone, SameLife
<1>5. DestroyMatch'
  <2>1. \A b \in Actors : pc'[b] \in DestroyPcs => b # a /\ pc'[b] = pc[b] /\ held'[b] = held[b]
    BY <1>2 DEF Takes, Alone
  <2>2. \A b \in Actors : pc[b] \in DestroyPcs => pdo'[held[b]].pnp = "Deleted"
    BY <1>3, HeldFacts DEF DestroyMatch, SamePnp
  <2> QED
    BY <2>1, <2>2 DEF DestroyMatch, InTable, Takes
<1>6. ReferencesCounted'
  <2>1. \A q \in Pdos \ {p} : Holders(q)' = Holders(q) /\ Initial(q)' = Initial(q)
    BY SameHolders DEF Takes, Alone, SamePlace
  <2>2. Holders(p)' = Holders(p) \cup {a} /\ a \notin Holders(p)
    BY DEF Takes, Alone, Holders
  <2>3. Initial(p)' = 1
    <3>1. InTable(p)'
      BY DEF Takes, InTable
    <3> QED
      BY <1>5, <3>1 DEF DestroyMatch, Initial, Destroyers, DestroyPcs
  <2>4. Initial(p) = 1
    BY InitialKept DEF Takes
  <2>5. Cardinality(Holders(p)') = Cardinality(Holders(p)) + 1 /\ Cardinality(Holders(p)) \in Nat
    BY <2>2, HoldersCounted, FS_AddElement
  <2>6. pdo'[p].refs = Cardinality(Holders(p)') + Initial(p)' /\ (pdo'[p].removed <=> pdo'[p].refs = 0)
    <3>1. pdo[p].refs = Cardinality(Holders(p)) + 1 /\ ~pdo[p].removed
      BY <1>1, <2>4, <2>5, CountedParts
    <3> QED
      BY <2>3, <2>5, <3>1 DEF Takes
  <2>7. \A q \in Pdos \ {p} : pdo'[q] = pdo[q]
    BY DEF Takes, OnlyAt
  <2> QED
    BY <2>1, <2>6, <2>7, CountedParts
<1> QED
  BY <1>4, <1>5, <1>6

\* ... by a reference dropped.
LEMMA DropsKeeps ==
  ASSUME TypeOK, Control, Control', Live, DestroyMatch, ReferencesCounted,
         NEW a \in Actors, NEW p \in Pdos, Drops(a, p)
  PROVE  Live' /\ DestroyMatch' /\ ReferencesCounted'
<1>1. pdo[p].live /\ pdo \in [Pdos -> PdoRecords] /\ ControlTypes
  BY TypeParts, HeldFacts DEF PdoTypes, Drops
<1>2. pc[a] \notin DestroyPcs
  BY DEF Drops, Counting, DestroyPcs, IrpPcs
<1>3. \A q \in Pdos : SameLife(pdo', pdo, q) /\ SamePnp(pdo', pdo, q)
  BY DEF Drops, OnlyAt, SameLife, SamePnp
<1>4. Live'
  BY <1>1, <1>3, TypeParts DEF PdoTypes, ControlTypes, Live, Drops, Alone, SameLife
<1>5. DestroyMatch'
  <2>1. \A b, c \in Actors : pc'[b] \in DestroyPcs /\ pc'[c] \in DestroyPcs => b = c
    BY OneDestroyed DEF Control
  <2>2. \A b \in Actors \ {a} : pc[b] \in DestroyPcs => pdo'[held[b]].pnp = "Deleted"
    BY <1>3, HeldFacts DEF DestroyMatch, SamePnp
  <2>3. pc'[a] \in DestroyPcs => pc'[a] = "unlink" /\ pdo'[held'[a]].pnp = "Deleted"
    BY DEF Drops
  <2> QED
    BY <2>1, <2>2, <2>3 DEF DestroyMatch, InTable, Drops, Alone
<1>6. ReferencesCounted'
  <2>1. \A q \in Pdos \ {p} : Holders(q)' = Holders(q) /\ Initial(q)' = Initial(q)
    BY SameHolders, <1>1, TypeParts, LifecycleAssumption DEF Drops, Alone, SamePlace, LifecycleAssumption
  <2>2. Holders(p)' = Holders(p) \ {a} /\ a \in Holders(p)
    BY DEF Drops, Alone, Holders, Counting, DestroyPcs, IrpPcs
  <2>3. Initial(p)' = Initial(p)
    <3>1. \A b \in Actors : b \in Destroyers(p)' /\ pc'[b] = "wait" <=> b \in Destroyers(p) /\ pc[b] = "wait"
      BY <1>2 DEF Drops, Alone, Destroyers, DestroyPcs
    <3> QED
      BY <3>1 DEF Initial, Destroyers
  <2>4. Cardinality(Holders(p)') = Cardinality(Holders(p)) - 1 /\ Cardinality(Holders(p)) \in Nat
    BY <2>2, HoldersCounted, FS_RemoveElement
  <2>5. Initial(p) \in {0, 1} /\ Cardinality(Holders(p)) # 0
    BY <2>2, HoldersCounted DEF Initial
  <2>6. pdo'[p].refs = Cardinality(Holders(p)') + Initial(p)' /\ (pdo'[p].removed <=> pdo'[p].refs = 0)
    <3>1. pdo[p].refs = Cardinality(Holders(p)) + Initial(p) /\ ~pdo[p].removed
      BY <1>1, <2>4, <2>5, CountedParts
    <3> QED
      BY <2>3, <2>4, <2>5, <3>1 DEF Drops
  <2>7. \A q \in Pdos \ {p} : pdo'[q] = pdo[q]
    BY DEF Drops, OnlyAt
  <2> QED
    BY <2>1, <2>6, <2>7, CountedParts
<1> QED
  BY <1>4, <1>5, <1>6

\* ... by a PDO forced into Deleted, to be destroyed.
LEMMA EntersKeeps ==
  ASSUME TypeOK, Control, Control', Live, DestroyMatch, ReferencesCounted,
         NEW a \in Actors, NEW p \in Pdos, Enters(a, p)
  PROVE  Live' /\ DestroyMatch' /\ ReferencesCounted'
<1>1. pdo[p].live /\ pdo \in [Pdos -> PdoRecords] /\ ControlTypes
  BY TypeParts, LifecycleAssumption DEF PdoTypes, Enters, InTable, Live, LifecycleAssumption
<1>2. \A q \in Pdos : /\ SameLife(pdo', pdo, q) /\ SameRefs(pdo', pdo, q)
                      /\ pdo[q].pnp = "Deleted" => pdo'[q].pnp = "Deleted"
  BY DEF Enters, OnlyAt, SameLife, SameRefs
<1>3. Live'
  BY <1>1, <1>2, TypeParts DEF PdoTypes, ControlTypes, Live, Enters, Alone, SameLife
<1>4. DestroyMatch'
  <2>1. \A b, c \in Actors : pc'[b] \in DestroyPcs /\ pc'[c] \in DestroyPcs => b = c
    BY OneDestroyed DEF Control
  <2>2. \A b \in Actors \ {a} : pc[b] \in DestroyPcs => pdo'[held[b]].pnp = "Deleted"
    BY <1>2, HeldFacts DEF DestroyMatch
  <2>3. pc'[a] = "unlink" /\ pdo'[held'[a]].pnp = "Deleted"
    BY DEF Enters
  <2> QED
    BY <2>1, <2>2, <2>3 DEF DestroyMatch, InTable, Enters, Alone
<1>5. ReferencesCounted'
  <2>1. \A q \in Pdos : Holders(q)' = Holders(q)
    BY DEF Enters, Alone, Holders, Counting, DestroyPcs, IrpPcs
  <2>2. \A q \in Pdos : Initial(q)' = Initial(q)
    <3>1. \A q \in Pdos, b \in Actors :
            b \in Destroyers(q)' /\ pc'[b] = "wait" <=> b \in Destroyers(q) /\ pc[b] = "wait"
      BY DEF Enters, Alone, Destroyers, DestroyPcs
    <3> QED
      BY <3>1 DEF Initial, Destroyers
  <2> QED
    BY <1>2, <2>1, <2>2, CountedParts DEF SameLife, SameRefs
<1> QED
  BY <1>3, <1>4, <1>5

\* ... by a PDO taken out of the table.
LEMMA UnlinksKeeps ==
  ASSUME TypeOK, Control, Live, DestroyMatch, ReferencesCounted, NEW a \in Actors, Unlinks(a)
  PROVE  Live' /\ DestroyMatch' /\ ReferencesCounted'
<1>1. \A t \in Targets : table'[t] = IF table[t] = held[a] THEN Null ELSE table[t]
  BY DEF Unlinks
<1>2. Live'
  BY <1>1 DEF Live, Unlinks
<1>3. DestroyMatch'
  <2>1. ~InTable(held[a])'
    <3>1. held[a] # Null
      BY HeldFacts, LifecycleAssumption DEF Unlinks, DestroyPcs, LifecycleAssumption
    <3> QED
      BY <1>1, <3>1 DEF InTable, Unlinks
  <2>2. \A b \in Actors : pc'[b] \in DestroyPcs <=> pc[b] \in DestroyPcs
    BY DEF Unlinks, Alone, DestroyPcs
  <2>3. \A b \in Actors \ {a} : pc[b] \notin DestroyPcs
    BY DEF DestroyMatch, Unlinks, DestroyPcs
  <2> QED
    BY <2>1, <2>2, <2>3 DEF DestroyMatch, Unlinks
<1>4. ReferencesCounted'
  <2>1. \A q \in Pdos : Holders(q)' = Holders(q)
    BY DEF Unlinks, Alone, Holders, Counting, DestroyPcs, IrpPcs
  <2>2. \A q \in Pdos : Initial(q)' = Initial(q)
    <3>1. \A q \in Pdos, b \in Actors :
            b \in Destroyers(q)' /\ pc'[b] = "wait" <=> b \in Destroyers(q) /\ pc[b] = "wait"
      BY DEF Unlinks, Alone, Destroyers, DestroyPcs
    <3> QED
      BY <3>1 DEF Initial, Destroyers
  <2> QED
    BY <2>1, <2>2, CountedParts DEF Unlinks
<1> QED
  BY <1>2, <1>3, <1>4

\* ... by the initial reference dropped.
LEMMA DropsInitialKeeps ==
  ASSUME TypeOK, Control, Live, DestroyMatch, ReferencesCounted,
         NEW a \in Actors, NEW p \in Pdos, DropsInitial(a, p)
  PROVE  Live' /\ DestroyMatch' /\ ReferencesCounted'
<1>1. pdo[p].live /\ pdo \in [Pdos -> PdoRecords] /\ ControlTypes
  BY TypeParts, HeldFacts DEF PdoTypes, DropsInitial, DestroyPcs
<1>2. \A q \in Pdos : SameLife(pdo', pdo, q) /\ SamePnp(pdo', pdo, q)
  BY DEF DropsInitial, OnlyAt, SameLife, SamePnp
<1>3. Live'
  BY <1>1, <1>2, TypeParts DEF PdoTypes, ControlTypes, Live, DropsInitial, SameLife
<1>4. DestroyMatch'
  <2>1. \A b \in Actors : /\ pc'[b] \in DestroyPcs <=> pc[b] \in DestroyPcs
                          /\ pc'[b] # "unlink" => pc[b] # "unlink"
    BY DEF DropsInitial, Alone, DestroyPcs
  <2>2. \A b \in Actors : pc[b] \in DestroyPcs => pdo'[held[b]].pnp = "Deleted"
    BY <1>2, HeldFacts DEF DestroyMatch, SamePnp
  <2> QED
    BY <2>1, <2>2 DEF DestroyMatch, InTable, DropsInitial
<1>5. ReferencesCounted'
  <2>1. \A q \in Pdos \ {p} : Holders(q)' = Holders(q) /\ Initial(q)' = Initial(q)
    BY SameHolders DEF DropsInitial, Alone, SamePlace
  <2>2. Holders(p)' = Holders(p)
    BY DEF DropsInitial, Alone, Holders, Counting, DestroyPcs, IrpPcs
  <2>3. Initial(p)' = 0
    BY DEF DropsInitial, Initial, Destroyers, DestroyPcs
  <2>4. Initial(p) = 1
    BY InitialKept DEF DropsInitial, DestroyPcs
  <2>5. Cardinality(Holders(p)) \in Nat
    BY HoldersCounted
  <2>6. pdo'[p].refs = Cardinality(Holders(p)') + Initial(p)' /\ (pdo'[p].removed <=> pdo'[p].refs = 0)
    <3>1. pdo[p].refs = Cardinality(Holders(p)) + 1 /\ ~pdo[p].removed
      BY <1>1, <2>4, <2>5, CountedParts
    <3> QED
      BY <2>2, <2>3, <2>5, <3>1 DEF DropsInitial
  <2>7. \A q \in Pdos \ {p} : pdo'[q] = pdo[q]
    BY DEF DropsInitial, OnlyAt
  <2> QED
    BY <2>1, <2>6, <2>7, CountedParts
<1> QED
  BY <1>3, <1>4, <1>5

\* ... by the memory of a PDO freed, to which nothing leads any more.
LEMMA FreesKeeps ==
  ASSUME TypeOK, Control, Live, DestroyMatch, ReferencesCounted,
         NEW a \in Actors, NEW p \in Pdos, Frees(a, p)
  PROVE  Live' /\ DestroyMatch' /\ ReferencesCounted'
<1>1. pdo[p].live /\ pdo \in [Pdos -> PdoRecords] /\ ControlTypes
  BY TypeParts, HeldFacts DEF PdoTypes, Frees, DestroyPcs
<1>2. pc[a] \in DestroyPcs /\ pc[a] # "unlink" /\ a \in Destroyers(p) /\ pc[a] \notin Counting
  BY DEF Frees, DestroyPcs, Destroyers, Counting, IrpPcs
<1>3. \A t \in Targets : table[t] # p
  BY <1>2 DEF DestroyMatch, InTable, Frees
<1>4. Holders(p) = {}
  <2>1. Initial(p) = 0
    BY <1>2 DEF Initial, Frees
  <2>2. Cardinality(Holders(p)) = 0
    BY <1>1, <2>1, CountedParts, HoldersCounted DEF Frees
  <2> QED
    BY <2>2, HoldersCounted
<1>5. \A b \in Actors \ {a} : held[b] # p /\ pc[b] \notin DestroyPcs
  <2> SUFFICES ASSUME NEW b \in Actors \ {a}
               PROVE  held[b] # p /\ pc[b] \notin DestroyPcs
    OBVIOUS
  <2>1. pc[b] \notin DestroyPcs
    BY <1>2 DEF DestroyMatch
  <2>2. held[b] = p => pc[b] \in Counting
    BY <2>1, LifecycleAssumption DEF Control, HeldMatch, LifecycleAssumption
  <2> QED
    BY <1>4, <2>1, <2>2 DEF Holders
<1>6. \A q \in Pdos \ {p} : pdo'[q] = pdo[q]
  BY DEF Frees, OnlyAt
<1>7. \A b \in Actors \ {a} : pc'[b] = pc[b] /\ held'[b] = held[b]
  BY DEF Frees, Alone
<1>8. Live'
  <2>1. \A t \in Targets : table[t] # Null => table[t] \in Pdos
    BY TableFacts
  <2>2. \A b \in Actors : held[b] # Null => held[b] \in Pdos
    BY <1>1 DEF ControlTypes
  <2> QED
    BY <1>3, <1>5, <1>6, <1>7, <2>1, <2>2 DEF Live, Frees
<1>9. DestroyMatch'
  BY <1>5, <1>7 DEF DestroyMatch, Frees
<1>10. ReferencesCounted'
  <2>1. \A q \in Pdos \ {p} : Holders(q)' = Holders(q) /\ Initial(q)' = Initial(q)
    BY <1>1, SameHolders, LifecycleAssumption DEF Frees, Alone, SamePlace, LifecycleAssumption
  <2> QED
    BY <1>6, <2>1, CountedParts DEF Frees
<1> QED
  BY <1>8, <1>9, <1>10

\* ... by a new PDO.
LEMMA CreatesKeeps ==
  ASSUME TypeOK, Control, Live, DestroyMatch, ReferencesCounted,
         NEW t \in Targets, NEW p \in Pdos, Creates(t, p)
  PROVE  Live' /\ DestroyMatch' /\ ReferencesCounted'
<1>1. pdo \in [Pdos -> PdoRecords] /\ ControlTypes /\ table \in [Targets -> Pdos \cup {Null}]
  BY TypeParts DEF PdoTypes
<1>2. \A b \in Actors : held[b] # p
  BY LifecycleAssumption DEF Live, Creates, LifecycleAssumption
<1>3. /\ \A q \in Pdos \ {p} : pdo'[q] = pdo[q]
      /\ pdo'[p].live /\ pdo'[p].target = t /\ pdo'[p].refs = 1 /\ ~pdo'[p].removed
  BY DEF Creates, OnlyAt, NewPdo
<1>4. \A u \in Targets : table[u] # p
  BY LifecycleAssumption DEF Live, Creates, LifecycleAssumption
<1>5. table'[t] = p /\ \A u \in Targets \ {t} : table'[u] = table[u]
  BY <1>1 DEF Creates
<1>6. \A b \in Actors : held'[b] = held[b] /\ (held[b] # Null => held[b] \in Pdos \ {p})
  BY <1>1, <1>2 DEF Creates, ControlTypes
<1>7. Live'
  <2>1. \A u \in Targets : table[u] # Null => table[u] \in Pdos \ {p}
    BY <1>1, <1>4
  <2>2. \A u \in Targets : table'[u] # Null => pdo'[table'[u]].live /\ pdo'[table'[u]].target = u
    BY <1>3, <1>5, <2>1 DEF Live
  <2> QED
    BY <1>3, <1>6, <2>2 DEF Live
<1>8. DestroyMatch'
  <2>1. \A b \in Actors : pc[b] \in DestroyPcs => held[b] \in Pdos \ {p}
    BY <1>2, HeldFacts
  <2>2. \A b \in Actors : pc[b] \in DestroyPcs => (InTable(held[b])' <=> InTable(held[b]))
    BY <1>2, <1>5, <1>6, <2>1, LifecycleAssumption DEF InTable, Creates, LifecycleAssumption
  <2>3. \A b \in Actors : pc[b] \in DestroyPcs => pdo'[held[b]].pnp = "Deleted"
    BY <1>3, <2>1 DEF DestroyMatch
  <2> QED
    BY <1>6, <2>2, <2>3 DEF DestroyMatch, Creates, SamePlace
<1>9. ReferencesCounted'
  <2>1. \A q \in Pdos : Holders(q)' = Holders(q) /\ Initial(q)' = Initial(q)
    BY SameHolders DEF Creates
  <2>2. Holders(p) = {} /\ Initial(p) = 1
    BY <1>2 DEF Holders, Initial, Destroyers
  <2>3. Cardinality(Holders(p)) = 0
    BY <2>2, HoldersCounted
  <2>4. pdo'[p].refs = Cardinality(Holders(p)') + Initial(p)' /\ (pdo'[p].removed <=> pdo'[p].refs = 0)
    BY <1>3, <2>1, <2>2, <2>3
  <2> QED
    BY <1>3, <2>1, <2>4, CountedParts
<1> QED
  BY <1>7, <1>8, <1>9

\* Any step keeps them.
LEMMA MovesKeep ==
  ASSUME TypeOK, Control, Control', Live, DestroyMatch, ReferencesCounted, Moves
  PROVE  Live' /\ DestroyMatch' /\ ReferencesCounted'
<1>1. CASE Stays
  BY <1>1, StaysKeeps
<1>2. CASE \E a \in Actors, p \in Pdos : Takes(a, p)
  BY <1>2, TakesKeeps
<1>3. CASE \E a \in Actors, p \in Pdos : Drops(a, p)
  BY <1>3, DropsKeeps
<1>4. CASE \E a \in Actors, p \in Pdos : Enters(a, p)
  BY <1>4, EntersKeeps
<1>5. CASE \E a \in Actors, p \in Pdos : DropsInitial(a, p)
  BY <1>5, DropsInitialKeeps
<1>6. CASE \E a \in Actors, p \in Pdos : Frees(a, p)
  BY <1>6, FreesKeeps
<1>7. CASE \E a \in Actors : Unlinks(a)
  BY <1>7, UnlinksKeeps
<1>8. CASE \E t \in Targets, p \in Pdos : Creates(t, p)
  BY <1>8, CreatesKeeps
<1> QED
  BY <1>1, <1>2, <1>3, <1>4, <1>5, <1>6, <1>7, <1>8 DEF Moves

-----------------------------------------------------------------------------
\* Types.

ThreadTypes == [Workers -> [event : BOOLEAN, alerted : BOOLEAN]]
FdoTypes == [linked : BOOLEAN, refs : Nat, removed : BOOLEAN, power : {"D0", "D3"},
          locked : BOOLEAN, acquired : BOOLEAN, watched : BOOLEAN]

\* What is done to an event, and to the FDO.
LEMMA WakeEffect ==
  ASSUME thread \in ThreadTypes, NEW w \in Workers
  PROVE  /\ [thread EXCEPT ![w].event = TRUE] \in ThreadTypes
         /\ [thread EXCEPT ![w].event = FALSE] \in ThreadTypes
         /\ [thread EXCEPT ![w] = [event |-> TRUE, alerted |-> TRUE]] \in ThreadTypes
BY DEF ThreadTypes
\* The FDO stays a record of its type through every assignment to a field of it.
LEMMA FdoEffect ==
  ASSUME fdo \in FdoTypes
  PROVE  /\ \A b \in BOOLEAN : /\ [fdo EXCEPT !.locked = b] \in FdoTypes
                               /\ [fdo EXCEPT !.acquired = b] \in FdoTypes
                               /\ [fdo EXCEPT !.watched = b] \in FdoTypes
         /\ \A s \in {"D0", "D3"} : [fdo EXCEPT !.power = s] \in FdoTypes
         /\ RefFdo(fdo) \in FdoTypes
         /\ fdo.refs > 0 => /\ DerefFdo(fdo) \in FdoTypes
                            /\ [DerefFdo(fdo) EXCEPT !.linked = FALSE] \in FdoTypes
<1>1. \A f \in FdoTypes : /\ \A b \in BOOLEAN : /\ [f EXCEPT !.locked = b] \in FdoTypes
                                             /\ [f EXCEPT !.acquired = b] \in FdoTypes
                                             /\ [f EXCEPT !.watched = b] \in FdoTypes
                                             /\ [f EXCEPT !.removed = b] \in FdoTypes
                                             /\ [f EXCEPT !.linked = b] \in FdoTypes
                         /\ \A s \in {"D0", "D3"} : [f EXCEPT !.power = s] \in FdoTypes
                         /\ \A n \in Nat : [f EXCEPT !.refs = n] \in FdoTypes
  BY DEF FdoTypes
<1>2. fdo.refs + 1 \in Nat /\ (fdo.refs > 0 => fdo.refs - 1 \in Nat)
  BY DEF FdoTypes
<1>3. RefFdo(fdo) \in FdoTypes
  BY <1>1, <1>2 DEF RefFdo
<1>4. ASSUME fdo.refs > 0
      PROVE  DerefFdo(fdo) \in FdoTypes
  <2> DEFINE r == fdo.removed \/ fdo.refs = 1
  <2>1. r \in BOOLEAN
    OBVIOUS
  <2>2. PICK n \in Nat : n = fdo.refs - 1
    BY <1>2, <1>4
  <2>3. DerefFdo(fdo) = [fdo EXCEPT !.refs = n, !.removed = r]
    BY <2>2 DEF DerefFdo
  <2> HIDE DEF r
  <2>4. PICK f \in FdoTypes : f = [fdo EXCEPT !.refs = n]
    BY <1>1
  <2>5. [f EXCEPT !.removed = r] \in FdoTypes
    BY <1>1, <2>1
  <2>6. [fdo EXCEPT !.refs = n, !.removed = r] = [[fdo EXCEPT !.refs = n] EXCEPT !.removed = r]
    OBVIOUS
  <2> QED
    BY <2>3, <2>4, <2>5, <2>6
<1> QED
  BY <1>1, <1>3, <1>4

\* A reference that is counted can be dropped.
LEMMA FdoReferenced ==
  ASSUME TypeOK, Control,
         \/ irp.minor = "relations" \/ (irp.minor = "remove" /\ pc["pnp"] \in DownPcs)
         \/ Busy \/ fdo.linked
  PROVE  fdo.refs > 0
BY DEF Control, FdoCounted, One

\* What the steps do to the threads and to the FDO.
ThreadStep ==
  \/ UNCHANGED thread \/ thread' = [w \in Workers |-> NoThread]
  \/ \E w \in Workers : \/ thread' = [thread EXCEPT ![w].event = TRUE]
                        \/ thread' = [thread EXCEPT ![w].event = FALSE]
                        \/ thread' = [thread EXCEPT ![w] = [event |-> TRUE, alerted |-> TRUE]]
FdoStep ==
  \/ UNCHANGED fdo \/ fdo' = NoFdo \/ fdo' = [NoFdo EXCEPT !.linked = TRUE, !.refs = 1]
  \/ \E b \in BOOLEAN : \/ fdo' = [fdo EXCEPT !.locked = b]
                        \/ fdo' = [fdo EXCEPT !.acquired = b]
                        \/ fdo' = [fdo EXCEPT !.watched = b]
  \/ \E s \in {"D0", "D3"} : fdo' = [fdo EXCEPT !.power = s]
  \/ fdo' = RefFdo(fdo)
  \/ fdo.refs > 0 /\ (fdo' = DerefFdo(fdo) \/ fdo' = [DerefFdo(fdo) EXCEPT !.linked = FALSE])
\* Most steps leave XenStore, the PnP manager and StorPort's list alone.
LEMMA OtherKept ==
  ASSUME OtherTypes, busChange' \in BOOLEAN,
         UNCHANGED <<device, hidden, leaving, listed, inval, node, reported, asked, bug>>
  PROVE  OtherTypes'
BY DEF OtherTypes
\* The threads keep their type ...
LEMMA ThreadStepTypes ==
  ASSUME ControlTypes, ThreadStep
  PROVE  thread' \in ThreadTypes
<1>1. thread \in ThreadTypes
  BY DEF ControlTypes, ThreadTypes
<1>2. [w \in Workers |-> NoThread] \in ThreadTypes
  BY DEF ThreadTypes, NoThread
<1> QED
  BY <1>1, <1>2, WakeEffect DEF ThreadStep
\* ... and so does the FDO.
LEMMA FdoStepTypes ==
  ASSUME ControlTypes, FdoStep
  PROVE  fdo' \in FdoTypes
<1>1. fdo \in FdoTypes
  BY DEF ControlTypes, FdoTypes
<1>2. NoFdo \in FdoTypes /\ [NoFdo EXCEPT !.linked = TRUE, !.refs = 1] \in FdoTypes
  BY DEF FdoTypes, NoFdo
<1> QED
  BY <1>1, <1>2, FdoEffect DEF FdoStep

\* A worker thread wakes up, or ends.
LEMMA WorkerTypes ==
  ASSUME TypeOK, Control, NEW a \in Workers, Worker(a)
  PROVE  ControlTypes' /\ OtherTypes'
<1>1. ControlTypes /\ PdoTypes /\ OtherTypes
  BY TypeParts
<1> USE LifecycleAssumption DEF LifecycleAssumption, WaitEnds, ClearEvent, Worker,
   Enumerators, Actors, Workers, Powerers, storeVars, actorVars, scanVars, pnpVars, InLoop,
   Loop, NextTarget, Step, Go, Own
<1>2. pc' \in [Actors -> Pcs]
  BY <1>1 DEF ControlTypes, Pcs, Places, PnpPlaces, EnumPcs, DestroyPcs, IrpPcs, UpPcs,
     DownLoop, DownPcs, TermPcs, Asleep, PowerPcs
<1>3. at' \in [Actors -> 0 .. NumTargets + 3]
  BY <1>1 DEF ControlTypes, Control, HeldMatch, BodyPcs, DestroyPcs
<1>4. held' \in [Actors -> Pdos \cup {Null}]
  BY <1>1 DEF ControlTypes, PdoTypes, Targets, Control, HeldMatch, BodyPcs, DestroyPcs
<1>5. (irp \in Irps /\ powerIrp \in {"None", "D0", "D3"})'
  BY <1>1 DEF ControlTypes, Irps, Minors, Targets
<1>6. ThreadStep
  BY DEF ThreadStep
<1>7. FdoStep
  BY DEF FdoStep
<1>8. OtherTypes'
  BY <1>1 DEF OtherTypes, ControlTypes, PdoTypes, Targets, Nodes, NodeAfter, Irps
<1> QED
  BY <1>1, <1>2, <1>3, <1>4, <1>5, <1>6, <1>7, <1>8, ThreadStepTypes, FdoStepTypes
     DEF ControlTypes, ThreadTypes, FdoTypes

\* Fdo->Lock is taken only when nobody has it.
LEMMA LockTypes ==
  ASSUME TypeOK, Control, NEW a \in Enumerators, LockFdo(a)
  PROVE  ControlTypes' /\ OtherTypes'
<1>1. ControlTypes /\ PdoTypes /\ OtherTypes
  BY TypeParts
<1> USE LifecycleAssumption DEF LifecycleAssumption, LockFdo, Enumerators, Actors, Workers,
   Powerers, storeVars, actorVars, scanVars, pnpVars, InLoop, Loop, NextTarget, Step, Go,
   Own
<1>2. pc' \in [Actors -> Pcs]
  BY <1>1 DEF ControlTypes, Pcs, Places, PnpPlaces, EnumPcs, DestroyPcs, IrpPcs, UpPcs,
     DownLoop, DownPcs, TermPcs, Asleep, PowerPcs
<1>3. at' \in [Actors -> 0 .. NumTargets + 3]
  BY <1>1 DEF ControlTypes, Control, HeldMatch, BodyPcs, DestroyPcs
<1>4. held' \in [Actors -> Pdos \cup {Null}]
  BY <1>1 DEF ControlTypes, PdoTypes, Targets, Control, HeldMatch, BodyPcs, DestroyPcs
<1>5. (irp \in Irps /\ powerIrp \in {"None", "D0", "D3"})'
  BY <1>1 DEF ControlTypes, Irps, Minors, Targets
<1>6. ThreadStep
  BY DEF ThreadStep
<1>7. FdoStep
  BY DEF FdoStep
<1>8. OtherTypes'
  BY <1>1 DEF OtherTypes, ControlTypes, PdoTypes, Targets, Nodes, NodeAfter, Irps
<1> QED
  BY <1>1, <1>2, <1>3, <1>4, <1>5, <1>6, <1>7, <1>8, ThreadStepTypes, FdoStepTypes
     DEF ControlTypes, ThreadTypes, FdoTypes

\* An enumeration, which has Fdo->Lock.
LEMMA EnumerateTypes ==
  ASSUME TypeOK, Control, NEW a \in Enumerators, Enumerate(a)
  PROVE  ControlTypes' /\ OtherTypes'
<1>1. ControlTypes /\ PdoTypes /\ OtherTypes
  BY TypeParts
<1> USE LifecycleAssumption DEF LifecycleAssumption, ReadDirectory, EnumGet, EnumPresent,
   EnumDelete, SetPnp, EnumJudge, EnumNew, Wake, EnumEnds, UnlockFdo, Enumerate,
   Enumerators, Actors, Workers, Powerers, storeVars, actorVars, scanVars, pnpVars, InLoop,
   Loop, NextTarget, Step, Go, Own
<1>2. pc' \in [Actors -> Pcs]
  BY <1>1 DEF ControlTypes, Pcs, Places, PnpPlaces, EnumPcs, DestroyPcs, IrpPcs, UpPcs,
     DownLoop, DownPcs, TermPcs, Asleep, PowerPcs
<1>3. at' \in [Actors -> 0 .. NumTargets + 3]
  BY <1>1 DEF ControlTypes, Control, HeldMatch, BodyPcs, DestroyPcs
<1>4. held' \in [Actors -> Pdos \cup {Null}]
  BY <1>1 DEF ControlTypes, PdoTypes, Targets, Control, HeldMatch, BodyPcs, DestroyPcs
<1>5. (irp \in Irps /\ powerIrp \in {"None", "D0", "D3"})'
  BY <1>1 DEF ControlTypes, Irps, Minors, Targets
<1>6. ThreadStep
  BY DEF ThreadStep
<1>7. FdoStep
  BY DEF FdoStep
<1>8. OtherTypes'
  BY <1>1 DEF OtherTypes, ControlTypes, PdoTypes, Targets, Nodes, NodeAfter, Irps
<1> QED
  BY <1>1, <1>2, <1>3, <1>4, <1>5, <1>6, <1>7, <1>8, ThreadStepTypes, FdoStepTypes
     DEF ControlTypes, ThreadTypes, FdoTypes

\* PdoDestroy, up to the memory being freed.
LEMMA DestroyTypes ==
  ASSUME TypeOK, Control, NEW a \in Enumerators, Destroy(a)
  PROVE  ControlTypes' /\ OtherTypes'
<1>1. ControlTypes /\ PdoTypes /\ OtherTypes
  BY TypeParts
<1> USE LifecycleAssumption DEF LifecycleAssumption, Unlink, OffBegin, OffEnd, DropInitial,
   Free, Destroy, Enumerators, Actors, Workers, Powerers, storeVars, actorVars, scanVars,
   pnpVars, InLoop, Loop, NextTarget, Step, Go, Own
<1>2. pc' \in [Actors -> Pcs]
  BY <1>1 DEF ControlTypes, Pcs, Places, PnpPlaces, EnumPcs, DestroyPcs, IrpPcs, UpPcs,
     DownLoop, DownPcs, TermPcs, Asleep, PowerPcs
<1>3. at' \in [Actors -> 0 .. NumTargets + 3]
  BY <1>1 DEF ControlTypes, Control, HeldMatch, BodyPcs, DestroyPcs
<1>4. held' \in [Actors -> Pdos \cup {Null}]
  BY <1>1 DEF ControlTypes, PdoTypes, Targets, Control, HeldMatch, BodyPcs, DestroyPcs
<1>5. (irp \in Irps /\ powerIrp \in {"None", "D0", "D3"})'
  BY <1>1 DEF ControlTypes, Irps, Minors, Targets
<1>6. ThreadStep
  BY DEF ThreadStep
<1>7. FdoStep
  BY DEF FdoStep
<1>8. OtherTypes'
  BY <1>1 DEF OtherTypes, ControlTypes, PdoTypes, Targets, Nodes, NodeAfter, Irps
<1> QED
  BY <1>1, <1>2, <1>3, <1>4, <1>5, <1>6, <1>7, <1>8, ThreadStepTypes, FdoStepTypes
     DEF ControlTypes, ThreadTypes, FdoTypes

\* A transition of the FDO, by DevicePowerThread or by the PnP thread.
LEMMA PowerTypes ==
  ASSUME TypeOK, Control, NEW a \in Powerers, Power(a)
  PROVE  ControlTypes' /\ OtherTypes'
<1>1. ControlTypes /\ PdoTypes /\ OtherTypes
  BY TypeParts
<1> USE LifecycleAssumption DEF LifecycleAssumption, UpSet, SetPower, DownSet, Settle,
   Acquire, UpGet, GetPdo, OnBegin, OnEnd, Wake, UpFails, PutPdo, WatchDevices,
   UnwatchDevices, DownGet, OffBegin, OffEnd, ReleaseInterfaces, Finish, NoIrp, Power,
   Enumerators, Actors, Workers, Powerers, storeVars, actorVars, scanVars, pnpVars, InLoop,
   Loop, NextTarget, Step, Go, Own
<1>2. pc' \in [Actors -> Pcs]
  BY <1>1 DEF ControlTypes, Pcs, Places, PnpPlaces, EnumPcs, DestroyPcs, IrpPcs, UpPcs,
     DownLoop, DownPcs, TermPcs, Asleep, PowerPcs
<1>3. at' \in [Actors -> 0 .. NumTargets + 3]
  BY <1>1, SMTT(30) DEF ControlTypes, Control, HeldMatch, BodyPcs, DestroyPcs
<1>4. held' \in [Actors -> Pdos \cup {Null}]
  BY <1>1, SMTT(30) DEF ControlTypes, PdoTypes, Targets, Control, HeldMatch, BodyPcs, DestroyPcs
<1>5. (irp \in Irps /\ powerIrp \in {"None", "D0", "D3"})'
  BY <1>1 DEF ControlTypes, Irps, Minors, Targets
<1>6. ThreadStep
  BY DEF ThreadStep
<1>7. FdoStep
  <2>1. CASE Finish(a)
    <3>1. fdo' = fdo \/ fdo' = DerefFdo(fdo)
      BY <2>1
    <3>2. pc[a] = "finish"
      BY <2>1
    <3>3. CASE a = "power"
      BY <3>1, <3>2, <3>3, FdoReferenced DEF FdoStep, Busy, PowerPcs
    <3>4. CASE a = "pnp"
      <4>1. irp.minor \in {"add", "remove"}
        BY <3>2, <3>4 DEF Control, 
         Places, PnpPlaces, EnumPcs, DestroyPcs, IrpPcs, UpPcs,
         DownLoop, DownPcs, TermPcs, Asleep, PowerPcs
      <4>2. fdo.linked
        BY <3>2, <3>4, <4>1 DEF Control, LinkMatch, DownPcs
      <4> QED
        BY <3>1, <4>2, FdoReferenced DEF FdoStep
    <3> QED
      BY <3>3, <3>4
  <2>2. CASE ~Finish(a)
    BY <2>2 DEF FdoStep
  <2> QED
    BY <2>1, <2>2
<1>8. OtherTypes'
  BY <1>1 DEF OtherTypes, ControlTypes, PdoTypes, Targets, Nodes, NodeAfter, Irps
<1> QED
  BY <1>1, <1>2, <1>3, <1>4, <1>5, <1>6, <1>7, <1>8, ThreadStepTypes, FdoStepTypes
     DEF ControlTypes, ThreadTypes, FdoTypes

\* IRPs of the PnP thread, to the FDO and to the devices of targets.
LEMMA IrpTypes ==
  ASSUME TypeOK, Control, RelationsEnd \/ Irp
  PROVE  ControlTypes' /\ OtherTypes'
<1>1. ControlTypes /\ PdoTypes /\ OtherTypes
  BY TypeParts
<1> USE LifecycleAssumption DEF LifecycleAssumption, RelationsEnd, NoIrp, MapPdo,
   CheckEjectPending, SimpleIrp, SetPnp, StateOf, CancelIrp, OtherIrp, StartBegin, OnBegin,
   OnEnd, Wake, StartFails, StartEnd, RemoveBegin, OffBegin, OffEnd, RemoveJudge,
   RemoveKeeps, EjectBegin, MarkDeleted, IrpEnd, Irp, Enumerators, Actors, Workers,
   Powerers, storeVars, actorVars, scanVars, pnpVars, InLoop, Loop, NextTarget, Step, Go,
   Own
<1>2. pc' \in [Actors -> Pcs]
  BY <1>1 DEF ControlTypes, Pcs, Places, PnpPlaces, EnumPcs, DestroyPcs, IrpPcs, UpPcs,
     DownLoop, DownPcs, TermPcs, Asleep, PowerPcs
<1>3. at' \in [Actors -> 0 .. NumTargets + 3]
  BY <1>1 DEF ControlTypes, Control, HeldMatch, BodyPcs, DestroyPcs
<1>4. held' \in [Actors -> Pdos \cup {Null}]
  BY <1>1 DEF ControlTypes, PdoTypes, Targets, Control, HeldMatch, BodyPcs, DestroyPcs
<1>5. (irp \in Irps /\ powerIrp \in {"None", "D0", "D3"})'
  BY <1>1 DEF ControlTypes, Irps, Minors, Targets
<1>6. ThreadStep
  BY DEF ThreadStep
<1>7. FdoStep
  <2>1. CASE RelationsEnd
    <3>1. irp.minor \in {"relations", "none"}
      BY <2>1 DEF Control, 
         Places, PnpPlaces, EnumPcs, DestroyPcs, IrpPcs, UpPcs,
         DownLoop, DownPcs, TermPcs, Asleep, PowerPcs
    <3>2. irp.minor = "relations"
      BY <2>1, <3>1 DEF Control, Places, PnpPlaces
    <3> QED
      BY <2>1, <3>2, FdoReferenced DEF FdoStep
  <2>2. CASE ~RelationsEnd
    BY <2>2 DEF FdoStep
  <2> QED
    BY <2>1, <2>2
<1>8. OtherTypes'
  <2>1. irp.t \in Targets
    BY <1>1 DEF ControlTypes, Irps
  <2>2. /\ (device \subseteq Targets /\ hidden \subseteq Targets /\ leaving \subseteq Targets)'
        /\ (listed \subseteq Targets /\ inval \in BOOLEAN)'
        /\ (reported \subseteq Targets /\ busChange \in BOOLEAN)'
    BY <1>1, <2>1 DEF OtherTypes
  <2>3. asked' \subseteq Targets
    BY <1>1, <2>1 DEF OtherTypes
  <2>4. node' \in [Targets -> Nodes]
    <3>1. NodeAfter(irp.minor, irp.t) \in Nodes /\ "new" \in Nodes
      BY DEF NodeAfter, Nodes
    <3>2. \/ UNCHANGED node
          \/ node' = [node EXCEPT ![irp.t] = NodeAfter(irp.minor, irp.t)]
          \/ \E found : node' = [t \in Targets |-> IF node[t] = "none" /\ t \in found THEN "new" ELSE node[t]]
      OBVIOUS
    <3> QED
      BY <1>1, <3>1, <3>2 DEF OtherTypes
  <2>5. bug' \in {bug, "PnpState", "DeviceObject"}
    OBVIOUS
  <2> QED
    BY <1>1, <2>2, <2>3, <2>4, <2>5 DEF OtherTypes
<1> QED
  BY <1>1, <1>2, <1>3, <1>4, <1>5, <1>6, <1>7, <1>8, ThreadStepTypes, FdoStepTypes
     DEF ControlTypes, ThreadTypes, FdoTypes

\* __FdoTerminate.
LEMMA RemovalTypes ==
  ASSUME TypeOK, Control, Removal
  PROVE  ControlTypes' /\ OtherTypes'
<1>1. ControlTypes /\ PdoTypes /\ OtherTypes
  BY TypeParts
<1> USE LifecycleAssumption DEF LifecycleAssumption, Terminate, TerminateWait, AlertThread,
   Joined, JoinThread, Sweep, Terminated, NoFdo, NoIrp, Removal, Enumerators, Actors,
   Workers, Powerers, storeVars, actorVars, scanVars, pnpVars, InLoop, Loop, NextTarget,
   Step, Go, Own
<1>2. pc' \in [Actors -> Pcs]
  BY <1>1 DEF ControlTypes, Pcs, Places, PnpPlaces, EnumPcs, DestroyPcs, IrpPcs, UpPcs,
     DownLoop, DownPcs, TermPcs, Asleep, PowerPcs
<1>3. at' \in [Actors -> 0 .. NumTargets + 3]
  BY <1>1 DEF ControlTypes, Control, HeldMatch, BodyPcs, DestroyPcs
<1>4. held' \in [Actors -> Pdos \cup {Null}]
  BY <1>1 DEF ControlTypes, PdoTypes, Targets, Control, HeldMatch, BodyPcs, DestroyPcs
<1>5. (irp \in Irps /\ powerIrp \in {"None", "D0", "D3"})'
  BY <1>1 DEF ControlTypes, Irps, Minors, Targets
<1>6. ThreadStep
  <2>1. CASE AlertThread
    <3>1. Joined \in Workers
      BY <1>1, <2>1 DEF ControlTypes, Control, HeldMatch
    <3> QED
      BY <2>1, <3>1 DEF ThreadStep
  <2>2. CASE ~AlertThread
    BY <2>2 DEF ThreadStep
  <2> QED
    BY <2>1, <2>2
<1>7. FdoStep
  <2>1. CASE Terminate
    <3>1. fdo.linked
      BY <2>1 DEF Control, LinkMatch,
         Places, PnpPlaces, EnumPcs, DestroyPcs, IrpPcs, UpPcs,
         DownLoop, DownPcs, TermPcs, Asleep, PowerPcs
    <3> QED
      BY <2>1, <3>1, FdoReferenced DEF FdoStep
  <2>2. CASE ~Terminate
    BY <2>2 DEF FdoStep
  <2> QED
    BY <2>1, <2>2
<1>8. OtherTypes'
  BY <1>1 DEF OtherTypes, ControlTypes, PdoTypes, Targets, Nodes, NodeAfter, Irps
<1> QED
  BY <1>1, <1>2, <1>3, <1>4, <1>5, <1>6, <1>7, <1>8, ThreadStepTypes, FdoStepTypes
     DEF ControlTypes, ThreadTypes, FdoTypes

\* What the PnP and power managers begin.
LEMMA ManagersTypes ==
  ASSUME TypeOK, Control, Managers
  PROVE  ControlTypes' /\ OtherTypes'
<1>1. ControlTypes /\ PdoTypes /\ OtherTypes
  BY TypeParts
<1> USE LifecycleAssumption DEF LifecycleAssumption, QueryRelations, SendIrp, MaySend,
   Quiet, Minors, FindAdapter, NoFdo, NoThread, RemoveFdo, DispatchPower, Wake, Managers,
   Enumerators, Actors, Workers, Powerers, storeVars, actorVars, scanVars, pnpVars, InLoop,
   Loop, NextTarget, Step, Go, Own
<1>2. pc' \in [Actors -> Pcs]
  BY <1>1, SMTT(30) DEF ControlTypes, Pcs, Places, PnpPlaces, EnumPcs, DestroyPcs, IrpPcs, UpPcs,
     DownLoop, DownPcs, TermPcs, Asleep, PowerPcs
<1>3. at' \in [Actors -> 0 .. NumTargets + 3]
  BY <1>1 DEF ControlTypes, Control, HeldMatch, BodyPcs, DestroyPcs
<1>4. held' \in [Actors -> Pdos \cup {Null}]
  <2>1. held' = held \/ \E t \in Targets : table[t] # Null /\ held' = [held EXCEPT !["pnp"] = table[t]]
    <3>1. CASE \E m \in Minors, t \in Targets : SendIrp(m, t)
      <4>1. PICK m \in Minors, t \in Targets : SendIrp(m, t)
        BY <3>1
      <4> QED
        BY <4>1
    <3>2. CASE ~(\E m \in Minors, t \in Targets : SendIrp(m, t))
      BY <3>2
    <3> QED
      BY <3>1, <3>2
  <2> QED
    BY <1>1, <2>1 DEF ControlTypes, PdoTypes
<1>5. (irp \in Irps /\ powerIrp \in {"None", "D0", "D3"})'
  BY <1>1 DEF ControlTypes, Irps, Minors, Targets
<1>6. ThreadStep
  BY DEF ThreadStep
<1>7. FdoStep
  BY DEF FdoStep
<1>8. OtherTypes'
  <2>1. UNCHANGED <<device, hidden, leaving, listed, inval, node, reported, asked, bug>>
    OBVIOUS
  <2>2. busChange' \in BOOLEAN
    BY <1>1 DEF OtherTypes
  <2> QED
    BY <1>1, <2>1, <2>2, OtherKept
<1> QED
  BY <1>1, <1>2, <1>3, <1>4, <1>5, <1>6, <1>7, <1>8, ThreadStepTypes, FdoStepTypes
     DEF ControlTypes, ThreadTypes, FdoTypes

\* Steps with little control: the watches, SRBs and the toolstack.
LEMMA OthersTypes ==
  ASSUME TypeOK, Control, \/ Notify \/ TakeIrp \/ PathsChanged \/ Toolstack \/ IoEnd
         \/ (\E t \in Targets : IoBegin(t)) \/ UNCHANGED vars
  PROVE  ControlTypes' /\ OtherTypes'
<1>1. ControlTypes /\ PdoTypes /\ OtherTypes
  BY TypeParts
<1> USE LifecycleAssumption DEF LifecycleAssumption, Notify, TakeIrp, PathsChanged,
   Toolstack, Migrate, Rewatch, Plug, Unplug, Leave, DirectoryChanged, Wake, IoEnd, IoBegin,
   vars, Enumerators, Actors, Workers, Powerers, storeVars, actorVars, scanVars, pnpVars,
   InLoop, Loop, NextTarget, Step, Go, Own
<1>2. pc' \in [Actors -> Pcs]
  BY <1>1 DEF ControlTypes, Pcs, Places, PnpPlaces, EnumPcs, DestroyPcs, IrpPcs, UpPcs,
     DownLoop, DownPcs, TermPcs, Asleep, PowerPcs
<1>3. at' \in [Actors -> 0 .. NumTargets + 3]
  BY <1>1 DEF ControlTypes, Control, HeldMatch, BodyPcs, DestroyPcs
<1>4. held' \in [Actors -> Pdos \cup {Null}]
  BY <1>1 DEF ControlTypes, PdoTypes, Targets, Control, HeldMatch, BodyPcs, DestroyPcs
<1>5. (irp \in Irps /\ powerIrp \in {"None", "D0", "D3"})'
  BY <1>1 DEF ControlTypes, Irps, Minors, Targets
<1>6. ThreadStep
  BY DEF ThreadStep
<1>7. FdoStep
  BY DEF FdoStep
<1>8. OtherTypes'
  <2>1. CASE PathsChanged
    <3>1. PICK gone \in SUBSET Pdos : IssueDeviceEject(gone)
      BY <1>1, <2>1, LifecycleAssumption DEF PdoTypes, Watched, LifecycleAssumption
    <3>2. \A p \in gone : pdo[p].target \in Targets
      BY <1>1, <3>1 DEF PdoTypes, PdoRecords
    <3>3. hidden' \subseteq Targets /\ asked' \subseteq Targets
      <4>1. hidden' = hidden \cup {pdo[p].target : p \in {q \in gone : ~pdo[q].written}}
        BY <3>1 DEF IssueDeviceEject
      <4>2. asked' = asked \cup {pdo[p].target : p \in {q \in gone : pdo[q].devobj}}
        BY <3>1 DEF IssueDeviceEject
      <4>3. hidden \subseteq Targets /\ asked \subseteq Targets
        BY <1>1 DEF OtherTypes
      <4> HIDE DEF IssueDeviceEject, PathsChanged
      <4>4. hidden' \subseteq Targets
        BY <3>2, <4>1, <4>3
      <4> QED
        BY <3>2, <4>2, <4>3, <4>4
    <3>4. busChange' \in BOOLEAN
      BY <3>1 DEF IssueDeviceEject
    <3> QED
      BY <1>1, <2>1, <3>3, <3>4 DEF OtherTypes
  <2>2. CASE ~PathsChanged
    BY <1>1, <2>2 DEF OtherTypes
  <2> QED
    BY <2>1, <2>2
<1> QED
  BY <1>1, <1>2, <1>3, <1>4, <1>5, <1>6, <1>7, <1>8, ThreadStepTypes, FdoStepTypes
     DEF ControlTypes, ThreadTypes, FdoTypes

-----------------------------------------------------------------------------
\* No ASSERT fails, and no device is mapped twice.

NoNewDevice == \A q \in Pdos : pdo'[q].devobj => pdo[q].devobj
\* No step but irp.map maps a device.
LEMMA MapKept ==
  ASSUME TypeOK, MapMatch, UNCHANGED irp, pc'["pnp"] = pc["pnp"], NoNewDevice,
         \A t \in Targets : \/ table'[t] \in {table[t], Null}
                            \/ table'[t] \in Pdos /\ ~pdo'[table'[t]].devobj
  PROVE  MapMatch'
BY TypeParts DEF ControlTypes, PdoTypes, Irps, MapMatch, NoNewDevice

\* What a step can do to a PDO without mapping its device.
Touches(p) ==
  \/ UNCHANGED pdo
  \/ pdo' = Ref(pdo, p) \/ pdo' = Deref(pdo, p)
  \/ pdo' = SetMissing(Ref(pdo, p), p)
  \/ pdo' = PutPower(pdo, p, "D0") \/ pdo' = PutPower(pdo, p, "D3")
  \/ pdo' = PutFrontend(pdo, p, TRUE) \/ pdo' = PutFrontend(pdo, p, FALSE)
  \/ pdo' = Deref(PutPower(pdo, p, "D3"), p)
  \/ \E s, r : pdo' = PutPnp(pdo, p, s, r)
\* None of these sets the DEVICE_OBJECT of a PDO.
LEMMA TouchesMapNone ==
  ASSUME pdo \in [Pdos -> PdoRecords], NEW p, Touches(p)
  PROVE  NoNewDevice
<1> SUFFICES ASSUME NEW q \in Pdos
             PROVE  pdo'[q].devobj = pdo[q].devobj
  BY DEF NoNewDevice
<1> USE DEF PdoRecords
<1>1. CASE UNCHANGED pdo
  BY <1>1
<1>2. CASE pdo' = Ref(pdo, p) \/ pdo' = Deref(pdo, p)
  BY <1>2 DEF Ref, Deref
<1>3. CASE pdo' = SetMissing(Ref(pdo, p), p)
  BY <1>3 DEF Ref, SetMissing
<1>4. CASE pdo' = PutPower(pdo, p, "D0") \/ pdo' = PutPower(pdo, p, "D3")
  BY <1>4 DEF PutPower
<1>5. CASE pdo' = PutFrontend(pdo, p, TRUE) \/ pdo' = PutFrontend(pdo, p, FALSE)
  BY <1>5 DEF PutFrontend
<1>6. CASE pdo' = Deref(PutPower(pdo, p, "D3"), p)
  BY <1>6 DEF Deref, PutPower
<1>7. ASSUME NEW s, NEW r, pdo' = PutPnp(pdo, p, s, r)
      PROVE  pdo'[q].devobj = pdo[q].devobj
  BY <1>7 DEF PutPnp
<1> QED
  BY <1>1, <1>2, <1>3, <1>4, <1>5, <1>6, <1>7 DEF Touches

\* A worker thread wakes up, or ends.
LEMMA WorkerAsserts ==
  ASSUME LInv, NEW a \in Workers, Worker(a)
  PROVE  MapMatch' /\ AssertsHold'
<1>1. ControlTypes /\ table \in [Targets -> Pdos \cup {Null}] /\ pdo \in [Pdos -> PdoRecords]
  BY TypeParts DEF PdoTypes, LInv
<1> USE DEF LInv, WaitEnds, ClearEvent, Worker, Enumerators, Actors, Workers, Powerers,
   storeVars, actorVars, scanVars, pnpVars, InLoop, Loop, NextTarget, Step, Go, Own
<1>2. MapMatch'
  BY <1>1, LifecycleAssumption DEF MapMatch, Live, ControlTypes, Control, PdoRecords, Irps,
     LifecycleAssumption, Ref, Deref, SetMissing, OnFails, Pending, NewPdo, FreedPdo,
     LinkPdo, GetPdo, FreeMemory, IssueDeviceEject, HeldMatch, LinkMatch, Places, PnpPlaces,
     EnumPcs, DestroyPcs, IrpPcs, UpPcs, DownLoop, DownPcs, TermPcs, Asleep, PowerPcs
<1>3. AssertsHold'
  BY <1>1 DEF AssertsHold, ControlTypes, Control, LinkMatch, BusyMatch, MapMatch,
     FdoCounted, DestroyMatch, ReferencesCounted, Live, HeldMatch, Irps, Places, PnpPlaces,
     EnumPcs, DestroyPcs, IrpPcs, UpPcs, DownLoop, DownPcs, TermPcs, Asleep, PowerPcs
<1> QED
  BY <1>2, <1>3

\* Fdo->Lock is taken only when nobody has it.
LEMMA LockAsserts ==
  ASSUME LInv, NEW a \in Enumerators, LockFdo(a)
  PROVE  MapMatch' /\ AssertsHold'
<1>1. ControlTypes /\ table \in [Targets -> Pdos \cup {Null}] /\ pdo \in [Pdos -> PdoRecords]
  BY TypeParts DEF PdoTypes, LInv
<1> USE DEF LInv, LockFdo, Enumerators, Actors, Workers, Powerers, storeVars, actorVars,
   scanVars, pnpVars, InLoop, Loop, NextTarget, Step, Go, Own
<1>2. MapMatch'
  BY <1>1, LifecycleAssumption DEF MapMatch, Live, ControlTypes, Control, PdoRecords, Irps,
     LifecycleAssumption, Ref, Deref, SetMissing, OnFails, Pending, NewPdo, FreedPdo,
     LinkPdo, GetPdo, FreeMemory, IssueDeviceEject, HeldMatch, LinkMatch, Places, PnpPlaces,
     EnumPcs, DestroyPcs, IrpPcs, UpPcs, DownLoop, DownPcs, TermPcs, Asleep, PowerPcs
<1>3. AssertsHold'
  BY <1>1 DEF AssertsHold, ControlTypes, Control, LinkMatch, BusyMatch, MapMatch,
     FdoCounted, DestroyMatch, ReferencesCounted, Live, HeldMatch, Irps, Places, PnpPlaces,
     EnumPcs, DestroyPcs, IrpPcs, UpPcs, DownLoop, DownPcs, TermPcs, Asleep, PowerPcs
<1> QED
  BY <1>2, <1>3

\* An enumeration, which has Fdo->Lock.
LEMMA EnumerateAsserts ==
  ASSUME LInv, NEW a \in Enumerators, Enumerate(a)
  PROVE  MapMatch' /\ AssertsHold'
<1>1. ControlTypes /\ table \in [Targets -> Pdos \cup {Null}] /\ pdo \in [Pdos -> PdoRecords]
  BY TypeParts DEF PdoTypes, LInv
<1> USE DEF LInv, ReadDirectory, EnumGet, EnumPresent, EnumDelete, SetPnp, EnumJudge,
   EnumNew, Wake, EnumEnds, UnlockFdo, Enumerate, Enumerators, Actors, Workers, Powerers,
   storeVars, actorVars, scanVars, pnpVars, InLoop, Loop, NextTarget, Step, Go, Own
<1>2. MapMatch'
  <2>1. CASE a = "pnp"
    <3>1. pc'["pnp"] # "irp.map"
      BY <1>1, <2>1 DEF ControlTypes
    <3> QED
      BY <3>1 DEF MapMatch
  <2>2. CASE a = "scan"
    <3>1. UNCHANGED irp /\ pc'["pnp"] = pc["pnp"]
      BY <1>1, <2>2 DEF ControlTypes
    <3>2. NoNewDevice
      <4>1. CASE EnumGet(a) \/ EnumJudge(a) \/ EnumDelete(a)
        <5>1. Touches(table[at[a]]) \/ Touches(held[a])
          <6>1. CASE EnumGet(a)
            BY <6>1 DEF Touches
          <6>2. CASE EnumJudge(a)
            BY <6>2 DEF Touches
          <6>3. CASE EnumDelete(a)
            BY <6>3, ZenonT(60) DEF Touches, PutPnp
          <6> QED
            BY <4>1, <6>1, <6>2, <6>3
        <5> QED
          BY <1>1, <5>1, TouchesMapNone
      <4>2. CASE EnumNew(a)
        <5>1. \/ UNCHANGED pdo
              \/ pdo' = [pdo EXCEPT ![CHOOSE p \in FreeMemory : TRUE] = NewPdo(at[a])]
          BY <4>2
        <5>2. ~NewPdo(at[a]).devobj
          BY DEF NewPdo
        <5> QED
          BY <1>1, <5>1, <5>2 DEF NoNewDevice
      <4> QED
        <5>1. CASE UNCHANGED pdo
          BY <5>1 DEF NoNewDevice
        <5> QED
          BY <4>1, <4>2, <5>1
    <3>3. \A t \in Targets : \/ table'[t] \in {table[t], Null}
                             \/ table'[t] \in Pdos /\ ~pdo'[table'[t]].devobj
      <4>1. CASE UNCHANGED table
        BY <4>1
      <4>2. CASE ~UNCHANGED table
        <5>1. FreeMemory # {} /\ EnumNew(a)
          BY <4>2
        <5>2. PICK p \in FreeMemory : table' = [table EXCEPT ![at[a]] = p] /\ pdo' = [pdo EXCEPT ![p] = NewPdo(at[a])]
          BY <4>2, <5>1 DEF LinkPdo
        <5>3. p \in Pdos
          BY DEF FreeMemory
        <5> QED
          BY <1>1, <5>2, <5>3 DEF NewPdo
      <4> QED
        BY <4>1, <4>2
    <3> QED
      BY <3>1, <3>2, <3>3, MapKept
  <2> QED
    BY <2>1, <2>2
<1>3. AssertsHold'
  BY <1>1 DEF AssertsHold, ControlTypes, Control, LinkMatch, BusyMatch, MapMatch,
     FdoCounted, DestroyMatch, ReferencesCounted, Live, HeldMatch, Irps, Places, PnpPlaces,
     EnumPcs, DestroyPcs, IrpPcs, UpPcs, DownLoop, DownPcs, TermPcs, Asleep, PowerPcs
<1> QED
  BY <1>2, <1>3

\* PdoDestroy, up to the memory being freed.
LEMMA DestroyAsserts ==
  ASSUME LInv, NEW a \in Enumerators, Destroy(a)
  PROVE  MapMatch' /\ AssertsHold'
<1>1. ControlTypes /\ table \in [Targets -> Pdos \cup {Null}] /\ pdo \in [Pdos -> PdoRecords]
  BY TypeParts DEF PdoTypes, LInv
<1> USE DEF LInv, Unlink, OffBegin, OffEnd, DropInitial, Free, Destroy, Enumerators, Actors,
   Workers, Powerers, storeVars, actorVars, scanVars, pnpVars, InLoop, Loop, NextTarget,
   Step, Go, Own
<1>2. MapMatch'
  <2>1. CASE a = "pnp"
    <3>1. pc'["pnp"] # "irp.map"
      BY <1>1, <2>1 DEF ControlTypes
    <3> QED
      BY <3>1 DEF MapMatch
  <2>2. CASE a = "scan"
    <3>1. UNCHANGED irp /\ pc'["pnp"] = pc["pnp"]
      BY <1>1, <2>2 DEF ControlTypes
    <3>2. NoNewDevice
      <4>1. Touches(held[a]) \/ pdo' = [pdo EXCEPT ![held[a]] = FreedPdo]
        BY DEF Touches, PutPower, PutFrontend
      <4>2. ~FreedPdo.devobj
        BY DEF FreedPdo, NewPdo
      <4> QED
        BY <1>1, <4>1, <4>2, TouchesMapNone DEF NoNewDevice
    <3>3. \A t \in Targets : table'[t] \in {table[t], Null}
      BY <1>1
    <3> QED
      BY <3>1, <3>2, <3>3, MapKept
  <2> QED
    BY <2>1, <2>2
<1>3. AssertsHold'
  BY <1>1 DEF AssertsHold, ControlTypes, Control, LinkMatch, BusyMatch, MapMatch,
     FdoCounted, DestroyMatch, ReferencesCounted, Live, HeldMatch, Irps, Places, PnpPlaces,
     EnumPcs, DestroyPcs, IrpPcs, UpPcs, DownLoop, DownPcs, TermPcs, Asleep, PowerPcs
<1> QED
  BY <1>2, <1>3

\* A transition of the FDO, by DevicePowerThread or by the PnP thread.
LEMMA PowerAsserts ==
  ASSUME LInv, NEW a \in Powerers, Power(a)
  PROVE  MapMatch' /\ AssertsHold'
<1>1. ControlTypes /\ table \in [Targets -> Pdos \cup {Null}] /\ pdo \in [Pdos -> PdoRecords]
  BY TypeParts DEF PdoTypes, LInv
<1> USE DEF LInv, UpSet, SetPower, DownSet, Settle, Acquire, UpGet, GetPdo, OnBegin, OnEnd,
   Wake, UpFails, PutPdo, WatchDevices, UnwatchDevices, DownGet, OffBegin, OffEnd,
   ReleaseInterfaces, Finish, NoIrp, Power, Enumerators, Actors, Workers, Powerers,
   storeVars, actorVars, scanVars, pnpVars, InLoop, Loop, NextTarget, Step, Go, Own
<1>2. MapMatch'
  <2>1. CASE a = "pnp"
    <3>1. pc'["pnp"] # "irp.map"
      BY <1>1, <2>1 DEF ControlTypes, GetPdo
    <3> QED
      BY <3>1 DEF MapMatch
  <2>2. CASE a = "power"
    <3>1. UNCHANGED <<irp, table>> /\ pc'["pnp"] = pc["pnp"]
      BY <1>1, <2>2 DEF ControlTypes, GetPdo
    <3>2. NoNewDevice
      <4>1. Touches(table[at[a]]) \/ Touches(held[a])
        BY DEF Touches, GetPdo, PutPower, PutFrontend, OnFails
      <4> QED
        BY <1>1, <4>1, TouchesMapNone
    <3> QED
      BY <3>1, <3>2, MapKept
  <2> QED
    BY <2>1, <2>2
<1>3. AssertsHold'
  BY <1>1 DEF AssertsHold, ControlTypes, Control, LinkMatch, BusyMatch, MapMatch,
     FdoCounted, DestroyMatch, ReferencesCounted, Live, HeldMatch, Irps, Places, PnpPlaces,
     EnumPcs, DestroyPcs, IrpPcs, UpPcs, DownLoop, DownPcs, TermPcs, Asleep, PowerPcs
<1> QED
  BY <1>2, <1>3

\* IRPs of the PnP thread, to the FDO and to the devices of targets.
LEMMA IrpAsserts ==
  ASSUME LInv, RelationsEnd \/ Irp
  PROVE  MapMatch' /\ AssertsHold'
<1>1. ControlTypes /\ table \in [Targets -> Pdos \cup {Null}] /\ pdo \in [Pdos -> PdoRecords]
  BY TypeParts DEF PdoTypes, LInv
<1> USE DEF LInv, RelationsEnd, NoIrp, MapPdo, CheckEjectPending, SimpleIrp, SetPnp,
   StateOf, CancelIrp, OtherIrp, StartBegin, OnBegin, OnEnd, Wake, StartFails, StartEnd,
   RemoveBegin, OffBegin, OffEnd, RemoveJudge, RemoveKeeps, EjectBegin, MarkDeleted, IrpEnd,
   Irp, Enumerators, Actors, Workers, Powerers, storeVars, actorVars, scanVars, pnpVars,
   InLoop, Loop, NextTarget, Step, Go, Own
<1>2. MapMatch'
  BY <1>1, LifecycleAssumption DEF MapMatch, Live, ControlTypes, Control, PdoRecords, Irps,
     LifecycleAssumption, Ref, Deref, SetMissing, OnFails, Pending, NewPdo, FreedPdo,
     LinkPdo, GetPdo, FreeMemory, IssueDeviceEject, HeldMatch, LinkMatch, Places, PnpPlaces,
     EnumPcs, DestroyPcs, IrpPcs, UpPcs, DownLoop, DownPcs, TermPcs, Asleep, PowerPcs
<1>3. AssertsHold'
  BY <1>1 DEF AssertsHold, ControlTypes, Control, LinkMatch, BusyMatch, MapMatch,
     FdoCounted, DestroyMatch, ReferencesCounted, Live, HeldMatch, Irps, Places, PnpPlaces,
     EnumPcs, DestroyPcs, IrpPcs, UpPcs, DownLoop, DownPcs, TermPcs, Asleep, PowerPcs
<1> QED
  BY <1>2, <1>3

\* __FdoTerminate.
LEMMA RemovalAsserts ==
  ASSUME LInv, Removal
  PROVE  MapMatch' /\ AssertsHold'
<1>1. ControlTypes /\ table \in [Targets -> Pdos \cup {Null}] /\ pdo \in [Pdos -> PdoRecords]
  BY TypeParts DEF PdoTypes, LInv
<1> USE DEF LInv, Terminate, TerminateWait, AlertThread, Joined, JoinThread, Sweep,
   Terminated, NoFdo, NoIrp, Removal, Enumerators, Actors, Workers, Powerers, storeVars,
   actorVars, scanVars, pnpVars, InLoop, Loop, NextTarget, Step, Go, Own
<1>2. MapMatch'
  BY <1>1, LifecycleAssumption DEF MapMatch, Live, ControlTypes, Control, PdoRecords, Irps,
     LifecycleAssumption, Ref, Deref, SetMissing, OnFails, Pending, NewPdo, FreedPdo,
     LinkPdo, GetPdo, FreeMemory, IssueDeviceEject, HeldMatch, LinkMatch, Places, PnpPlaces,
     EnumPcs, DestroyPcs, IrpPcs, UpPcs, DownLoop, DownPcs, TermPcs, Asleep, PowerPcs
<1>3. AssertsHold'
  BY <1>1 DEF AssertsHold, ControlTypes, Control, LinkMatch, BusyMatch, MapMatch,
     FdoCounted, DestroyMatch, ReferencesCounted, Live, HeldMatch, Irps, Places, PnpPlaces,
     EnumPcs, DestroyPcs, IrpPcs, UpPcs, DownLoop, DownPcs, TermPcs, Asleep, PowerPcs
<1> QED
  BY <1>2, <1>3

\* What the PnP and power managers begin.
LEMMA ManagersAsserts ==
  ASSUME LInv, Managers
  PROVE  MapMatch' /\ AssertsHold'
<1>1. ControlTypes /\ table \in [Targets -> Pdos \cup {Null}] /\ pdo \in [Pdos -> PdoRecords]
  BY TypeParts DEF PdoTypes, LInv
<1> USE DEF LInv, QueryRelations, SendIrp, MaySend, Quiet, Minors, FindAdapter, NoFdo,
   NoThread, RemoveFdo, DispatchPower, Wake, Managers, Enumerators, Actors, Workers,
   Powerers, storeVars, actorVars, scanVars, pnpVars, InLoop, Loop, NextTarget, Step, Go,
   Own
<1>2. MapMatch'
  <2>1. CASE \E m \in Minors, t \in Targets : SendIrp(m, t)
    <3>1. PICK m \in Minors, t \in Targets : SendIrp(m, t)
      BY <2>1
    <3>2. irp'.t = t /\ UNCHANGED table
      BY <3>1
    <3>3. CASE table[t] # Null /\ pdo[table[t]].devobj
      <4>1. pc'["pnp"] = "irp.pending"
        BY <1>1, <3>1, <3>3 DEF ControlTypes
      <4> QED
        BY <4>1 DEF MapMatch
    <3>4. CASE ~(table[t] # Null /\ pdo[table[t]].devobj)
      <4>1. UNCHANGED pdo
        BY <3>1, <3>4
      <4> QED
        BY <3>2, <3>4, <4>1 DEF MapMatch
    <3> QED
      BY <3>3, <3>4
  <2>2. CASE \E state \in {"D0", "D3"} : DispatchPower(state)
    BY <2>2 DEF MapMatch
  <2>3. CASE QueryRelations \/ FindAdapter \/ RemoveFdo
    <3>1. pc'["pnp"] # "irp.map"
      BY <1>1, <2>3 DEF ControlTypes, Actors
    <3> QED
      BY <3>1 DEF MapMatch
  <2> QED
    BY <2>1, <2>2, <2>3
<1>3. AssertsHold'
  <2>1. UNCHANGED bug
    OBVIOUS
  <2> QED
    BY <2>1 DEF AssertsHold
<1> QED
  BY <1>2, <1>3

\* Steps with little control: the watches, SRBs and the toolstack.
LEMMA OthersAsserts ==
  ASSUME LInv, \/ Notify \/ TakeIrp \/ PathsChanged \/ Toolstack \/ IoEnd
         \/ (\E t \in Targets : IoBegin(t)) \/ UNCHANGED vars
  PROVE  MapMatch' /\ AssertsHold'
<1>1. ControlTypes /\ table \in [Targets -> Pdos \cup {Null}] /\ pdo \in [Pdos -> PdoRecords]
  BY TypeParts DEF PdoTypes, LInv
<1> USE DEF LInv, Notify, TakeIrp, PathsChanged, Toolstack, Migrate, Rewatch, Plug, Unplug,
   Leave, DirectoryChanged, Wake, IoEnd, IoBegin, vars, Enumerators, Actors, Workers,
   Powerers, storeVars, actorVars, scanVars, pnpVars, InLoop, Loop, NextTarget, Step, Go,
   Own
<1>2. MapMatch'
  <2>1. UNCHANGED <<irp, table>> /\ pc'["pnp"] = pc["pnp"]
    BY <1>1 DEF ControlTypes
  <2>2. NoNewDevice
    <3>1. CASE PathsChanged
      <4>1. PICK gone : IssueDeviceEject(gone)
        BY <3>1
      <4>2. \A q \in Pdos : pdo'[q].devobj = pdo[q].devobj
        BY <1>1, <4>1 DEF IssueDeviceEject, PdoRecords
      <4> QED
        BY <4>2 DEF NoNewDevice
    <3>2. CASE Migrate
      BY <1>1, <3>2, ResumeEffect DEF NoNewDevice, SameDevice
    <3>3. CASE ~PathsChanged /\ ~Migrate
      <4>1. Touches(held["io"]) \/ \E t \in Targets : Touches(table[t])
        BY <3>3 DEF Touches
      <4> QED
        BY <1>1, <4>1, TouchesMapNone
    <3> QED
      BY <3>1, <3>2, <3>3
  <2> QED
    BY <2>1, <2>2, MapKept
<1>3. AssertsHold'
  BY <1>1 DEF AssertsHold, ControlTypes, Control, LinkMatch, BusyMatch, MapMatch,
     FdoCounted, DestroyMatch, ReferencesCounted, Live, HeldMatch, Irps, Places, PnpPlaces,
     EnumPcs, DestroyPcs, IrpPcs, UpPcs, DownLoop, DownPcs, TermPcs, Asleep, PowerPcs
<1> QED
  BY <1>2, <1>3

-----------------------------------------------------------------------------
\* The invariant.

\* A PDO whose memory is free is a record of the right type.
LEMMA FreedTypes == FreedPdo \in PdoRecords /\ ~FreedPdo.live
<1> DEFINE a == [NewPdo(0) EXCEPT !.live = FALSE]
           b == [a EXCEPT !.refs = 0]
           c == [b EXCEPT !.power = "D3"]
           d == [c EXCEPT !.frontend = FALSE]
<1>1. NewPdo(0) \in PdoRecords
  BY LifecycleAssumption DEF NewPdo, PdoRecords, PnpStates, Targets, LifecycleAssumption
<1>2. ASSUME NEW r \in PdoRecords
      PROVE  /\ [r EXCEPT !.live = FALSE] \in PdoRecords /\ ~[r EXCEPT !.live = FALSE].live
             /\ [r EXCEPT !.refs = 0] \in PdoRecords /\ [r EXCEPT !.refs = 0].live = r.live
             /\ [r EXCEPT !.power = "D3"] \in PdoRecords /\ [r EXCEPT !.power = "D3"].live = r.live
             /\ [r EXCEPT !.frontend = FALSE] \in PdoRecords
             /\ [r EXCEPT !.frontend = FALSE].live = r.live
  BY DEF PdoRecords
<1>3. FreedPdo = d
  BY DEF FreedPdo
<1>4. a \in PdoRecords /\ ~a.live
  BY <1>1, <1>2
<1> HIDE DEF a
<1>5. b \in PdoRecords /\ ~b.live
  BY <1>2, <1>4
<1> HIDE DEF b
<1>6. c \in PdoRecords /\ ~c.live
  BY <1>2, <1>5
<1> HIDE DEF c
<1>7. d \in PdoRecords /\ ~d.live
  BY <1>2, <1>6
<1> HIDE DEF d
<1> QED
  BY <1>3, <1>7

\* Nothing runs, and there is no PDO.
LEMMA InitLife == Init => LInv
<1> SUFFICES ASSUME Init
             PROVE  LInv
  OBVIOUS
<1> USE LifecycleAssumption DEF LifecycleAssumption
<1>1. \A a \in Actors : pc[a] \in {"idle", "dead"} /\ held[a] = Null /\ at[a] = 0
  BY DEF Init
<1>2. /\ pc["scan"] = "dead" /\ pc["front"] = "dead" /\ pc["power"] = "dead"
      /\ pc["pnp"] = "idle" /\ pc["io"] = "idle"
  BY DEF Init, Actors, Workers
<1>3. {"idle", "dead"} \cap (Counting \cup DestroyPcs \cup BodyPcs \cup Section \cup PowerPcs) = {}
  BY DEF Counting, DestroyPcs, BodyPcs, IrpPcs, Section, PowerPcs
<1>4. irp.minor = "none" /\ fdo = NoFdo /\ powerIrp = "None"
  BY DEF Init, NoIrp
<1>5. TypeOK
  <2>1. ControlTypes
    <3>1. 0 \in Targets
      BY DEF Targets
    <3> QED
      BY <3>1 DEF Init, ControlTypes, Pcs, Irps, Minors, NoIrp, NoFdo, NoThread
  <2>2. PdoTypes
    BY FreedTypes DEF Init, PdoTypes
  <2>3. OtherTypes
    BY DEF Init, OtherTypes, Nodes
  <2> QED
    BY <2>1, <2>2, <2>3, TypeParts
<1>6. Control
  <2>1. Places
    BY <1>2, <1>4 DEF Places, PnpPlaces, Asleep
  <2>2. HeldMatch
    BY <1>1, <1>3 DEF HeldMatch
  <2>3. ~Busy
    BY <1>2, <1>3, <1>4 DEF Busy
  <2>4. BusyMatch
    BY <1>2, <1>3, <2>3 DEF BusyMatch, Init, NoThread, Workers
  <2>5. LinkMatch
    BY <1>2, <1>4 DEF LinkMatch, Init, NoThread, NoFdo, Workers, Joining, Sweeping
  <2>6. LockMatch
    BY <1>1, <1>3 DEF LockMatch, HasLock
  <2>7. FdoCounted
    BY <1>4, <2>3 DEF FdoCounted, One, NoFdo
  <2> QED
    BY <2>1, <2>2, <2>4, <2>5, <2>6, <2>7 DEF Control
<1>7. \A t \in Targets : table[t] = Null
  BY DEF Init
<1>8. Live
  BY <1>1, <1>7 DEF Live
<1>9. DestroyMatch
  BY <1>1, <1>3 DEF DestroyMatch
<1>10. ReferencesCounted
  BY FreedTypes DEF Init, ReferencesCounted
<1>11. MapMatch /\ AssertsHold
  BY <1>2 DEF MapMatch, AssertsHold, Init
<1> QED
  BY <1>5, <1>6, <1>8, <1>9, <1>10, <1>11 DEF LInv

\* A step, by who takes it.
StepOf ==
  \/ \E w \in Workers : Worker(w)
  \/ \E a \in Enumerators : LockFdo(a)
  \/ \E a \in Enumerators : Enumerate(a)
  \/ \E a \in Enumerators : Destroy(a)
  \/ \E a \in Powerers : Power(a)
  \/ RelationsEnd \/ Irp
  \/ Removal
  \/ Managers
  \/ Notify \/ TakeIrp \/ PathsChanged \/ Toolstack \/ IoEnd
  \/ \E t \in Targets : IoBegin(t)
  \/ UNCHANGED vars
\* The groups are the whole of Next.
LEMMA StepsOf == [Next]_vars => StepOf
BY DEF Next, Running, Halted, StepOf

\* Control, the types and the ASSERTs are kept by each group of steps.
LEMMA GroupsKeep ==
  ASSUME LInv, StepOf
  PROVE  Control' /\ ControlTypes' /\ OtherTypes' /\ MapMatch' /\ AssertsHold'
<1>1. TypeOK /\ Control
  BY DEF LInv
<1>2. CASE \E w \in Workers : Worker(w)
  BY <1>1, <1>2, WorkerControl, WorkerTypes, WorkerAsserts
<1>3. CASE \E a \in Enumerators : LockFdo(a)
  BY <1>1, <1>3, LockControl, LockTypes, LockAsserts
<1>4. CASE \E a \in Enumerators : Enumerate(a)
  BY <1>1, <1>4, EnumerateControl, EnumerateTypes, EnumerateAsserts
<1>5. CASE \E a \in Enumerators : Destroy(a)
  BY <1>1, <1>5, DestroyControl, DestroyTypes, DestroyAsserts
<1>6. CASE \E a \in Powerers : Power(a)
  BY <1>1, <1>6, PowerControl, PowerTypes, PowerAsserts
<1>7. CASE RelationsEnd \/ Irp
  BY <1>1, <1>7, IrpControl, IrpTypes, IrpAsserts
<1>8. CASE Removal
  BY <1>1, <1>8, RemovalControl, RemovalTypes, RemovalAsserts
<1>9. CASE Managers
  BY <1>1, <1>9, ManagersControl, ManagersTypes, ManagersAsserts
<1>10. CASE \/ Notify \/ TakeIrp \/ PathsChanged \/ Toolstack \/ IoEnd
            \/ (\E t \in Targets : IoBegin(t)) \/ UNCHANGED vars
  BY <1>1, <1>10, OthersControl, OthersTypes, OthersAsserts
<1> QED
  BY <1>2, <1>3, <1>4, <1>5, <1>6, <1>7, <1>8, <1>9, <1>10 DEF StepOf

\* The Targets table and the PDOs keep their types.
LEMMA MovesTypes ==
  ASSUME TypeOK, Moves
  PROVE  PdoTypes'
<1>1. table \in [Targets -> Pdos \cup {Null}]
  BY TypeParts DEF PdoTypes
<1>2. pdo' \in [Pdos -> PdoRecords]
  BY TypeParts DEF Moves, PdoTypes, Stays, Takes, Drops, Enters, DropsInitial, Frees, Unlinks, Creates, OnlyAt
<1>3. table' \in [Targets -> Pdos \cup {Null}]
  BY <1>1 DEF Moves, Stays, Takes, Drops, Enters, DropsInitial, Frees, Unlinks, Creates
<1> QED
  BY <1>2, <1>3 DEF PdoTypes

\* Every step keeps the invariant.
LEMMA NextLife ==
  ASSUME LInv, [Next]_vars
  PROVE  LInv'
<1>1. TypeOK /\ Control /\ Live /\ DestroyMatch /\ ReferencesCounted
  BY DEF LInv
<1>2. Control' /\ ControlTypes' /\ OtherTypes' /\ MapMatch' /\ AssertsHold'
  BY StepsOf, GroupsKeep
<1>3. Moves
  BY <1>1, HoldersHold, StepClass
<1>4. Live' /\ DestroyMatch' /\ ReferencesCounted'
  BY <1>1, <1>2, <1>3, MovesKeep
<1>5. TypeOK'
  BY <1>1, <1>2, <1>3, MovesTypes, TypeParts
<1> QED
  BY <1>2, <1>4, <1>5 DEF LInv

\* The layers hold in every state.
THEOREM LifeIsSound == Spec => []LInv
<1>1. LInv /\ [Next]_vars => LInv'
  BY NextLife
<1> QED
  BY <1>1, InitLife, PTL DEF Spec

\* No PDO is used after it was freed, and its reference count counts those who work on it:
\* PdoDestroy waits for all of them (fdo.c:607, pdo.c:467-505), whatever the interleaving of
\* the worker threads, the IRPs, SRBs, ejections, power changes and migrations.
THEOREM ReferencesAreSound == Spec => []ReferencesSound
<1>1. LInv => ReferencesSound
  <2> SUFFICES ASSUME LInv
               PROVE  ReferencesSound
    OBVIOUS
  <2>1. \A p \in Pdos : Cardinality(Destroyers(p)) <= 1
    <3> SUFFICES ASSUME NEW p \in Pdos
                 PROVE  Cardinality(Destroyers(p)) <= 1
      OBVIOUS
    <3>1. \A a, b \in Destroyers(p) : a = b
      BY DEF LInv, DestroyMatch, Destroyers
    <3>2. CASE Destroyers(p) = {}
      BY <3>2, FS_EmptySet
    <3>3. CASE Destroyers(p) # {}
      <4>1. PICK a : Destroyers(p) = {a}
        BY <3>1, <3>3
      <4> QED
        BY <4>1, FS_Singleton
    <3> QED
      BY <3>2, <3>3
  <2> QED
    BY <2>1 DEF LInv, ReferencesSound, NoUseAfterFree, Live
<1> QED
  BY <1>1, LifeIsSound, PTL

\* Of the ASSERTs in the way of IRPs, enumeration and removal two can fail at most: that of
\* PdoSetDevicePnpState on a PDO that was meanwhile Deleted, and what stands for the
\* dangling FDO of a FdoFindAdapter that failed.
THEOREM AssertsAreKnown == Spec => []AssertsHold
<1>1. LInv => AssertsHold
  BY DEF LInv
<1> QED
  BY <1>1, LifeIsSound, PTL

-----------------------------------------------------------------------------
\* The interfaces of the FDO.

\* A worker thread wakes up, or ends.
LEMMA WorkerAcquired ==
  ASSUME ControlTypes, Control, AcquiredMatch, NEW a \in Workers, Worker(a)
  PROVE  AcquiredMatch'
BY DEF AcquiredMatch, ControlTypes, Control, LinkMatch, HeldMatch, Irps, Places, PnpPlaces,
   WaitEnds, ClearEvent, Worker, Enumerators, Actors, Workers, Powerers, storeVars,
   actorVars, scanVars, pnpVars, InLoop, Loop, NextTarget, Step, Go, DerefFdo

\* Fdo->Lock is taken only when nobody has it.
LEMMA LockAcquired ==
  ASSUME ControlTypes, Control, AcquiredMatch, NEW a \in Enumerators, LockFdo(a)
  PROVE  AcquiredMatch'
BY DEF AcquiredMatch, ControlTypes, Control, LinkMatch, HeldMatch, Irps, Places, PnpPlaces,
   LockFdo, Enumerators, Actors, Workers, Powerers, storeVars, actorVars, scanVars, pnpVars,
   InLoop, Loop, NextTarget, Step, Go, DerefFdo

\* An enumeration, which has Fdo->Lock.
LEMMA EnumerateAcquired ==
  ASSUME ControlTypes, Control, AcquiredMatch, NEW a \in Enumerators, Enumerate(a)
  PROVE  AcquiredMatch'
BY DEF AcquiredMatch, ControlTypes, Control, LinkMatch, HeldMatch, Irps, Places, PnpPlaces,
   ReadDirectory, EnumGet, EnumPresent, EnumDelete, SetPnp, EnumJudge, EnumNew, Wake,
   EnumEnds, UnlockFdo, Enumerate, Enumerators, Actors, Workers, Powerers, storeVars,
   actorVars, scanVars, pnpVars, InLoop, Loop, NextTarget, Step, Go, DerefFdo

\* PdoDestroy, up to the memory being freed.
LEMMA DestroyAcquired ==
  ASSUME ControlTypes, Control, AcquiredMatch, NEW a \in Enumerators, Destroy(a)
  PROVE  AcquiredMatch'
BY DEF AcquiredMatch, ControlTypes, Control, LinkMatch, HeldMatch, Irps, Places, PnpPlaces,
   Unlink, OffBegin, OffEnd, DropInitial, Free, Destroy, Enumerators, Actors, Workers,
   Powerers, storeVars, actorVars, scanVars, pnpVars, InLoop, Loop, NextTarget, Step, Go,
   DerefFdo

\* A transition of the FDO, by DevicePowerThread or by the PnP thread.
LEMMA PowerAcquired ==
  ASSUME ControlTypes, Control, AcquiredMatch, NEW a \in Powerers, Power(a)
  PROVE  AcquiredMatch'
<1>1. CASE SetSteps(a)
  BY <1>1 DEF AcquiredMatch, ControlTypes, Powerers, Actors, Workers, actorVars, Loop,
     NextTarget, Step, Go, SetSteps, UpSet, DownSet, Settle, SetPower, Acquire
<1>2. CASE UpSteps(a)
  BY <1>2 DEF AcquiredMatch, ControlTypes, Powerers, Actors, Workers, actorVars, Loop,
     NextTarget, Step, Go, UpSteps, UpGet, UpFails, OnBegin, OnEnd, PutPdo, GetPdo
<1>3. CASE DownSteps(a)
  BY <1>3 DEF AcquiredMatch, ControlTypes, Powerers, Actors, Workers, actorVars, Loop,
     NextTarget, Step, Go, DownSteps, WatchDevices, UnwatchDevices, DownGet,
     ReleaseInterfaces, OffBegin, OffEnd, PutPdo, GetPdo
<1>4. CASE Finish(a)
  BY <1>4 DEF AcquiredMatch, ControlTypes, Powerers, Actors, Workers, actorVars, Loop,
     NextTarget, Step, Go, Finish, DerefFdo
<1> QED
  BY <1>1, <1>2, <1>3, <1>4 DEF Power, SetSteps, UpSteps, DownSteps

\* IRPs of the PnP thread, to the FDO and to the devices of targets.
LEMMA IrpAcquired ==
  ASSUME ControlTypes, Control, AcquiredMatch, RelationsEnd \/ Irp
  PROVE  AcquiredMatch'
BY DEF AcquiredMatch, ControlTypes, Control, LinkMatch, HeldMatch, Irps, Places, PnpPlaces,
   RelationsEnd, DerefFdo, NoIrp, MapPdo, CheckEjectPending, SimpleIrp, SetPnp, StateOf,
   CancelIrp, OtherIrp, StartBegin, OnBegin, OnEnd, Wake, StartFails, StartEnd, RemoveBegin,
   OffBegin, OffEnd, RemoveJudge, RemoveKeeps, EjectBegin, MarkDeleted, IrpEnd, Irp,
   Enumerators, Actors, Workers, Powerers, storeVars, actorVars, scanVars, pnpVars, InLoop,
   Loop, NextTarget, Step, Go

\* __FdoTerminate.
LEMMA RemovalAcquired ==
  ASSUME ControlTypes, Control, AcquiredMatch, Removal
  PROVE  AcquiredMatch'
<1>1. CASE Terminate
  BY <1>1 DEF AcquiredMatch, ControlTypes, Powerers, Actors, Workers, actorVars, Loop,
     NextTarget, Step, Go, Terminate, DerefFdo
<1>2. CASE JoinSteps
  BY <1>2 DEF AcquiredMatch, ControlTypes, Powerers, Actors, Workers, actorVars, Loop,
     NextTarget, Step, Go, JoinSteps, TerminateWait, AlertThread, JoinThread
<1>3. CASE Sweep
  BY <1>3 DEF AcquiredMatch, ControlTypes, Powerers, Actors, Workers, actorVars, Loop,
     NextTarget, Step, Go, Sweep
<1>4. CASE Terminated
  BY <1>4 DEF AcquiredMatch, ControlTypes, Powerers, Actors, Workers, actorVars, Loop,
     NextTarget, Step, Go, Terminated, NoFdo
<1> QED
  BY <1>1, <1>2, <1>3, <1>4 DEF Removal, JoinSteps

\* What the PnP and power managers begin.
LEMMA ManagersAcquired ==
  ASSUME ControlTypes, Control, AcquiredMatch, Managers
  PROVE  AcquiredMatch'
<1>1. CASE QueryRelations \/ RemoveFdo
  BY <1>1 DEF AcquiredMatch, ControlTypes, Powerers, Actors, Workers, actorVars, Loop,
     NextTarget, Step, Go, QueryRelations, RemoveFdo, RefFdo
<1>2. CASE \E m \in Minors, t \in Targets : SendIrp(m, t)
  BY <1>2 DEF AcquiredMatch, ControlTypes, Powerers, Actors, Workers, actorVars, Loop,
     NextTarget, Step, Go, SendIrp
<1>3. CASE FindAdapter
  BY <1>3 DEF AcquiredMatch, ControlTypes, Powerers, Actors, Workers, actorVars, Loop,
     NextTarget, Step, Go, FindAdapter, NoFdo, Actors, Workers
<1>4. CASE \E state \in {"D0", "D3"} : DispatchPower(state)
  BY <1>4 DEF AcquiredMatch, ControlTypes, Powerers, Actors, Workers, actorVars, Loop,
     NextTarget, Step, Go, DispatchPower, RefFdo
<1> QED
  BY <1>1, <1>2, <1>3, <1>4 DEF Managers

\* Steps with little control: the watches, SRBs and the toolstack.
LEMMA OthersAcquired ==
  ASSUME ControlTypes, Control, AcquiredMatch, \/ Notify \/ TakeIrp \/ PathsChanged \/ Toolstack \/ IoEnd
         \/ (\E t \in Targets : IoBegin(t)) \/ UNCHANGED vars
  PROVE  AcquiredMatch'
BY DEF AcquiredMatch, ControlTypes, Control, LinkMatch, HeldMatch, Irps, Places, PnpPlaces,
   Notify, TakeIrp, PathsChanged, Toolstack, Migrate, Rewatch, Plug, Unplug, Leave,
   DirectoryChanged, Wake, IoEnd, IoBegin, vars, Enumerators, Actors, Workers, Powerers,
   storeVars, actorVars, scanVars, pnpVars, InLoop, Loop, NextTarget, Step, Go, DerefFdo

-----------------------------------------------------------------------------
\* The power of the PDOs in the table.

Trans == UpBody \cup DownBody

\* A step that neither begins nor ends a transition: of the actors, of the PDOs in the
\* table, and of the table.
Steady ==
  \A a \in Actors : pc[a] \in Trans \/ pc'[a] \in Trans => pc'[a] = pc[a] /\ held'[a] = held[a]
Powered == \A p \in Pdos : InTable(p)' => SamePower(pdo', pdo, p)
Fewer == \A t \in Targets : table'[t] \in {table[t], Null}

\* No PDO comes into the table or, being there, gets into D0: only PdoCreate and PdoD3ToD0
\* make one do so.
Lags(t) == table[t] # Null /\ pdo[table[t]].power = "D0"
NoRise == Fewer /\ \A t \in Targets : Lags(t)' => Lags(t)
Rises ==
  \/ \E a \in Enumerators : EnumNew(a)
  \/ \E a \in Powerers : OnBegin(a, "up.on", "up.end", "up.put")
  \/ StartBegin
\* A step that leaves their power as it is is one that raises none.
LEMMA PoweredIsNoRise ==
  ASSUME LInv, Powered, Fewer
  PROVE  NoRise
<1> SUFFICES ASSUME NEW t \in Targets, Lags(t)'
             PROVE  Lags(t)
  BY DEF NoRise
<1>1. table \in [Targets -> Pdos \cup {Null}]
  BY TypeParts DEF PdoTypes, LInv
<1>2. /\ table'[t] = table[t] /\ table[t] \in Pdos /\ table[t] # Null
      /\ pdo'[table[t]].power = "D0"
  BY <1>1 DEF Fewer, Lags
<1>3. InTable(table[t])'
  BY <1>2 DEF InTable
<1>4. pdo'[table[t]].power = pdo[table[t]].power
  BY <1>2, <1>3 DEF Powered, SamePower
<1> QED
  BY <1>2, <1>4 DEF Lags

\* What is destroyed is not in the table: a transition there is one of the others.
LEMMA TransitionParts ==
  /\ DestroyMatch => \A p : InTable(p) =>
       (InTransition(p) <=> \E a \in Actors : held[a] = p /\ pc[a] \in Trans)
  /\ DestroyMatch' => \A p : InTable(p)' =>
       (InTransition(p)' <=> \E a \in Actors : held'[a] = p /\ pc'[a] \in Trans)
BY DEF DestroyMatch, InTransition, Transitions, Trans, UpBody, DownBody, DestroyPcs, InTable

\* A transition by one actor at a time: DevicePowerThread does it while the PnP thread has
\* no IRP but for relations.
Turning == Trans \cup {"up.on", "down.off"}
\* While one actor is in a transition no other begins one.
LEMMA OneTurns ==
  ASSUME Places, BusyMatch
  PROVE  \A a, b \in Actors :
           /\ pc[a] \in Turning \/ (a = "pnp" /\ pc[a] \in IrpPcs)
           /\ pc[b] \in Trans
           => a = b
BY DEF Places, PnpPlaces, BusyMatch, Busy, Turning, Trans, UpBody, DownBody, Actors, Workers, EnumPcs,
   DestroyPcs, PowerPcs, IrpPcs, UpPcs, DownLoop, DownPcs, TermPcs, Asleep

\* The match, in other words.
PowerParts ==
  /\ \A t \in Targets : table[t] # Null =>
       (pdo[table[t]].power = "D0" <=> pdo[table[t]].frontend)
         \/ \E a \in Actors : held[a] = table[t] /\ pc[a] \in Trans
  /\ \A a \in Actors : InTable(held[a]) =>
       /\ pc[a] \in UpBody => pdo[held[a]].power = "D0" /\ ~pdo[held[a]].frontend
       /\ pc[a] \in DownBody => pdo[held[a]].power = "D3"
\* It is the same once no PDO in the table is being destroyed.
LEMMA PowerInParts ==
  ASSUME DestroyMatch, DestroyMatch'
  PROVE  (PowerMatch <=> PowerParts) /\ (PowerMatch' <=> PowerParts')
<1>1. \A t \in Targets : InTable(table[t]) /\ InTable(table[t])'
  BY DEF InTable
<1> QED
  BY <1>1, TransitionParts DEF PowerMatch, PowerParts

\* Whoever is in a transition holds a PDO.
LEMMA TransHeld ==
  ASSUME TypeOK, Control, NEW a \in Actors, pc[a] \in Trans
  PROVE  held[a] \in Pdos
<1>1. pc[a] \in Counting
  BY DEF Trans, UpBody, DownBody, Counting, IrpPcs
<1> QED
  BY <1>1, TypeParts DEF ControlTypes, Control, HeldMatch

\* A steady step keeps the match,
LEMMA SteadyKeeps ==
  ASSUME TypeOK, Control, DestroyMatch, DestroyMatch', PowerMatch, Steady, Powered, Fewer
  PROVE  PowerMatch'
<1>1. table \in [Targets -> Pdos \cup {Null}]
  BY TypeParts DEF PdoTypes
<1>2. PowerParts
  BY PowerInParts
<1>3. \A t \in Targets : table'[t] # Null =>
        /\ table'[t] = table[t] /\ table[t] \in Pdos
        /\ pdo'[table[t]].power = pdo[table[t]].power /\ pdo'[table[t]].frontend = pdo[table[t]].frontend
  BY <1>1 DEF Fewer, Powered, InTable, SamePower
<1>4. \A a \in Actors : pc'[a] \in Trans =>
        pc'[a] = pc[a] /\ held'[a] = held[a] /\ held[a] \in Pdos
  BY TransHeld DEF Steady
<1>5. \A p \in Pdos : InTable(p)' =>
        InTable(p) /\ pdo'[p].power = pdo[p].power /\ pdo'[p].frontend = pdo[p].frontend
  BY <1>3, LifecycleAssumption DEF InTable, LifecycleAssumption
<1>6. \A a \in Actors : InTable(held[a])' =>
        /\ pc'[a] \in UpBody => pdo'[held'[a]].power = "D0" /\ ~pdo'[held'[a]].frontend
        /\ pc'[a] \in DownBody => pdo'[held'[a]].power = "D3"
  <2> SUFFICES ASSUME NEW a \in Actors, InTable(held[a])', pc'[a] \in Trans
               PROVE  /\ pc'[a] \in UpBody => pdo'[held'[a]].power = "D0" /\ ~pdo'[held'[a]].frontend
                      /\ pc'[a] \in DownBody => pdo'[held'[a]].power = "D3"
    BY DEF Trans
  <2>1. pc'[a] = pc[a] /\ held'[a] = held[a] /\ held[a] \in Pdos
    BY <1>4
  <2>2. /\ InTable(held[a]) /\ pdo'[held[a]].power = pdo[held[a]].power
        /\ pdo'[held[a]].frontend = pdo[held[a]].frontend
    BY <1>5, <2>1 DEF InTable
  <2> QED
    BY <1>2, <2>1, <2>2 DEF PowerParts
<1>7. ASSUME NEW t \in Targets, table'[t] # Null
      PROVE  \/ pdo'[table'[t]].power = "D0" <=> pdo'[table'[t]].frontend
             \/ \E a \in Actors : held'[a] = table'[t] /\ pc'[a] \in Trans
  <2>1. CASE pdo[table[t]].power = "D0" <=> pdo[table[t]].frontend
    BY <1>3, <1>7, <2>1
  <2>2. CASE \E a \in Actors : held[a] = table[t] /\ pc[a] \in Trans
    BY <1>3, <1>7, <2>2 DEF Steady
  <2> QED
    BY <1>2, <1>3, <1>7, <2>1, <2>2 DEF PowerParts
<1>8. PowerParts'
  BY <1>6, <1>7 DEF PowerParts
<1> QED
  BY <1>8, PowerInParts

\* and so does a step of a transition that one actor makes alone.
Begins(a) ==
  /\ pc[a] \notin Trans
  /\ \/ pc'[a] \in UpBody /\ pdo[held[a]].power = "D3" /\ pdo'[held[a]].power = "D0"
     \/ pc'[a] \in DownBody /\ pdo'[held[a]].power = "D3"
  /\ pdo'[held[a]].frontend = pdo[held[a]].frontend
Completes(a) ==
  /\ pc'[a] \notin Trans
  /\ \/ /\ pc[a] \in UpBody
        /\ \/ pdo'[held[a]].power = pdo[held[a]].power /\ pdo'[held[a]].frontend
           \/ pdo'[held[a]].power = "D3" /\ pdo'[held[a]].frontend = pdo[held[a]].frontend
     \/ pc[a] \in DownBody /\ pdo'[held[a]].power = pdo[held[a]].power /\ ~pdo'[held[a]].frontend
Turns(a) ==
  /\ held[a] \in Pdos /\ held'[a] \in {held[a], Null} /\ UNCHANGED table
  /\ pdo' \in [Pdos -> PdoRecords] /\ \A q \in Pdos \ {held[a]} : SamePower(pdo', pdo, q)
  /\ \A b \in Actors \ {a} : pc[b] \notin Trans /\ pc'[b] = pc[b] /\ held'[b] = held[b]
  /\ (Begins(a) /\ held'[a] = held[a]) \/ Completes(a)
\* One actor's transition, begun or completed, keeps the match.
LEMMA TurnsKeeps ==
  ASSUME TypeOK, Control, DestroyMatch, DestroyMatch', PowerMatch, NEW a \in Actors, Turns(a)
  PROVE  PowerMatch'
<1> DEFINE p == held[a]
<1>1. /\ table \in [Targets -> Pdos \cup {Null}] /\ pdo \in [Pdos -> PdoRecords] /\ p \in Pdos
      /\ UNCHANGED table
  BY TypeParts DEF PdoTypes, Turns
<1>2. PowerParts
  BY PowerInParts
<1>3. \A q : InTable(q)' <=> InTable(q)
  BY <1>1 DEF InTable
<1>4. \A b \in Actors \ {a} : pc[b] \notin Trans /\ pc'[b] \notin Trans
  BY DEF Turns
<1>5. \A t \in Targets : table[t] # Null /\ table[t] # p =>
        (pdo'[table[t]].power = "D0" <=> pdo'[table[t]].frontend)
  BY <1>1, <1>2, <1>4 DEF PowerParts, Turns, SamePower
<1>6. CASE Begins(a) /\ held'[a] = p
  <2>1. InTable(p) => (pdo[p].power = "D0" <=> pdo[p].frontend)
    BY <1>1, <1>2, <1>4, <1>6, LifecycleAssumption DEF PowerParts, InTable, Begins, LifecycleAssumption
  <2>2. pc'[a] \in Trans
    BY <1>6 DEF Begins, Trans
  <2>3. \A b \in Actors : InTable(held[b])' =>
          /\ pc'[b] \in UpBody => pdo'[held'[b]].power = "D0" /\ ~pdo'[held'[b]].frontend
          /\ pc'[b] \in DownBody => pdo'[held'[b]].power = "D3"
    <3>1. \A b \in Actors \ {a} : pc'[b] \notin UpBody \cup DownBody
      BY <1>4 DEF Trans
    <3>2. InTable(held[a])' => InTable(p)
      BY <1>1, <1>6 DEF InTable
    <3> QED
      BY <1>1, <1>6, <2>1, <3>1, <3>2 DEF Begins, Trans, UpBody, DownBody, PdoRecords
  <2>4. PowerParts'
    BY <1>1, <1>5, <1>6, <2>2, <2>3 DEF PowerParts
  <2> QED
    BY <2>4, PowerInParts
<1>7. CASE Completes(a)
  <2>1. \A b \in Actors : pc'[b] \notin Trans
    BY <1>4, <1>7 DEF Completes
  <2>2. InTable(p) => (pdo'[p].power = "D0" <=> pdo'[p].frontend)
    BY <1>1, <1>2, <1>7 DEF Completes, PowerParts, UpBody, DownBody
  <2>3. \A t \in Targets : table'[t] # Null => (pdo'[table'[t]].power = "D0" <=> pdo'[table'[t]].frontend)
    BY <1>1, <1>5, <2>2 DEF InTable
  <2>4. PowerParts'
    BY <2>1, <2>3 DEF PowerParts, Trans
  <2> QED
    BY <2>4, PowerInParts
<1> QED
  BY <1>6, <1>7 DEF Turns

\* What a step can do to a PDO without touching its power.
LeavesPower(p) ==
  \/ UNCHANGED pdo
  \/ pdo' = Ref(pdo, p) \/ pdo' = Deref(pdo, p)
  \/ pdo' = SetMissing(pdo, p) \/ pdo' = SetMissing(Ref(pdo, p), p)
  \/ pdo' = PutDevice(pdo, p) \/ pdo' = PutNoEject(pdo, p)
  \/ \E s, r : pdo' = PutPnp(pdo, p, s, r) \/ pdo' = PutPnp(SetMissing(pdo, p), p, s, r)
\* None of these changes the power of a PDO.
LEMMA LeavesAllPower ==
  ASSUME pdo \in [Pdos -> PdoRecords], NEW p, LeavesPower(p)
  PROVE  Powered
<1> SUFFICES ASSUME NEW q \in Pdos
             PROVE  pdo'[q].power = pdo[q].power /\ pdo'[q].frontend = pdo[q].frontend
  BY DEF Powered, SamePower
<1> USE DEF PdoRecords
<1>1. CASE UNCHANGED pdo
  BY <1>1
<1>2. CASE pdo' = Ref(pdo, p) \/ pdo' = Deref(pdo, p)
  BY <1>2 DEF Ref, Deref
<1>3. CASE pdo' = SetMissing(pdo, p) \/ pdo' = SetMissing(Ref(pdo, p), p)
  BY <1>3 DEF Ref, SetMissing
<1>4. CASE pdo' = PutDevice(pdo, p) \/ pdo' = PutNoEject(pdo, p)
  BY <1>4 DEF PutDevice, PutNoEject
<1>5. ASSUME NEW s, NEW r, pdo' = PutPnp(pdo, p, s, r) \/ pdo' = PutPnp(SetMissing(pdo, p), p, s, r)
      PROVE  pdo'[q].power = pdo[q].power /\ pdo'[q].frontend = pdo[q].frontend
  BY <1>5 DEF PutPnp, SetMissing
<1> QED
  BY <1>1, <1>2, <1>3, <1>4, <1>5 DEF LeavesPower

\* Creating a PDO: it is in D0, with its frontend powered.
LEMMA CreatesPower ==
  ASSUME TypeOK, Control, DestroyMatch, DestroyMatch', PowerMatch, Steady,
         NEW t \in Targets, NEW p \in Pdos, Creates(t, p), Live
  PROVE  PowerMatch'
<1>1. table \in [Targets -> Pdos \cup {Null}]
  BY TypeParts DEF PdoTypes
<1>2. PowerParts
  BY PowerInParts
<1>3. /\ table'[t] = p /\ pdo'[p].power = "D0" /\ pdo'[p].frontend
      /\ \A u \in Targets \ {t} : table'[u] = table[u]
      /\ \A q \in Pdos \ {p} : pdo'[q] = pdo[q]
  BY <1>1 DEF Creates, OnlyAt, NewPdo
<1>4. \A u \in Targets : table[u] # p
  BY LifecycleAssumption DEF Live, Creates, LifecycleAssumption
<1>5. \A a \in Actors : held[a] # p
  BY LifecycleAssumption DEF Live, Creates, LifecycleAssumption
<1>6. \A a \in Actors : pc'[a] \in Trans =>
        pc'[a] = pc[a] /\ held'[a] = held[a] /\ held[a] \in Pdos \ {p}
  BY <1>5, TransHeld DEF Steady
<1>7. \A q \in Pdos \ {p} : InTable(q)' => InTable(q)
  BY <1>3 DEF InTable
<1>8. \A a \in Actors : InTable(held[a])' =>
        /\ pc'[a] \in UpBody => pdo'[held'[a]].power = "D0" /\ ~pdo'[held'[a]].frontend
        /\ pc'[a] \in DownBody => pdo'[held'[a]].power = "D3"
  <2> SUFFICES ASSUME NEW a \in Actors, InTable(held[a])', pc'[a] \in Trans
               PROVE  /\ pc'[a] \in UpBody => pdo'[held'[a]].power = "D0" /\ ~pdo'[held'[a]].frontend
                      /\ pc'[a] \in DownBody => pdo'[held'[a]].power = "D3"
    BY DEF Trans
  <2>1. pc'[a] = pc[a] /\ held'[a] = held[a] /\ held[a] \in Pdos \ {p}
    BY <1>6
  <2>2. InTable(held[a]) /\ pdo'[held[a]] = pdo[held[a]]
    BY <1>3, <1>7, <2>1 DEF InTable
  <2> QED
    BY <1>2, <2>1, <2>2 DEF PowerParts
<1>9. ASSUME NEW u \in Targets, table'[u] # Null
      PROVE  \/ pdo'[table'[u]].power = "D0" <=> pdo'[table'[u]].frontend
             \/ \E a \in Actors : held'[a] = table'[u] /\ pc'[a] \in Trans
  <2>1. CASE u = t
    BY <1>3, <2>1
  <2>2. CASE u # t
    <3>1. table'[u] = table[u] /\ table[u] \in Pdos \ {p} /\ pdo'[table[u]] = pdo[table[u]]
      BY <1>1, <1>3, <1>4, <1>9, <2>2
    <3>2. \A a \in Actors : pc[a] \in Trans => pc'[a] = pc[a] /\ held'[a] = held[a]
      BY DEF Steady
    <3> QED
      BY <1>2, <1>9, <3>1, <3>2 DEF PowerParts
  <2> QED
    BY <2>1, <2>2
<1>10. PowerParts'
  BY <1>8, <1>9 DEF PowerParts
<1> QED
  BY <1>10, PowerInParts

\* A worker thread wakes up, or ends.
LEMMA WorkerSettled ==
  ASSUME LInv, DestroyMatch', PowerMatch, NEW a \in Workers, Worker(a)
  PROVE  PowerMatch' /\ NoRise
<1>1. ControlTypes /\ table \in [Targets -> Pdos \cup {Null}] /\ pdo \in [Pdos -> PdoRecords]
  BY TypeParts DEF PdoTypes, LInv
<1> USE DEF WaitEnds, ClearEvent, Worker, Enumerators, Actors, Workers, Powerers, storeVars,
   actorVars, scanVars, pnpVars, InLoop, Loop, NextTarget, Step, Go, Own
<1>2. Steady
  BY <1>1 DEF LInv, Control, HeldMatch, LinkMatch, Steady, Trans, UpBody, DownBody,
     ControlTypes, Irps, Places, PnpPlaces, EnumPcs, DestroyPcs, IrpPcs, UpPcs, DownLoop,
     DownPcs, TermPcs, Asleep, PowerPcs
<1>3. Powered
  BY LeavesAllPower, <1>1 DEF LeavesPower
<1>4. Fewer
  BY <1>1 DEF Fewer
<1> QED
  BY <1>2, <1>3, <1>4, SteadyKeeps, PoweredIsNoRise DEF LInv

\* Fdo->Lock is taken only when nobody has it.
LEMMA LockSettled ==
  ASSUME LInv, DestroyMatch', PowerMatch, NEW a \in Enumerators, LockFdo(a)
  PROVE  PowerMatch' /\ NoRise
<1>1. ControlTypes /\ table \in [Targets -> Pdos \cup {Null}] /\ pdo \in [Pdos -> PdoRecords]
  BY TypeParts DEF PdoTypes, LInv
<1> USE DEF LockFdo, Enumerators, Actors, Workers, Powerers, storeVars, actorVars, scanVars,
   pnpVars, InLoop, Loop, NextTarget, Step, Go, Own
<1>2. Steady
  BY <1>1 DEF LInv, Control, HeldMatch, LinkMatch, Steady, Trans, UpBody, DownBody,
     ControlTypes, Irps, Places, PnpPlaces, EnumPcs, DestroyPcs, IrpPcs, UpPcs, DownLoop,
     DownPcs, TermPcs, Asleep, PowerPcs
<1>3. Powered
  BY LeavesAllPower, <1>1 DEF LeavesPower
<1>4. Fewer
  BY <1>1 DEF Fewer
<1> QED
  BY <1>2, <1>3, <1>4, SteadyKeeps, PoweredIsNoRise DEF LInv

\* An enumeration, which has Fdo->Lock.
LEMMA EnumerateSettled ==
  ASSUME LInv, DestroyMatch', PowerMatch, NEW a \in Enumerators, Enumerate(a)
  PROVE  PowerMatch' /\ (NoRise \/ EnumNew(a))
<1>1. ControlTypes /\ table \in [Targets -> Pdos \cup {Null}] /\ pdo \in [Pdos -> PdoRecords]
  BY TypeParts DEF PdoTypes, LInv
<1> USE DEF ReadDirectory, EnumGet, EnumPresent, EnumDelete, SetPnp, EnumJudge, EnumNew,
   Wake, EnumEnds, UnlockFdo, Enumerate, Enumerators, Actors, Workers, Powerers, storeVars,
   actorVars, scanVars, pnpVars, InLoop, Loop, NextTarget, Step, Go, Own
<1>2. Steady
  BY <1>1 DEF LInv, Control, HeldMatch, LinkMatch, Steady, Trans, UpBody, DownBody,
     ControlTypes, Irps, Places, PnpPlaces, EnumPcs, DestroyPcs, IrpPcs, UpPcs, DownLoop,
     DownPcs, TermPcs, Asleep, PowerPcs
<1>3. CASE EnumNew(a) /\ ~UNCHANGED <<table, pdo>>
  <2>1. PICK t \in Targets, p \in Pdos : Creates(t, p)
    BY <1>3, NewClass DEF LInv
  <2> QED
    BY <1>2, <1>3, <2>1, CreatesPower DEF LInv
<1>4. CASE ~(EnumNew(a) /\ ~UNCHANGED <<table, pdo>>)
  <2>1. LeavesPower(table[at[a]]) \/ LeavesPower(held[a])
    <3>1. CASE EnumGet(a) \/ EnumJudge(a) \/ EnumDelete(a)
      <4>1. CASE EnumGet(a) \/ EnumJudge(a)
        BY <4>1 DEF LeavesPower
      <4>2. CASE EnumDelete(a)
        <5>1. UNCHANGED pdo \/ \E r : pdo' = PutPnp(pdo, held[a], "Deleted", r)
          BY <4>2 DEF PutPnp
        <5> QED
          BY <5>1 DEF LeavesPower
      <4> QED
        BY <3>1, <4>1, <4>2
    <3>2. CASE ~(EnumGet(a) \/ EnumJudge(a) \/ EnumDelete(a))
      BY <1>4, <3>2 DEF LeavesPower
    <3> QED
      BY <3>1, <3>2
  <2>2. Fewer
    BY <1>4 DEF Fewer
  <2> QED
    BY <1>1, <1>2, <2>1, <2>2, LeavesAllPower, SteadyKeeps, PoweredIsNoRise DEF LInv
<1> QED
  BY <1>3, <1>4

\* PdoDestroy, up to the memory being freed.
LEMMA DestroySettled ==
  ASSUME LInv, DestroyMatch', PowerMatch, NEW a \in Enumerators, Destroy(a)
  PROVE  PowerMatch' /\ NoRise
<1>1. ControlTypes /\ table \in [Targets -> Pdos \cup {Null}] /\ pdo \in [Pdos -> PdoRecords]
  BY TypeParts DEF PdoTypes, LInv
<1> USE DEF Unlink, OffBegin, OffEnd, DropInitial, Free, Destroy, Enumerators, Actors,
   Workers, Powerers, storeVars, actorVars, scanVars, pnpVars, InLoop, Loop, NextTarget,
   Step, Go, Own
<1>2. Steady
  BY <1>1 DEF LInv, Control, HeldMatch, LinkMatch, Steady, Trans, UpBody, DownBody,
     ControlTypes, Irps, Places, PnpPlaces, EnumPcs, DestroyPcs, IrpPcs, UpPcs, DownLoop,
     DownPcs, TermPcs, Asleep, PowerPcs
<1>3. Powered
  <2>1. CASE Unlink(a)
    BY <1>1, <2>1, LeavesAllPower DEF LeavesPower
  <2>2. CASE ~Unlink(a)
    <3>1. UNCHANGED <<table>> /\ pc[a] \in DestroyPcs \ {"unlink"}
      BY <2>2 DEF DestroyPcs
    <3>2. \A t \in Targets : table'[t] # held[a]
      BY <3>1 DEF LInv, DestroyMatch, InTable
    <3>3. \A q \in Pdos \ {held[a]} : pdo'[q] = pdo[q]
      BY <1>1, <2>2 DEF Deref
    <3> QED
      BY <3>2, <3>3 DEF Powered, SamePower, InTable
  <2> QED
    BY <2>1, <2>2
<1>4. Fewer
  BY <1>1 DEF Fewer
<1> QED
  BY <1>2, <1>3, <1>4, SteadyKeeps, PoweredIsNoRise DEF LInv

\* __FdoTerminate.
LEMMA RemovalSettled ==
  ASSUME LInv, DestroyMatch', PowerMatch, Removal
  PROVE  PowerMatch' /\ NoRise
<1>1. ControlTypes /\ table \in [Targets -> Pdos \cup {Null}] /\ pdo \in [Pdos -> PdoRecords]
  BY TypeParts DEF PdoTypes, LInv
<1> USE DEF Terminate, TerminateWait, AlertThread, Joined, JoinThread, Sweep, Terminated,
   NoFdo, NoIrp, Removal, Enumerators, Actors, Workers, Powerers, storeVars, actorVars,
   scanVars, pnpVars, InLoop, Loop, NextTarget, Step, Go, Own
<1>2. Steady
  BY <1>1 DEF LInv, Control, HeldMatch, LinkMatch, Steady, Trans, UpBody, DownBody,
     ControlTypes, Irps, Places, PnpPlaces, EnumPcs, DestroyPcs, IrpPcs, UpPcs, DownLoop,
     DownPcs, TermPcs, Asleep, PowerPcs
<1>3. Powered
  <2>1. LeavesPower(table[at["pnp"]])
    BY ZenonT(60) DEF LeavesPower, PutPnp
  <2> QED
    BY <1>1, <2>1, LeavesAllPower
<1>4. Fewer
  BY <1>1 DEF Fewer
<1> QED
  BY <1>2, <1>3, <1>4, SteadyKeeps, PoweredIsNoRise DEF LInv

\* What the PnP and power managers begin.
LEMMA ManagersSettled ==
  ASSUME LInv, DestroyMatch', PowerMatch, Managers
  PROVE  PowerMatch' /\ NoRise
<1>1. ControlTypes /\ table \in [Targets -> Pdos \cup {Null}] /\ pdo \in [Pdos -> PdoRecords]
  BY TypeParts DEF PdoTypes, LInv
<1> USE DEF QueryRelations, SendIrp, MaySend, Quiet, Minors, FindAdapter, NoFdo, NoThread,
   RemoveFdo, DispatchPower, Wake, Managers, Enumerators, Actors, Workers, Powerers,
   storeVars, actorVars, scanVars, pnpVars, InLoop, Loop, NextTarget, Step, Go, Own
<1>2. Steady
  <2>1. CASE FindAdapter
    <3>1. Places /\ HeldMatch /\ LinkMatch
      BY DEF LInv, Control
    <3>2. \A a \in Actors : pc[a] \notin Trans /\ pc'[a] \notin Trans
      BY <1>1, <2>1, <3>1 DEF LinkMatch, Trans, UpBody, DownBody, ControlTypes, Irps, Places,
         PnpPlaces, EnumPcs, DestroyPcs, IrpPcs, UpPcs, DownLoop, DownPcs, TermPcs, Asleep,
         PowerPcs, Minors
    <3> QED
      BY <3>2 DEF Steady
  <2>2. CASE ~FindAdapter
    <3>1. \A a \in Actors \ {"pnp"} : pc'[a] = pc[a] /\ held'[a] = held[a]
      BY <1>1, <2>2 DEF ControlTypes
    <3>2. \/ pc["pnp"] = pc'["pnp"] /\ held'["pnp"] = held["pnp"]
          \/ (pc["pnp"] = "idle" /\ pc'["pnp"] \notin Trans)
      BY <1>1, <2>2 DEF ControlTypes, Trans, UpBody, DownBody
    <3> QED
      BY <3>1, <3>2, SMTT(30) DEF Steady, Trans, UpBody, DownBody
  <2> QED
    BY <2>1, <2>2
<1>3. Powered
  <2>1. UNCHANGED pdo \/ \E t \in Targets : pdo' = Ref(pdo, table[t])
    OBVIOUS
  <2> QED
    BY <1>1, <2>1, LeavesAllPower DEF LeavesPower
<1>4. Fewer
  BY <1>1 DEF Fewer
<1> QED
  BY <1>2, <1>3, <1>4, SteadyKeeps, PoweredIsNoRise DEF LInv

\* Steps with little control: the watches, SRBs and the toolstack.
LEMMA OthersSettled ==
  ASSUME LInv, DestroyMatch', PowerMatch, \/ Notify \/ TakeIrp \/ PathsChanged \/ Toolstack \/ IoEnd
         \/ (\E t \in Targets : IoBegin(t)) \/ UNCHANGED vars
  PROVE  PowerMatch' /\ NoRise
<1>1. ControlTypes /\ table \in [Targets -> Pdos \cup {Null}] /\ pdo \in [Pdos -> PdoRecords]
  BY TypeParts DEF PdoTypes, LInv
<1> USE DEF Notify, TakeIrp, PathsChanged, Toolstack, Migrate, Rewatch, Plug, Unplug, Leave,
   DirectoryChanged, Wake, IoEnd, IoBegin, vars, Enumerators, Actors, Workers, Powerers,
   storeVars, actorVars, scanVars, pnpVars, InLoop, Loop, NextTarget, Step, Go, Own
<1>2. Steady
  BY <1>1 DEF LInv, Control, HeldMatch, LinkMatch, Steady, Trans, UpBody, DownBody,
     ControlTypes, Irps, Places, PnpPlaces, EnumPcs, DestroyPcs, IrpPcs, UpPcs, DownLoop,
     DownPcs, TermPcs, Asleep, PowerPcs
<1>3. Powered
  <2>1. CASE PathsChanged
    <3>1. PICK gone : IssueDeviceEject(gone)
      BY <2>1
    <3>2. \A q \in Pdos : pdo'[q].power = pdo[q].power /\ pdo'[q].frontend = pdo[q].frontend
      BY <1>1, <3>1 DEF IssueDeviceEject, PdoRecords
    <3> QED
      BY <3>2 DEF Powered, SamePower
  <2>2. CASE Migrate
    BY <1>1, <2>2, ResumeEffect DEF Powered
  <2>3. CASE ~PathsChanged /\ ~Migrate
    <3>1. LeavesPower(held["io"]) \/ \E t \in Targets : LeavesPower(table[t])
      BY <2>3 DEF LeavesPower
    <3> QED
      BY <1>1, <3>1, LeavesAllPower
  <2> QED
    BY <2>1, <2>2, <2>3
<1>4. Fewer
  BY <1>1 DEF Fewer
<1> QED
  BY <1>2, <1>3, <1>4, SteadyKeeps, PoweredIsNoRise DEF LInv

\* The transitions of PDOs, by an actor that is alone in one.
Solo(a) == pc[a] \in Counting /\ \A b \in Actors \ {a} : pc[b] \notin Trans

\* The first half of a transition by such an actor keeps the match.
LEMMA BeginSettles ==
  ASSUME LInv, DestroyMatch', PowerMatch, NEW a \in Actors, Solo(a),
         NEW from \in Pcs \ Trans, NEW middle \in Trans, NEW to \in Pcs \ Trans,
         \/ OnBegin(a, from, middle, to) /\ middle \in UpBody
         \/ OffBegin(a, from, middle, to) /\ middle \in DownBody
  PROVE  PowerMatch' /\ (NoRise \/ middle \in UpBody)
<1>1. /\ ControlTypes /\ table \in [Targets -> Pdos \cup {Null}] /\ pdo \in [Pdos -> PdoRecords]
      /\ held[a] \in Pdos
  BY TypeParts, HeldFacts DEF PdoTypes, LInv, Solo
<1>2. PICK s \in {"D0", "D3"} :
        /\ pdo' = PutPower(pdo, held[a], s) /\ UNCHANGED <<table, held>> /\ pc[a] = from
        /\ Go(a, IF pdo[held[a]].power = s THEN to ELSE middle)
        /\ IF s = "D0" THEN middle \in UpBody ELSE middle \in DownBody
  BY DEF OnBegin, OffBegin, PutPower, Own
<1>3. /\ pdo' \in [Pdos -> PdoRecords] /\ \A q \in Pdos \ {held[a]} : pdo'[q] = pdo[q]
      /\ pdo'[held[a]].power = s /\ pdo'[held[a]].frontend = pdo[held[a]].frontend
  BY <1>1, <1>2, PowerEffect DEF OnlyAt, PutPower, PdoRecords
<1>4. pc' = [pc EXCEPT ![a] = IF pdo[held[a]].power = s THEN to ELSE middle]
  BY <1>2 DEF Go
<1>r. NoRise \/ middle \in UpBody
  <2>1. s = "D3" => NoRise
    BY <1>1, <1>2, <1>3 DEF NoRise, Fewer, Lags
  <2> QED
    BY <1>2, <2>1
<1>5. CASE pdo[held[a]].power = s
  <2>1. Steady
    BY <1>1, <1>2, <1>4, <1>5 DEF Steady, ControlTypes
  <2>2. Powered /\ Fewer
    BY <1>2, <1>3, <1>5 DEF Powered, Fewer, SamePower
  <2> QED
    BY <1>r, <2>1, <2>2, SteadyKeeps DEF LInv
<1>6. CASE pdo[held[a]].power # s
  <2>1. pc'[a] = middle /\ \A b \in Actors \ {a} : pc'[b] = pc[b]
    BY <1>1, <1>4, <1>6 DEF ControlTypes
  <2>2. pdo[held[a]].power \in {"D0", "D3"}
    BY <1>1 DEF PdoRecords
  <2>3. Begins(a)
    BY <1>2, <1>3, <1>6, <2>1, <2>2 DEF Begins
  <2>4. Turns(a)
    BY <1>1, <1>2, <1>3, <2>1, <2>3 DEF Turns, Solo, SamePower
  <2> QED
    BY <1>r, <2>4, TurnsKeeps DEF LInv
<1> QED
  BY <1>r, <1>5, <1>6

\* The end of a transition, with the frontend powered or closed, or a failure.
LEMMA EndSettles ==
  ASSUME LInv, DestroyMatch', PowerMatch, NEW a \in Actors, Solo(a),
         held' \in {held, [held EXCEPT ![a] = Null]}, NEW l \in Pcs \ Trans, Go(a, l), UNCHANGED table,
         \/ pdo' = PutFrontend(pdo, held[a], TRUE) /\ pc[a] \in UpBody
         \/ pdo' = PutFrontend(pdo, held[a], FALSE) /\ pc[a] \in DownBody
         \/ pdo' = PutPower(pdo, held[a], "D3") /\ pc[a] \in UpBody
         \/ pdo' = Deref(PutPower(pdo, held[a], "D3"), held[a]) /\ pc[a] \in UpBody
  PROVE  PowerMatch' /\ NoRise
<1>1. /\ ControlTypes /\ table \in [Targets -> Pdos \cup {Null}] /\ pdo \in [Pdos -> PdoRecords]
      /\ held[a] \in Pdos
  BY TypeParts, HeldFacts DEF PdoTypes, LInv, Solo
<1>2. PICK f \in [Pdos -> PdoRecords] : f = PutPower(pdo, held[a], "D3")
  BY <1>1, PowerEffect DEF OnlyAt
<1>3. f[held[a]].refs > 0
  <2>1. CountsHeld
    BY HoldersHold DEF LInv
  <2> QED
    BY <1>1, <1>2, <2>1, PowerEffect DEF CountsHeld, Solo, SameRefs
<1>4. pdo' \in [Pdos -> PdoRecords] /\ \A q \in Pdos \ {held[a]} : pdo'[q] = pdo[q]
  <2>1. OnlyAt(pdo', pdo, held[a]) \/ (OnlyAt(f, pdo, held[a]) /\ OnlyAt(pdo', f, held[a]))
    <3>1. OnlyAt(f, pdo, held[a]) /\ OnlyAt(Deref(f, held[a]), f, held[a])
      BY <1>1, <1>2, <1>3, PowerEffect, DerefEffect
    <3>2. pdo' = Deref(f, held[a]) => OnlyAt(pdo', f, held[a])
      BY <3>1
    <3>3. \A b \in BOOLEAN : OnlyAt(PutFrontend(pdo, held[a], b), pdo, held[a])
      BY <1>1, PowerEffect
    <3> QED
      BY <1>2, <3>1, <3>2, <3>3
  <2> QED
    BY <2>1 DEF OnlyAt
<1>5. /\ pc'[a] = l /\ \A b \in Actors \ {a} : pc'[b] = pc[b] /\ held'[b] = held[b]
      /\ held'[a] \in {held[a], Null}
  BY <1>1 DEF ControlTypes, Go
<1>6. Completes(a)
  BY <1>1, <1>5 DEF Completes, PutFrontend, PutPower, Deref, PdoRecords
<1>7. Turns(a)
  BY <1>1, <1>4, <1>5, <1>6 DEF Turns, Solo, SamePower
<1>8. pdo'[held[a]].power \in {pdo[held[a]].power, "D3"}
  BY <1>1 DEF PutFrontend, PutPower, Deref, PdoRecords
<1>9. NoRise
  BY <1>1, <1>4, <1>8 DEF NoRise, Fewer, Lags
<1> QED
  BY <1>7, <1>9, TurnsKeeps DEF LInv

\* A transition of the FDO, by DevicePowerThread or by the PnP thread.
LEMMA PowerSettled ==
  ASSUME LInv, DestroyMatch', PowerMatch, NEW a \in Powerers, Power(a)
  PROVE  PowerMatch' /\ (NoRise \/ OnBegin(a, "up.on", "up.end", "up.put"))
<1>1. /\ a \in Actors /\ ControlTypes /\ table \in [Targets -> Pdos \cup {Null}]
      /\ pdo \in [Pdos -> PdoRecords]
  BY TypeParts DEF PdoTypes, LInv, Powerers, Actors, Workers
<1>2. /\ {"up.on", "up.put", "down.off", "down.put", "up", "down"} \subseteq Pcs \ Trans
      /\ {"up.on", "up.end", "down.off", "down.end"} \subseteq Counting \cap Turning
      /\ "up.end" \in UpBody /\ "down.end" \in DownBody
  BY DEF Pcs, PowerPcs, Trans, UpBody, DownBody, Counting, Turning
<1>3. pc[a] \in Counting \cap Turning => Solo(a)
  BY <1>1, OneTurns DEF Solo, LInv, Control
<1>4. CASE OnBegin(a, "up.on", "up.end", "up.put")
  <2>1. pc[a] = "up.on"
    BY <1>4 DEF OnBegin
  <2>2. Solo(a)
    BY <1>2, <1>3, <2>1
  <2>3. "up.end" \in Trans
    BY <1>2 DEF Trans
  <2> QED
    BY <1>1, <1>2, <1>4, <2>2, <2>3, BeginSettles
<1>5. CASE OffBegin(a, "down.off", "down.end", "down.put")
  <2>1. pc[a] = "down.off"
    BY <1>5 DEF OffBegin
  <2>2. Solo(a)
    BY <1>2, <1>3, <2>1
  <2>3. "down.end" \in Trans
    BY <1>2 DEF Trans
  <2>4. "down.end" \notin UpBody
    BY DEF UpBody
  <2> QED
    BY <1>1, <1>2, <1>5, <2>2, <2>3, <2>4, BeginSettles
<1>6. CASE OnEnd(a, "up.end", "up.put") \/ OffEnd(a, "down.end", "down.put") \/ UpFails(a)
  <2>1. /\ pc[a] \in {"up.end", "down.end"} /\ UNCHANGED table
        /\ held' \in {held, [held EXCEPT ![a] = Null]} /\ \E l \in Pcs \ Trans : Go(a, l)
    BY <1>2, <1>6 DEF OnEnd, OffEnd, UpFails, Loop
  <2>2. \/ pdo' = PutFrontend(pdo, held[a], TRUE) /\ pc[a] \in UpBody
        \/ pdo' = PutFrontend(pdo, held[a], FALSE) /\ pc[a] \in DownBody
        \/ pdo' = Deref(PutPower(pdo, held[a], "D3"), held[a]) /\ pc[a] \in UpBody
    BY <1>2, <1>6 DEF OnEnd, OffEnd, UpFails, OnFails, PutFrontend, PutPower
  <2>3. Solo(a)
    BY <1>2, <1>3, <2>1
  <2> QED
    BY <1>1, <2>1, <2>2, <2>3, EndSettles
<1>7. CASE \/ SetSteps(a) \/ UpGet(a) \/ PutPdo(a, "up.put", "up")
           \/ WatchDevices(a) \/ UnwatchDevices(a) \/ DownGet(a) \/ ReleaseInterfaces(a)
           \/ PutPdo(a, "down.put", "down") \/ Finish(a)
  <2>1. Steady
    BY <1>1, <1>7 DEF Steady, Trans, UpBody, DownBody, ControlTypes, SetSteps, UpSet, DownSet, Settle,
       SetPower, Acquire, UpGet, GetPdo, PutPdo, WatchDevices, UnwatchDevices, DownGet, ReleaseInterfaces,
       Finish, Loop, NextTarget, Step, Go
  <2>2. Fewer
    BY <1>7 DEF Fewer, SetSteps, UpSet, DownSet, Settle, SetPower, Acquire, UpGet, PutPdo, WatchDevices,
       UnwatchDevices, DownGet, ReleaseInterfaces, Finish
  <2>3. LeavesPower(table[at[a]]) \/ LeavesPower(held[a])
    BY <1>7 DEF LeavesPower, SetSteps, UpSet, DownSet, Settle, SetPower, Acquire, UpGet, GetPdo, PutPdo,
       WatchDevices, UnwatchDevices, DownGet, ReleaseInterfaces, Finish
  <2> QED
    BY <1>1, <2>1, <2>2, <2>3, LeavesAllPower, SteadyKeeps, PoweredIsNoRise DEF LInv
<1> QED
  BY <1>4, <1>5, <1>6, <1>7 DEF Power, SetSteps

\* IRPs to the device of a target.
LEMMA IrpSettled ==
  ASSUME LInv, DestroyMatch', PowerMatch, RelationsEnd \/ Irp
  PROVE  PowerMatch' /\ (NoRise \/ StartBegin)
<1>1. /\ "pnp" \in Actors /\ ControlTypes /\ table \in [Targets -> Pdos \cup {Null}]
      /\ pdo \in [Pdos -> PdoRecords]
  BY TypeParts DEF PdoTypes, LInv, Actors
<1>2. /\ {"irp.do", "irp.started", "irp.judge"} \subseteq Pcs \ Trans
      /\ {"irp.do", "irp.on", "irp.off"} \subseteq Counting \cap IrpPcs
      /\ "irp.on" \in UpBody /\ "irp.off" \in DownBody
  BY DEF Pcs, IrpPcs, Trans, UpBody, DownBody, Counting
<1>3. pc["pnp"] \in Counting \cap IrpPcs => Solo("pnp")
  BY <1>1, OneTurns DEF Solo, LInv, Control
<1>4. CASE StartBegin \/ RemoveBegin
  <2>1. pc["pnp"] = "irp.do"
    BY <1>4 DEF StartBegin, RemoveBegin, OnBegin, OffBegin
  <2>2. Solo("pnp")
    BY <1>2, <1>3, <2>1
  <2>3. "irp.on" \in Trans /\ "irp.off" \in Trans
    BY <1>2 DEF Trans
  <2>4. "irp.off" \notin UpBody
    BY DEF UpBody
  <2> QED
    BY <1>1, <1>2, <1>4, <2>2, <2>3, <2>4, BeginSettles DEF StartBegin, RemoveBegin
<1>5. CASE OnEnd("pnp", "irp.on", "irp.started") \/ OffEnd("pnp", "irp.off", "irp.judge") \/ StartFails
  <2>1. /\ pc["pnp"] \in {"irp.on", "irp.off"} /\ UNCHANGED table
        /\ held' \in {held, [held EXCEPT !["pnp"] = Null]} /\ \E l \in Pcs \ Trans : Go("pnp", l)
    BY <1>2, <1>5 DEF OnEnd, OffEnd, StartFails
  <2>2. \/ pdo' = PutFrontend(pdo, held["pnp"], TRUE) /\ pc["pnp"] \in UpBody
        \/ pdo' = PutFrontend(pdo, held["pnp"], FALSE) /\ pc["pnp"] \in DownBody
        \/ pdo' = PutPower(pdo, held["pnp"], "D3") /\ pc["pnp"] \in UpBody
    BY <1>2, <1>5 DEF OnEnd, OffEnd, StartFails, OnFails, PutFrontend, PutPower
  <2>3. Solo("pnp")
    BY <1>2, <1>3, <2>1
  <2> QED
    BY <1>1, <2>1, <2>2, <2>3, EndSettles
<1>6. CASE \/ RelationsEnd \/ MapPdo \/ CheckEjectPending \/ SimpleIrp \/ CancelIrp \/ OtherIrp
           \/ StartEnd \/ RemoveJudge \/ RemoveKeeps \/ EjectBegin \/ MarkDeleted \/ IrpEnd
  <2>1. Steady
    BY <1>1, <1>6 DEF Steady, Trans, UpBody, DownBody, ControlTypes, RelationsEnd, MapPdo,
       CheckEjectPending, SimpleIrp, CancelIrp, OtherIrp, StartEnd, RemoveJudge, RemoveKeeps, EjectBegin,
       MarkDeleted, IrpEnd, SetPnp, Step, Go
  <2>2. Fewer
    BY <1>6 DEF Fewer, RelationsEnd, MapPdo, CheckEjectPending, SimpleIrp, CancelIrp, OtherIrp, StartEnd,
       RemoveJudge, RemoveKeeps, EjectBegin, MarkDeleted, IrpEnd
  <2>3. LeavesPower(table[irp.t]) \/ LeavesPower(held["pnp"])
    <3>1. CASE RelationsEnd \/ MapPdo \/ CheckEjectPending \/ OtherIrp \/ RemoveJudge \/ EjectBegin \/ IrpEnd
      BY <3>1 DEF LeavesPower, PutDevice, PutNoEject, RelationsEnd, MapPdo, CheckEjectPending, OtherIrp,
         RemoveJudge, EjectBegin, IrpEnd
    <3>2. CASE SimpleIrp \/ StartEnd \/ RemoveKeeps \/ MarkDeleted \/ CancelIrp
      <4>1. UNCHANGED pdo \/ \E s, r : pdo' = PutPnp(pdo, held["pnp"], s, r)
        BY <3>2 DEF SimpleIrp, StartEnd, RemoveKeeps, MarkDeleted, CancelIrp, SetPnp, PutPnp
      <4> QED
        BY <4>1 DEF LeavesPower
    <3> QED
      BY <1>6, <3>1, <3>2
  <2> QED
    BY <1>1, <2>1, <2>2, <2>3, LeavesAllPower, SteadyKeeps, PoweredIsNoRise DEF LInv
<1> QED
  BY <1>4, <1>5, <1>6 DEF Irp

\* The invariant that is kept, with power and interfaces.
PInv == LInv /\ PowerMatch /\ AcquiredMatch
\* Each group of steps keeps the match and the interfaces.
LEMMA GroupsKeepPower ==
  ASSUME LInv, DestroyMatch', PowerMatch, AcquiredMatch, StepOf
  PROVE  PowerMatch' /\ AcquiredMatch' /\ (NoRise \/ Rises)
<1>1. ControlTypes /\ Control
  BY TypeParts DEF LInv
<1>2. CASE \E w \in Workers : Worker(w)
  BY <1>1, <1>2, WorkerSettled, WorkerAcquired
<1>3. CASE \E a \in Enumerators : LockFdo(a)
  BY <1>1, <1>3, LockSettled, LockAcquired
<1>4. CASE \E a \in Enumerators : Enumerate(a)
  BY <1>1, <1>4, EnumerateSettled, EnumerateAcquired DEF Rises
<1>5. CASE \E a \in Enumerators : Destroy(a)
  BY <1>1, <1>5, DestroySettled, DestroyAcquired
<1>6. CASE \E a \in Powerers : Power(a)
  BY <1>1, <1>6, PowerSettled, PowerAcquired DEF Rises
<1>7. CASE RelationsEnd \/ Irp
  BY <1>1, <1>7, IrpSettled, IrpAcquired DEF Rises
<1>8. CASE Removal
  BY <1>1, <1>8, RemovalSettled, RemovalAcquired
<1>9. CASE Managers
  BY <1>1, <1>9, ManagersSettled, ManagersAcquired
<1>10. CASE \/ Notify \/ TakeIrp \/ PathsChanged \/ Toolstack \/ IoEnd
            \/ (\E t \in Targets : IoBegin(t)) \/ UNCHANGED vars
  BY <1>1, <1>10, OthersSettled, OthersAcquired
<1> QED
  BY <1>2, <1>3, <1>4, <1>5, <1>6, <1>7, <1>8, <1>9, <1>10 DEF StepOf

\* It holds at first.
LEMMA InitPower == Init => PInv
<1>1. Init => LInv
  BY InitLife
<1>2. Init => PowerMatch /\ AcquiredMatch
  <2> SUFFICES ASSUME Init
               PROVE  PowerMatch /\ AcquiredMatch
    OBVIOUS
  <2>1. \A a \in Actors : pc[a] \notin UpBody \cup DownBody
    BY DEF Init, UpBody, DownBody
  <2> QED
    BY <2>1 DEF Init, PowerMatch, AcquiredMatch, NoFdo
<1> QED
  BY <1>1, <1>2 DEF PInv

\* The power of the FDO and of the PDOs, in every state.
THEOREM PowerIsSound == Spec => []PInv
<1>1. Init => PInv
  BY InitPower
<1>2. PInv /\ [Next]_vars => PInv'
  <2> SUFFICES ASSUME PInv, [Next]_vars
               PROVE  PInv'
    OBVIOUS
  <2>1. LInv'
    BY NextLife DEF PInv
  <2>2. PowerMatch' /\ AcquiredMatch'
    BY <2>1, StepsOf, GroupsKeepPower DEF PInv, LInv
  <2> QED
    BY <2>1, <2>2 DEF PInv
<1> QED
  BY <1>1, <1>2, PTL DEF Spec

\* DevicePowerState of a PDO, which changes before the work of the transition is done
\* (pdo.c:515, 556), agrees with its frontend when no transition is in progress.
THEOREM PowerAgreesAtRest == Spec => []PowerSettles
<1>1. PInv => PowerSettles
  BY DEF PInv, PowerMatch, PowerSettles
<1> QED
  BY <1>1, PowerIsSound, PTL

\* An enumeration reads XenStore through an interface that is held, but in the two windows
\* of a power change.
THEOREM InterfacesAreHeld == Spec => []InterfacesHeld
<1>1. PInv => InterfacesHeld
  <2> SUFFICES ASSUME PInv, NEW a \in Enumerators, pc[a] = "read", ~fdo.acquired
               PROVE  \E b \in Powerers : pc[b] \in {"acquire", "settle"}
    BY DEF InterfacesHeld
  <2>1. fdo.power = "D0"
    BY DEF PInv, LInv, Control, LockMatch, HasLock, Section, Enumerators, Actors, Workers
  <2> QED
    BY <2>1 DEF PInv, AcquiredMatch
<1> QED
  BY <1>1, PowerIsSound, PTL

-----------------------------------------------------------------------------
\* The way down of the FDO, when its way up does not fail half way.

Raising == {"acquire", "up", "up.on", "up.end", "up.put", "watch"}
Pace == {"unwatch"} \cup DownLoop
UpHolds == "power" \notin Failures /\ "register" \notin Failures

\* The FDO is in D0 from its way up until its way down, and while a device is started.
WayMatch ==
  /\ \A a \in Powerers : /\ pc[a] \in Raising => fdo.power = "D0"
                         /\ pc[a] \in Pace \cup {"release"} => fdo.power = "D3"
                         /\ pc[a] # "settle"
  /\ irp.minor = "START_DEVICE" => fdo.power = "D0"
  /\ ~fdo.linked => fdo.power = "D3"

\* In D3 only targets that the loop has not got to are in D0.
Ahead(t) == \E a \in Powerers :
  \/ pc[a] = "unwatch"
  \/ pc[a] \in {"down", "down.off"} /\ at[a] <= t
  \/ pc[a] \in {"down.end", "down.put"} /\ at[a] < t
LagMatch ==
  /\ \A a \in Powerers : pc[a] = "down.off" => table[at[a]] \in {held[a], Null}
  /\ fdo.power = "D3" => \A t \in Targets : Lags(t) => Ahead(t)
FollowMatch == WayMatch /\ LagMatch

\* A step that has nothing to do with the loop.
Aside ==
  /\ \A a \in Powerers : pc[a] \in Pace \/ pc'[a] = "down.off" =>
       pc'[a] = pc[a] /\ at'[a] = at[a] /\ held'[a] = held[a]
  /\ fdo'.power = "D3" => fdo.power = "D3"

\* A worker thread wakes up, or ends.
LEMMA WorkerAside ==
  ASSUME ControlTypes, Control, WayMatch, NEW a \in Workers, Worker(a)
  PROVE  WayMatch' /\ Aside
BY DEF WayMatch, Aside, Raising, Pace, DownLoop, ControlTypes, Control, LinkMatch, HeldMatch, Irps, Places,
   PnpPlaces, WaitEnds, ClearEvent, Worker, Enumerators, Actors, Workers, Powerers, storeVars,
   actorVars, scanVars, pnpVars, InLoop, Loop, NextTarget, Step, Go, DerefFdo

\* Fdo->Lock is taken only when nobody has it.
LEMMA LockAside ==
  ASSUME ControlTypes, Control, WayMatch, NEW a \in Enumerators, LockFdo(a)
  PROVE  WayMatch' /\ Aside
BY DEF WayMatch, Aside, Raising, Pace, DownLoop, ControlTypes, Control, LinkMatch, HeldMatch, Irps, Places,
   PnpPlaces, LockFdo, Enumerators, Actors, Workers, Powerers, storeVars, actorVars, scanVars, pnpVars,
   InLoop, Loop, NextTarget, Step, Go, DerefFdo

\* An enumeration, which has Fdo->Lock.
LEMMA EnumerateAside ==
  ASSUME ControlTypes, Control, WayMatch, NEW a \in Enumerators, Enumerate(a)
  PROVE  WayMatch' /\ Aside
BY DEF WayMatch, Aside, Raising, Pace, DownLoop, ControlTypes, Control, LinkMatch, HeldMatch, Irps, Places,
   PnpPlaces, ReadDirectory, EnumGet, EnumPresent, EnumDelete, SetPnp, EnumJudge, EnumNew, Wake,
   EnumEnds, UnlockFdo, Enumerate, Enumerators, Actors, Workers, Powerers, storeVars,
   actorVars, scanVars, pnpVars, InLoop, Loop, NextTarget, Step, Go, DerefFdo

\* PdoDestroy, up to the memory being freed.
LEMMA DestroyAside ==
  ASSUME ControlTypes, Control, WayMatch, NEW a \in Enumerators, Destroy(a)
  PROVE  WayMatch' /\ Aside
BY DEF WayMatch, Aside, Raising, Pace, DownLoop, ControlTypes, Control, LinkMatch, HeldMatch, Irps, Places,
   PnpPlaces, Unlink, OffBegin, OffEnd, DropInitial, Free, Destroy, Enumerators, Actors, Workers,
   Powerers, storeVars, actorVars, scanVars, pnpVars, InLoop, Loop, NextTarget, Step, Go,
   DerefFdo

\* IRPs of the PnP thread, to the FDO and to the devices of targets.
LEMMA IrpAside ==
  ASSUME ControlTypes, Control, WayMatch, RelationsEnd \/ Irp
  PROVE  WayMatch' /\ Aside
<1>1. /\ pc["pnp"] \in IrpPcs \cup {"relations"} /\ UNCHANGED at
      /\ fdo'.power = fdo.power /\ fdo'.linked = fdo.linked /\ irp' \in {irp, NoIrp}
      /\ held'["power"] = held["power"] /\ pc'["power"] = pc["power"]
      /\ pc'["pnp"] \in IrpPcs \cup {"idle", "relations"}
  <2> USE DEF ControlTypes, Actors, Workers, IrpPcs, Step, Go
  <2>1. CASE RelationsEnd \/ IrpEnd
    BY <2>1 DEF RelationsEnd, IrpEnd, DerefFdo
  <2>2. CASE PlainIrps
    BY <2>2 DEF PlainIrps, MapPdo, CheckEjectPending, SimpleIrp, SetPnp, CancelIrp, OtherIrp
  <2>3. CASE StartIrp
    BY <2>3 DEF StartIrp, StartBegin, OnBegin, OnEnd, StartFails, StartEnd, SetPnp
  <2>4. CASE RemoveIrps
    BY <2>4 DEF RemoveIrps, RemoveBegin, OffBegin, OffEnd, RemoveJudge, RemoveKeeps, SetPnp, EjectBegin,
       MarkDeleted
  <2> QED
    BY <2>1, <2>2, <2>3, <2>4 DEF Irp, PlainIrps, StartIrp, RemoveIrps
<1>2. \A s \in IrpPcs \cup {"idle", "relations"} :
        s \notin Raising \cup Pace \cup {"release", "settle", "down.off"}
  BY DEF IrpPcs, Raising, Pace, DownLoop
<1> QED
  BY <1>1, <1>2 DEF WayMatch, Aside, Powerers, NoIrp

\* __FdoTerminate: the FDO is unlinked, and cleared, in D3.
LEMMA RemovalAside ==
  ASSUME ControlTypes, Control, WayMatch, Removal
  PROVE  WayMatch' /\ Aside
<1>1. CASE Terminate
  <2>1. /\ pc["pnp"] = "term" /\ pc'["pnp"] \in {"term", "term.wait"}
        /\ pc'["power"] = pc["power"] /\ UNCHANGED <<at, held, irp>>
    BY <1>1 DEF Terminate, ControlTypes, Actors, Workers, Go
  <2>2. fdo'.power = fdo.power /\ (fdo.power = "D3" \/ fdo'.linked = fdo.linked)
    BY <1>1 DEF Terminate, ControlTypes, DerefFdo
  <2> QED
    BY <2>1, <2>2 DEF WayMatch, Aside, Raising, Pace, DownLoop, Powerers
<1>2. CASE JoinSteps
  BY <1>2 DEF WayMatch, Aside, Raising, Pace, DownLoop, ControlTypes, Powerers, Actors, Workers, actorVars,
     Loop, NextTarget, Step, Go, JoinSteps, TerminateWait, AlertThread, JoinThread
<1>3. CASE Sweep
  BY <1>3 DEF WayMatch, Aside, Raising, Pace, DownLoop, ControlTypes, Powerers, Actors, Workers, actorVars,
     Loop, NextTarget, Step, Go, Sweep
<1>4. CASE Terminated
  <2>1. pc["power"] = "dead" /\ irp.minor = "remove" /\ fdo.power = "D3"
    BY <1>4 DEF Control, ControlTypes, LinkMatch, Sweeping, Workers, Places, PnpPlaces, Terminated, IrpPcs, EnumPcs,
       DestroyPcs, UpPcs, DownLoop, Irps
  <2> QED
    BY <1>4, <2>1 DEF WayMatch, Aside, Raising, Pace, DownLoop, ControlTypes, Powerers, Actors, Workers, actorVars,
       Loop, NextTarget, Step, Go, Terminated, NoFdo, NoIrp
<1> QED
  BY <1>1, <1>2, <1>3, <1>4 DEF Removal, JoinSteps

\* What the PnP and power managers begin: a device is started below an FDO in D0.
LEMMA ManagersAside ==
  ASSUME ControlTypes, Control, WayMatch, Managers
  PROVE  WayMatch' /\ Aside
<1>1. CASE QueryRelations \/ RemoveFdo
  BY <1>1 DEF WayMatch, Aside, Raising, Pace, DownLoop, ControlTypes, Powerers, Actors, Workers, actorVars,
     Loop, NextTarget, Step, Go, QueryRelations, RemoveFdo, RefFdo
<1>2. CASE \E m \in Minors, t \in Targets : SendIrp(m, t)
  BY <1>2 DEF WayMatch, Aside, Raising, Pace, DownLoop, ControlTypes, Powerers, Actors, Workers, actorVars,
     Loop, NextTarget, Step, Go, SendIrp, MaySend
<1>3. CASE FindAdapter
  <2>1. /\ \A a \in Powerers : pc[a] \notin Pace \cup {"down.off"}
        /\ \A a \in Powerers : pc'[a] \in {"idle", "up.set"}
        /\ fdo.power = "D3"
    BY <1>3 DEF WayMatch, Control, ControlTypes, BusyMatch, Busy, Pace, DownLoop, PowerPcs, FindAdapter, Powerers,
       Actors, Workers
  <2> QED
    BY <1>3, <2>1 DEF WayMatch, Aside, Raising, Pace, DownLoop, FindAdapter, NoFdo
<1>4. CASE \E state \in {"D0", "D3"} : DispatchPower(state)
  BY <1>4 DEF WayMatch, Aside, Raising, Pace, DownLoop, ControlTypes, Powerers, Actors, Workers, actorVars,
     Loop, NextTarget, Step, Go, DispatchPower, RefFdo
<1> QED
  BY <1>1, <1>2, <1>3, <1>4 DEF Managers

\* Steps with little control: the watches, SRBs and the toolstack.
LEMMA OthersAside ==
  ASSUME ControlTypes, Control, WayMatch, \/ Notify \/ TakeIrp \/ PathsChanged \/ Toolstack \/ IoEnd
         \/ (\E t \in Targets : IoBegin(t)) \/ UNCHANGED vars
  PROVE  WayMatch' /\ Aside
BY DEF WayMatch, Aside, Raising, Pace, DownLoop, ControlTypes, Control, LinkMatch, HeldMatch, Irps, Places,
   PnpPlaces, Notify, TakeIrp, PathsChanged, Toolstack, Migrate, Rewatch, Plug, Unplug, Leave,
   DirectoryChanged, Wake, IoEnd, IoBegin, vars, Enumerators, Actors, Workers, Powerers,
   storeVars, actorVars, scanVars, pnpVars, InLoop, Loop, NextTarget, Step, Go, DerefFdo

\* While one powerer is at work the other is not, and the FDO stays linked.
LEMMA OnePowers ==
  ASSUME ControlTypes, Control, NEW a \in Powerers, Power(a)
  PROVE  /\ pc[a] \in PowerPcs /\ fdo.linked
         /\ \A b \in Powerers \ {a} : pc[b] \notin PowerPcs
         /\ irp.minor # "START_DEVICE"
<1>1. pc[a] \in PowerPcs
  BY DEF PowerPcs, Power, UpSet, SetPower, DownSet, Settle, Acquire, UpGet, OnBegin, OnEnd, UpFails, PutPdo,
     WatchDevices, UnwatchDevices, DownGet, OffBegin, OffEnd, ReleaseInterfaces, Finish
<1>2. CASE a = "power"
  BY <1>1, <1>2 DEF Control, Places, PnpPlaces, BusyMatch, Busy, Powerers, PowerPcs, EnumPcs, DestroyPcs
<1>3. CASE a = "pnp"
  BY <1>1, <1>3 DEF ControlTypes, Irps, Control, Places, PnpPlaces, BusyMatch, Busy, LinkMatch, Powerers,
     PowerPcs, EnumPcs, DestroyPcs, IrpPcs, TermPcs, DownPcs, DownLoop
<1> QED
  BY <1>2, <1>3 DEF Powerers

\* A step of the loops changes little beside its actor.
LEMMA PowerFrame ==
  ASSUME ControlTypes, NEW a \in Powerers, Power(a)
  PROVE  /\ \A b \in Powerers \ {a} : pc'[b] = pc[b]
         /\ irp' \in {irp, NoIrp} /\ fdo'.linked = fdo.linked /\ UNCHANGED table
BY ZenonT(60) DEF ControlTypes, Powerers, Actors, Workers, Power, UpSet, SetPower, DownSet, Settle, Acquire, UpGet,
   GetPdo, OnBegin, OnEnd, UpFails, PutPdo, WatchDevices, UnwatchDevices, DownGet, OffBegin, OffEnd,
   ReleaseInterfaces, Finish, DerefFdo, Loop, NextTarget, Step, Go

\* The ways up and down: no way up fails, so D3 is only set by the way down.
LEMMA PowerWay ==
  ASSUME UpHolds, ControlTypes, Control, WayMatch, NEW a \in Powerers, Power(a)
  PROVE  WayMatch'
<1>1. /\ pc'[a] \in Raising => fdo'.power = "D0"
      /\ pc'[a] \in Pace \cup {"release"} => fdo'.power = "D3"
      /\ pc'[a] # "settle"
  <2> USE DEF WayMatch, Raising, Pace, DownLoop, ControlTypes, Powerers, Actors, Workers, Loop, NextTarget,
              Step, Go
  <2>1. CASE SetSteps(a)
    BY <2>1 DEF SetSteps, UpSet, SetPower, DownSet, Settle, Acquire, UpHolds, MayFail
  <2>2. CASE UpSteps(a)
    BY <2>2 DEF UpSteps, UpGet, GetPdo, OnBegin, OnEnd, UpFails, PutPdo, UpHolds, MayFail
  <2>3. CASE DownSteps(a)
    BY <2>3 DEF DownSteps, WatchDevices, UnwatchDevices, DownGet, GetPdo, OffBegin, OffEnd, PutPdo,
       ReleaseInterfaces, UpHolds, MayFail
  <2>4. CASE Finish(a)
    BY <2>4 DEF Finish
  <2> QED
    BY <2>1, <2>2, <2>3, <2>4 DEF Power, SetSteps, UpSteps, DownSteps
<1>2. \A b \in Powerers \ {a} : pc'[b] \notin Raising \cup Pace \cup {"release", "settle"}
  BY OnePowers, PowerFrame DEF Raising, Pace, DownLoop, PowerPcs
<1>3. irp'.minor # "START_DEVICE" /\ fdo'.linked
  BY OnePowers, PowerFrame DEF NoIrp
<1> QED
  BY <1>1, <1>2, <1>3 DEF WayMatch

\* In D3 no PDO in the table is created or powered up.
LEMMA NoRiseInD3 ==
  ASSUME Control, WayMatch, fdo.power = "D3", NoRise \/ Rises
  PROVE  NoRise
<1>1. \A a \in Enumerators : pc[a] # "new"
  BY DEF Control, LockMatch, HasLock, Section, Enumerators, Actors, Workers
<1>2. (\A a \in Powerers : pc[a] # "up.on") /\ irp.minor # "START_DEVICE"
  BY DEF WayMatch, Raising
<1> QED
  BY <1>1, <1>2 DEF Rises, EnumNew, OnBegin, StartBegin

\* A step that has nothing to do with the loop leaves behind it what is behind it.
LEMMA AsideLags ==
  ASSUME ControlTypes, Control, WayMatch, LagMatch, Aside, NoRise \/ Rises
  PROVE  LagMatch'
<1>1. CASE fdo.power = "D3"
  <2>1. NoRise
    BY <1>1, NoRiseInD3
  <2>2. ASSUME NEW a \in Powerers, pc'[a] = "down.off"
        PROVE  table'[at'[a]] \in {held'[a], Null}
    <3>1. pc[a] = "down.off" /\ at'[a] = at[a] /\ held'[a] = held[a]
      BY <2>2 DEF Aside
    <3>2. at[a] \in Targets
      <4>1. a \in Actors /\ at[a] \in Nat /\ NumTargets \in Nat
        BY LifecycleAssumption DEF ControlTypes, LifecycleAssumption, Powerers, Actors, Workers
      <4>2. at[a] < NumTargets
        BY <3>1, <4>1 DEF Control, HeldMatch, BodyPcs
      <4> QED
        BY <4>1, <4>2 DEF Targets
    <3> QED
      BY <2>1, <3>1, <3>2 DEF NoRise, Fewer, LagMatch
  <2>3. ASSUME NEW t \in Targets, Lags(t)'
        PROVE  Ahead(t)'
    <3>1. Ahead(t)
      BY <1>1, <2>1, <2>3 DEF NoRise, LagMatch
    <3> QED
      BY <3>1 DEF Ahead, Aside, Pace, DownLoop
  <2> QED
    BY <2>2, <2>3 DEF LagMatch
<1>2. CASE fdo.power # "D3"
  BY <1>2 DEF LagMatch, Aside, WayMatch, Pace, DownLoop
<1> QED
  BY <1>1, <1>2

\* The loop of the way down leaves no target in D0 behind it.
LEMMA PowerLags ==
  ASSUME UpHolds, TypeOK, Control, WayMatch, LagMatch, NEW a \in Powerers, Power(a), NoRise \/ Rises
  PROVE  LagMatch'
<1>1. /\ ControlTypes /\ table \in [Targets -> Pdos \cup {Null}] /\ pdo \in [Pdos -> PdoRecords]
      /\ a \in Actors /\ at[a] \in Nat /\ held[a] \in Pdos \cup {Null}
  BY TypeParts DEF PdoTypes, ControlTypes, Powerers, Actors, Workers
<1>2. \A b \in Powerers \ {a} : pc[b] \notin PowerPcs /\ pc'[b] = pc[b]
  BY <1>1, OnePowers, PowerFrame
<1>3. UNCHANGED table
  BY <1>1, PowerFrame
<1> DEFINE
  Before(t) == \/ pc[a] = "unwatch"
               \/ pc[a] \in {"down", "down.off"} /\ at[a] <= t
               \/ pc[a] \in {"down.end", "down.put"} /\ at[a] < t
  After(t) == \/ pc'[a] = "unwatch"
              \/ pc'[a] \in {"down", "down.off"} /\ at'[a] <= t
              \/ pc'[a] \in {"down.end", "down.put"} /\ at'[a] < t
<1>4. \A t \in Targets : Ahead(t) => Before(t)
  BY <1>2 DEF Ahead, PowerPcs
<1>5. \A t \in Targets : After(t) => Ahead(t)'
  BY DEF Ahead
<1>6. fdo.power = "D3" => \A t \in Targets : Lags(t)' => Lags(t) /\ Before(t)
  BY <1>4, NoRiseInD3 DEF NoRise, LagMatch
<1>7. SUFFICES /\ pc'[a] = "down.off" => table[at'[a]] \in {held'[a], Null}
               /\ fdo'.power = "D3" => \A t \in Targets : Lags(t)' => After(t)
  BY <1>2, <1>3, <1>5, <1>7 DEF LagMatch, PowerPcs
<1> HIDE DEF Before, After
<1>8. CASE SetSteps(a) \/ UpSteps(a) \/ WatchDevices(a)
  <2>1. pc'[a] # "down.off" /\ (fdo'.power = "D3" => DownSet(a) /\ pc'[a] \in {"finish", "unwatch"})
    BY <1>1, <1>8 DEF WayMatch, Raising, SetSteps, UpSet, SetPower, DownSet, Settle, Acquire, UpSteps, UpGet,
       GetPdo, OnBegin, OnEnd, UpFails, PutPdo, WatchDevices, UpHolds, MayFail, ControlTypes, Loop,
       NextTarget, Step, Go
  <2>2. DownSet(a) /\ pc'[a] = "finish" => fdo.power = "D3" /\ \A t \in Targets : ~Before(t)
    BY <1>1 DEF DownSet, SetPower, Go, ControlTypes, Before
  <2>3. pc'[a] = "unwatch" => \A t \in Targets : After(t)
    BY DEF After
  <2> QED
    BY <1>6, <2>1, <2>2, <2>3
<1>9. CASE UnwatchDevices(a)
  <2>1. pc'[a] = "down" /\ at'[a] = 0
    BY <1>1, <1>9 DEF UnwatchDevices, Loop, Go, ControlTypes
  <2> QED
    BY <2>1 DEF After, Targets
<1>10. CASE DownGet(a)
  <2>1. pc[a] = "down" /\ UNCHANGED fdo /\ fdo.power = "D3"
    BY <1>10 DEF DownGet, WayMatch, Pace, DownLoop
  <2>2. CASE ~InLoop(a)
    <3>1. pc'[a] = "release"
      BY <1>1, <1>10, <2>2 DEF DownGet, Loop, Go, ControlTypes
    <3>2. \A t \in Targets : ~Before(t)
      BY <1>1, <2>1, <2>2, LifecycleAssumption DEF Before, InLoop, Targets, LifecycleAssumption
    <3> QED
      BY <1>6, <2>1, <3>1, <3>2
  <2>3. CASE InLoop(a) /\ table[at[a]] = Null
    <3>1. pc'[a] = "down" /\ at'[a] = at[a] + 1
      BY <1>1, <1>10, <2>1, <2>3 DEF DownGet, GetPdo, NextTarget, Loop, Go, ControlTypes
    <3>2. \A t \in Targets : Lags(t)' => Before(t) /\ t # at[a]
      BY <1>6, <2>1, <2>3 DEF Lags
    <3> QED
      BY <1>1, <2>1, <3>1, <3>2 DEF Before, After, Targets
  <2>4. CASE InLoop(a) /\ table[at[a]] # Null
    <3>1. pc'[a] = "down.off" /\ at'[a] = at[a] /\ held'[a] = table[at[a]]
      BY <1>1, <1>10, <2>4 DEF DownGet, GetPdo, Step, Go, ControlTypes
    <3> QED
      BY <1>6, <2>1, <3>1 DEF Before, After
  <2> QED
    BY <2>2, <2>3, <2>4
<1>11. CASE OffBegin(a, "down.off", "down.end", "down.put")
  <2>1. /\ pc[a] = "down.off" /\ UNCHANGED <<fdo, at>> /\ fdo.power = "D3"
        /\ pc'[a] \in {"down.end", "down.put"}
    BY <1>1, <1>11 DEF OffBegin, WayMatch, Pace, DownLoop, Go, ControlTypes
  <2>2. at[a] \in Targets /\ table[at[a]] \in {held[a], Null}
    <3>1. at[a] < NumTargets /\ NumTargets \in Nat
      BY <1>1, <2>1, LifecycleAssumption DEF Control, HeldMatch, BodyPcs, LifecycleAssumption
    <3>2. at[a] \in Targets
      BY <1>1, <3>1 DEF Targets
    <3> QED
      BY <2>1, <3>2 DEF LagMatch
  <2>3. held[a] \in Pdos => pdo'[held[a]].power = "D3"
    BY <1>1, <1>11 DEF OffBegin, PdoRecords
  <2>4. \A t \in Targets : Lags(t)' => Before(t) /\ t # at[a]
    BY <1>1, <1>3, <1>6, <2>1, <2>2, <2>3 DEF Lags
  <2> QED
    BY <1>1, <2>1, <2>4 DEF Before, After, Targets
<1>12. CASE OffEnd(a, "down.end", "down.put")
  <2>1. /\ pc[a] = "down.end" /\ pc'[a] = "down.put" /\ UNCHANGED <<fdo, at>> /\ fdo.power = "D3"
    BY <1>1, <1>12 DEF OffEnd, WayMatch, Pace, DownLoop, Go, ControlTypes
  <2> QED
    BY <1>6, <2>1 DEF Before, After
<1>13. CASE PutPdo(a, "down.put", "down")
  <2>1. /\ pc[a] = "down.put" /\ pc'[a] = "down" /\ UNCHANGED fdo /\ fdo.power = "D3"
        /\ at'[a] = at[a] + 1
    BY <1>1, <1>13 DEF PutPdo, WayMatch, Pace, DownLoop, NextTarget, Loop, Go, ControlTypes
  <2> QED
    BY <1>1, <1>6, <2>1 DEF Before, After, Targets
<1>14. CASE ReleaseInterfaces(a) \/ Finish(a)
  <2>1. /\ pc[a] \in {"release", "finish"} /\ fdo'.power = fdo.power
        /\ pc'[a] # "down.off"
    BY <1>1, <1>14 DEF ReleaseInterfaces, Finish, DerefFdo, Go, ControlTypes
  <2> QED
    BY <1>6, <2>1 DEF Before
<1> QED
  BY <1>8, <1>9, <1>10, <1>11, <1>12, <1>13, <1>14 DEF Power, SetSteps, UpSteps

\* Each group of steps keeps the way down.
LEMMA GroupsFollow ==
  ASSUME UpHolds, LInv, FollowMatch, StepOf, NoRise \/ Rises
  PROVE  FollowMatch'
<1>1. TypeOK /\ ControlTypes /\ Control /\ WayMatch /\ LagMatch
  BY TypeParts DEF LInv, FollowMatch
<1>2. CASE \E a \in Powerers : Power(a)
  BY <1>1, <1>2, PowerWay, PowerLags DEF FollowMatch
<1>3. CASE ~\E a \in Powerers : Power(a)
  <2>1. WayMatch' /\ Aside
    <3>1. CASE \E w \in Workers : Worker(w)
      BY <1>1, <3>1, WorkerAside
    <3>2. CASE \E a \in Enumerators : LockFdo(a) \/ Enumerate(a) \/ Destroy(a)
      BY <1>1, <3>2, LockAside, EnumerateAside, DestroyAside
    <3>3. CASE \/ RelationsEnd \/ Irp \/ Removal \/ Managers
      BY <1>1, <3>3, IrpAside, RemovalAside, ManagersAside
    <3>4. CASE \/ Notify \/ TakeIrp \/ PathsChanged \/ Toolstack \/ IoEnd
               \/ (\E t \in Targets : IoBegin(t)) \/ UNCHANGED vars
      BY <1>1, <3>4, OthersAside
    <3> QED
      BY <1>3, <3>1, <3>2, <3>3, <3>4 DEF StepOf
  <2> QED
    BY <1>1, <2>1, AsideLags DEF FollowMatch
<1> QED
  BY <1>2, <1>3

\* When neither PdoD3ToD0 nor a registration of the way up fails, every PDO in the table is
\* in D3 once the FDO is, whatever else goes on: __FdoD0ToD3 leaves none behind
\* (fdo.c:1087-1120) and none is created or powered up below an FDO in D3.  When one fails
\* this does not hold: __FdoD3ToD0 powers the targets down before __FdoSetDevicePowerState.
THEOREM TargetsFollowDown ==
  ASSUME UpHolds
  PROVE  Spec => []TargetsFollow
<1> DEFINE FInv == PInv /\ FollowMatch
<1>1. Init => FInv
  <2> SUFFICES ASSUME Init
               PROVE  PInv /\ FollowMatch
    OBVIOUS
  <2>1. PInv
    BY InitPower
  <2>2. \A a \in Powerers : pc[a] \in {"idle", "dead"}
    BY DEF Init, Powerers, Actors, Workers
  <2>3. fdo.power = "D3" /\ irp.minor = "none" /\ \A t \in Targets : ~Lags(t)
    BY DEF Init, NoFdo, NoIrp, Lags
  <2> QED
    BY <2>1, <2>2, <2>3 DEF FollowMatch, WayMatch, LagMatch, Raising, Pace, DownLoop
<1>2. FInv /\ [Next]_vars => FInv'
  <2> SUFFICES ASSUME PInv, FollowMatch, [Next]_vars
               PROVE  PInv' /\ FollowMatch'
    OBVIOUS
  <2>1. LInv'
    BY NextLife DEF PInv
  <2>2. LInv /\ StepOf /\ PowerMatch' /\ AcquiredMatch' /\ (NoRise \/ Rises)
    BY <2>1, StepsOf, GroupsKeepPower DEF PInv, LInv
  <2> QED
    BY <2>1, <2>2, GroupsFollow DEF PInv
<1>3. FInv => TargetsFollow
  <2> SUFFICES ASSUME PInv, FollowMatch, fdo.power = "D3", \A a \in Powerers : pc[a] \notin PowerPcs,
                      NEW t \in Targets, table[t] # Null
               PROVE  pdo[table[t]].power = "D3"
    BY DEF TargetsFollow
  <2>1. ~Ahead(t)
    BY DEF Ahead, PowerPcs
  <2>2. ~Lags(t)
    BY <2>1 DEF FollowMatch, LagMatch
  <2>3. pdo[table[t]].power \in {"D0", "D3"}
    BY TypeParts DEF PInv, LInv, PdoTypes, PdoRecords
  <2> QED
    BY <2>2, <2>3 DEF Lags
<1> HIDE DEF FInv
<1> QED
  BY <1>1, <1>2, <1>3, PTL DEF Spec

-----------------------------------------------------------------------------
\* Ejections.

\* A device that a PDO in the table knows.
Mapped(t) == table[t] # Null /\ pdo[table[t]].devobj

\* The PnP thread has an IRP for the device of a target.  The PnP manager knows the device; the
\* PDO the thread holds has its slot until RescanThread unlinks it, and keeps the slot empty while
\* it is destroyed; and an ejection it had waiting was passed on first.
Leaving(p) == pc["scan"] \in DestroyPcs \ {"unlink"} /\ held["scan"] = p
SlotFits(t, p) == table[t] = p \/ (table[t] = Null /\ Leaving(p))
OwnMatch ==
  LET p == held["pnp"] IN
    p # Null => /\ pdo[p].devobj /\ SlotFits(irp.t, p)
                /\ pc["pnp"] # "irp.pending" => ~pdo[p].ejectPending
IrpMatch ==
  pc["pnp"] \in IrpPcs =>
    /\ node[irp.t] # "none"
    /\ irp.minor = "QUERY_ID" => node[irp.t] = "new"
    /\ pc["pnp"] = "irp.map" => irp.minor = "QUERY_ID"
    /\ pc["pnp"] = "irp.pass" => irp.minor = "QUERY_ID" \/ ~Mapped(irp.t)
    /\ OwnMatch
PendMatch == IrpMatch /\ EjectNotForgotten

\* A step that leaves alone what ejections are about.
SameEject(p) ==
  /\ pdo'[p].devobj = pdo[p].devobj
  /\ pdo[p].devobj => pdo'[p].ejectPending = pdo[p].ejectPending
SameEjects == \A p \in Pdos : SameEject(p)
Underway == IrpPcs \ {"irp.map", "irp.pending", "irp.pass"}
PnpAside ==
  pc'["pnp"] \in IrpPcs =>
    /\ pc'["pnp"] = pc["pnp"] \/ (pc["pnp"] \in Underway /\ pc'["pnp"] \in Underway)
    /\ held'["pnp"] = held["pnp"] /\ irp' = irp
ScanAside == pc["scan"] \in DestroyPcs => pc'["scan"] = pc["scan"] /\ held'["scan"] = held["scan"]
EjectAside == UNCHANGED <<table, node>> /\ SameEjects /\ PnpAside /\ ScanAside

Handles(p) ==
  \/ Touches(p) \/ pdo' = SetMissing(pdo, p)
  \/ \E s, r : pdo' = PutPnp(SetMissing(pdo, p), p, s, r)
\* None of these is about ejections.
LEMMA HandlesNoEject ==
  ASSUME pdo \in [Pdos -> PdoRecords], NEW p, Handles(p)
  PROVE  SameEjects
<1> SUFFICES ASSUME NEW q \in Pdos
             PROVE  pdo'[q].devobj = pdo[q].devobj /\ pdo'[q].ejectPending = pdo[q].ejectPending
  BY DEF SameEjects, SameEject
<1> USE DEF PdoRecords
<1>1. CASE UNCHANGED pdo
  BY <1>1
<1>2. CASE pdo' = Ref(pdo, p) \/ pdo' = Deref(pdo, p)
  BY <1>2 DEF Ref, Deref
<1>3. CASE pdo' = SetMissing(Ref(pdo, p), p) \/ pdo' = SetMissing(pdo, p)
  BY <1>3 DEF Ref, SetMissing
<1>4. CASE pdo' = PutPower(pdo, p, "D0") \/ pdo' = PutPower(pdo, p, "D3")
  BY <1>4 DEF PutPower
<1>5. CASE pdo' = PutFrontend(pdo, p, TRUE) \/ pdo' = PutFrontend(pdo, p, FALSE)
  BY <1>5 DEF PutFrontend
<1>6. CASE pdo' = Deref(PutPower(pdo, p, "D3"), p)
  BY <1>6 DEF Deref, PutPower
<1>7. ASSUME NEW s, NEW r, pdo' = PutPnp(pdo, p, s, r) \/ pdo' = PutPnp(SetMissing(pdo, p), p, s, r)
      PROVE  pdo'[q].devobj = pdo[q].devobj /\ pdo'[q].ejectPending = pdo[q].ejectPending
  BY <1>7 DEF PutPnp, SetMissing
<1> QED
  BY <1>1, <1>2, <1>3, <1>4, <1>5, <1>6, <1>7 DEF Handles, Touches

\* What is known of the variables.
LEMMA EjectTypes ==
  ASSUME LInv
  PROVE  /\ ControlTypes /\ table \in [Targets -> Pdos \cup {Null}] /\ pdo \in [Pdos -> PdoRecords]
         /\ node \in [Targets -> Nodes] /\ asked \subseteq Targets
         /\ irp.t \in Targets /\ held["pnp"] \in Pdos \cup {Null}
         /\ \A t \in Targets : table[t] \in Pdos \cup {Null}
         /\ {"pnp", "scan", "front", "power", "io"} \subseteq Actors
         /\ Null \notin Pdos
<1>1. ControlTypes /\ PdoTypes /\ OtherTypes
  BY TypeParts DEF LInv
<1>2. {"pnp", "scan", "front", "power", "io"} \subseteq Actors
  BY DEF Actors, Workers
<1> QED
  BY <1>1, <1>2, LifecycleAssumption DEF ControlTypes, PdoTypes, OtherTypes, Irps, LifecycleAssumption

\* Steps aside keep the match.
LEMMA AsideKeepsPend ==
  ASSUME LInv, PendMatch, EjectAside
  PROVE  PendMatch'
<1>1. /\ table \in [Targets -> Pdos \cup {Null}] /\ irp.t \in Targets /\ held["pnp"] \in Pdos \cup {Null}
      /\ table' = table /\ node' = node
  BY EjectTypes DEF EjectAside
<1>2. \A t \in Targets : (Mapped(t)' <=> Mapped(t)) /\
        (Mapped(t) => pdo'[table[t]].ejectPending = pdo[table[t]].ejectPending)
  BY <1>1 DEF Mapped, EjectAside, SameEjects, SameEject
<1>3. IrpMatch'
  <2> SUFFICES ASSUME pc'["pnp"] \in IrpPcs
               PROVE  IrpMatch'
    BY DEF IrpMatch
  <2>1. /\ pc'["pnp"] = pc["pnp"] \/ (pc["pnp"] \in Underway /\ pc'["pnp"] \in Underway)
        /\ held'["pnp"] = held["pnp"] /\ irp' = irp
    BY DEF EjectAside, PnpAside
  <2>2. OwnMatch /\ node[irp.t] # "none" /\ (irp.minor = "QUERY_ID" => node[irp.t] = "new") /\ (pc["pnp"] = "irp.map" => irp.minor = "QUERY_ID")
        /\ (pc["pnp"] = "irp.pass" => irp.minor = "QUERY_ID" \/ ~Mapped(irp.t))
    BY <2>1 DEF PendMatch, IrpMatch, Underway
  <2>3. \A p : Leaving(p) => Leaving(p)'
    BY DEF Leaving, EjectAside, ScanAside
  <2>4. OwnMatch'
    BY <1>1, <2>1, <2>2, <2>3 DEF OwnMatch, SlotFits, EjectAside, SameEjects, SameEject, Underway
  <2>5. Mapped(irp.t)' <=> Mapped(irp.t)
    BY <1>1, <1>2, <2>1 DEF Mapped
  <2> QED
    BY <1>1, <2>1, <2>2, <2>4, <2>5 DEF IrpMatch, Underway
<1>4. EjectNotForgotten'
  BY <1>1, <1>2 DEF PendMatch, EjectNotForgotten, Mapped
<1> QED
  BY <1>3, <1>4 DEF PendMatch

\* A worker thread wakes up, or ends.
LEMMA WorkerPend ==
  ASSUME LInv, PendMatch, NEW a \in Workers, Worker(a)
  PROVE  PendMatch' /\ SameEjects
<1>1. ControlTypes
  BY EjectTypes
<1>2. SameEjects
  BY DEF SameEjects, SameEject, Worker, WaitEnds, ClearEvent
<1>3. UNCHANGED <<table, node>> /\ PnpAside /\ ScanAside
  BY <1>1 DEF PnpAside, ScanAside, Worker, WaitEnds, ClearEvent, ControlTypes, Workers, Actors, DestroyPcs,
     pnpVars, Go
<1> QED
  BY <1>2, <1>3, AsideKeepsPend DEF EjectAside

\* Fdo->Lock is taken.
LEMMA LockPend ==
  ASSUME LInv, PendMatch, NEW a \in Enumerators, LockFdo(a)
  PROVE  PendMatch' /\ SameEjects
<1>1. ControlTypes
  BY EjectTypes
<1>2. SameEjects
  BY DEF SameEjects, SameEject, LockFdo
<1>3. UNCHANGED <<table, node>> /\ PnpAside /\ ScanAside
  BY <1>1 DEF PnpAside, ScanAside, LockFdo, ControlTypes, Workers, Actors, Enumerators, DestroyPcs, IrpPcs,
     pnpVars, Loop, Go
<1> QED
  BY <1>2, <1>3, AsideKeepsPend DEF EjectAside

\* A new PDO has no device yet, and comes into a slot that nobody's IRP is about.
LEMMA CreatesPend ==
  ASSUME LInv, PendMatch, NEW a \in Enumerators, EnumNew(a), NEW t \in Targets, NEW p \in Pdos, Creates(t, p)
  PROVE  PendMatch' /\ NoNewDevice
<1>1. /\ ControlTypes /\ table \in [Targets -> Pdos \cup {Null}] /\ pdo \in [Pdos -> PdoRecords]
      /\ irp.t \in Targets /\ held["pnp"] \in Pdos \cup {Null} /\ Null \notin Pdos
      /\ "pnp" \in Actors /\ "scan" \in Actors
  BY EjectTypes
<1>2. /\ table[t] = Null /\ table' = [table EXCEPT ![t] = p] /\ ~pdo[p].live
      /\ ~pdo'[p].devobj /\ \A q \in Pdos \ {p} : pdo'[q] = pdo[q]
  BY DEF Creates, OnlyAt, NewPdo
<1>3. UNCHANGED <<node, irp, held>> /\ pc[a] = "new" /\ pc' = [pc EXCEPT ![a] = "new"]
  BY DEF EnumNew, Loop, Go, pnpVars
<1>4. pc' = pc
  BY <1>1, <1>3 DEF ControlTypes
<1>5. \A u \in Targets : Mapped(u)' => u # t /\ table'[u] = table[u] /\ table[u] # p /\ Mapped(u)
  <2> SUFFICES ASSUME NEW u \in Targets, Mapped(u)'
               PROVE  u # t /\ table'[u] = table[u] /\ table[u] # p /\ Mapped(u)
    OBVIOUS
  <2>1. u # t /\ table'[u] = table[u] /\ table[u] \in Pdos
    BY <1>1, <1>2 DEF Mapped
  <2>2. pdo[table[u]].live
    BY <1>1, <2>1 DEF LInv, Live
  <2> QED
    BY <1>2, <2>1, <2>2 DEF Mapped
<1>6. IrpMatch'
  <2> SUFFICES ASSUME pc["pnp"] \in IrpPcs
               PROVE  IrpMatch'
    BY <1>4 DEF IrpMatch
  <2>1. a = "scan" /\ pc["scan"] = "new"
    BY <1>3 DEF Enumerators, IrpPcs
  <2>2. OwnMatch /\ node[irp.t] # "none" /\ (irp.minor = "QUERY_ID" => node[irp.t] = "new") /\ (pc["pnp"] = "irp.map" => irp.minor = "QUERY_ID")
        /\ (pc["pnp"] = "irp.pass" => irp.minor = "QUERY_ID" \/ ~Mapped(irp.t))
    BY DEF PendMatch, IrpMatch
  <2>3. OwnMatch'
    <3> SUFFICES ASSUME held["pnp"] # Null
                 PROVE  OwnMatch'
      BY <1>3 DEF OwnMatch
    <3>1. table[irp.t] = held["pnp"]
      BY <2>1, <2>2 DEF OwnMatch, SlotFits, Leaving, DestroyPcs
    <3>2. held["pnp"] # p /\ irp.t # t
      BY <1>1, <1>2, <3>1 DEF LInv, Live
    <3>3. table'[irp.t] = held["pnp"] /\ pdo'[held["pnp"]] = pdo[held["pnp"]]
      BY <1>1, <1>2, <3>1, <3>2
    <3> QED
      BY <1>3, <1>4, <2>2, <3>3 DEF OwnMatch, SlotFits
  <2> QED
    BY <1>1, <1>3, <1>4, <1>5, <2>2, <2>3 DEF IrpMatch, Mapped
<1>7. EjectNotForgotten'
  <2> SUFFICES ASSUME NEW u \in Targets, table'[u] # Null, pdo'[table'[u]].ejectPending, pdo'[table'[u]].devobj
               PROVE  node[u] \in {"none", "new", "known"}
    BY <1>3 DEF EjectNotForgotten
  <2>1. u # t /\ table'[u] = table[u] /\ table[u] # p /\ Mapped(u)
    BY <1>5 DEF Mapped
  <2>2. pdo'[table[u]] = pdo[table[u]]
    BY <1>1, <1>2, <2>1 DEF Mapped
  <2> QED
    BY <2>1, <2>2 DEF PendMatch, EjectNotForgotten, Mapped
<1>8. NoNewDevice
  BY <1>2 DEF NoNewDevice
<1> QED
  BY <1>6, <1>7, <1>8 DEF PendMatch

\* __FdoEnumerate.
LEMMA EnumeratePend ==
  ASSUME LInv, PendMatch, NEW a \in Enumerators, Enumerate(a)
  PROVE  PendMatch' /\ NoNewDevice
<1>1. /\ ControlTypes /\ table \in [Targets -> Pdos \cup {Null}] /\ pdo \in [Pdos -> PdoRecords]
      /\ TypeOK /\ Control
  BY EjectTypes DEF LInv
<1>2. CASE EnumNew(a) /\ ~UNCHANGED <<table, pdo>>
  BY <1>1, <1>2, NewClass, CreatesPend
<1>3. CASE ~(EnumNew(a) /\ ~UNCHANGED <<table, pdo>>)
  <2>1. Handles(table[at[a]]) \/ Handles(held[a])
    <3>1. CASE EnumGet(a) \/ EnumJudge(a)
      BY <3>1 DEF Handles, Touches, EnumGet, EnumJudge
    <3>2. CASE EnumDelete(a)
      <4>1. UNCHANGED pdo \/ \E r : pdo' = PutPnp(pdo, held[a], "Deleted", r)
        BY <3>2 DEF EnumDelete, SetPnp, PutPnp
      <4> QED
        BY <4>1 DEF Handles, Touches
    <3>3. CASE ~(EnumGet(a) \/ EnumJudge(a) \/ EnumDelete(a))
      <4>1. UNCHANGED pdo
        BY <1>3, <3>3 DEF Enumerate, ReadDirectory, EnumPresent, EnumNew, EnumEnds, UnlockFdo
      <4> QED
        BY <4>1 DEF Handles, Touches
    <3> QED
      BY <3>1, <3>2, <3>3
  <2>2. SameEjects
    BY <1>1, <2>1, HandlesNoEject
  <2>3. UNCHANGED <<table, node>>
    BY <1>3 DEF Enumerate, ReadDirectory, EnumGet, EnumPresent, EnumDelete, EnumJudge, EnumNew, EnumEnds,
       UnlockFdo, pnpVars
  <2>4. PnpAside /\ ScanAside
    BY <1>1 DEF PnpAside, ScanAside, ControlTypes, Workers, Actors, Enumerators, DestroyPcs, IrpPcs, Enumerate,
       ReadDirectory, EnumGet, EnumPresent, EnumDelete, EnumJudge, EnumNew, EnumEnds, UnlockFdo, SetPnp,
       Loop, NextTarget, Step, Go
  <2> QED
    BY <2>2, <2>3, <2>4, AsideKeepsPend DEF EjectAside, NoNewDevice, SameEjects, SameEject
<1> QED
  BY <1>2, <1>3

\* The ways up and down.
LEMMA PowerPend ==
  ASSUME LInv, PendMatch, NEW a \in Powerers, Power(a)
  PROVE  PendMatch' /\ SameEjects
<1>1. ControlTypes /\ pdo \in [Pdos -> PdoRecords]
  BY EjectTypes
<1>2. Handles(table[at[a]]) \/ Handles(held[a])
  BY DEF Handles, Touches, PutPower, PutFrontend, Power, UpSet, SetPower, DownSet, Settle, Acquire, UpGet,
     GetPdo, OnBegin, OnEnd, OnFails, UpFails, PutPdo, WatchDevices, UnwatchDevices, DownGet, OffBegin, OffEnd,
     ReleaseInterfaces, Finish
<1>3. SameEjects
  BY <1>1, <1>2, HandlesNoEject
<1>4. UNCHANGED <<table, node>>
  BY DEF Power, UpSet, SetPower, DownSet, Settle, Acquire, UpGet, OnBegin, OnEnd, UpFails, PutPdo,
     WatchDevices, UnwatchDevices, DownGet, OffBegin, OffEnd, ReleaseInterfaces, Finish, pnpVars
<1>5. PnpAside /\ ScanAside
  BY <1>1 DEF PnpAside, ScanAside, ControlTypes, Powerers, Actors, Workers, IrpPcs, Power, UpSet, SetPower,
     DownSet, Settle, Acquire, UpGet, GetPdo, OnBegin, OnEnd, UpFails, PutPdo, WatchDevices, UnwatchDevices,
     DownGet, OffBegin, OffEnd, ReleaseInterfaces, Finish, Loop, NextTarget, Step, Go
<1> QED
  BY <1>3, <1>4, <1>5, AsideKeepsPend DEF EjectAside

\* PdoDestroy: what the PnP thread holds is not freed.
LEMMA DestroyPend ==
  ASSUME LInv, PendMatch, NEW a \in Enumerators, Destroy(a)
  PROVE  PendMatch' /\ NoNewDevice
<1>1. /\ ControlTypes /\ table \in [Targets -> Pdos \cup {Null}] /\ pdo \in [Pdos -> PdoRecords]
      /\ irp.t \in Targets /\ held["pnp"] \in Pdos \cup {Null} /\ Null \notin Pdos
      /\ "pnp" \in Actors /\ "scan" \in Actors /\ a \in Actors
      /\ TypeOK /\ Control /\ Live
  BY EjectTypes DEF LInv, Enumerators
<1>2. /\ UNCHANGED <<node, irp>> /\ pc[a] \in DestroyPcs
      /\ \A b \in Actors \ {a} : pc'[b] = pc[b] /\ held'[b] = held[b]
      /\ pc'[a] \in DestroyPcs \cup {"sweep", "get"}
      /\ pc'[a] \in DestroyPcs => (pc'[a] # "unlink" \/ pc'[a] = pc[a]) /\ held'[a] = held[a]
  BY <1>1 DEF Destroy, Unlink, OffBegin, OffEnd, DropInitial, Free, NextTarget, Loop, Go, ControlTypes,
     DestroyPcs, actorVars, pnpVars
<1>3. held[a] \in Pdos
  BY <1>1, <1>2, HeldFacts
<1>4. \A q \in Pdos \ {held[a]} : SameEject(q)
  BY <1>1 DEF SameEject, Destroy, Unlink, OffBegin, OffEnd, DropInitial, Free, Deref
<1>5. SameEject(held[a]) \/ (Free(a) /\ ~pdo'[held[a]].devobj)
  <2>1. CASE Free(a)
    <3>1. ~FreedPdo.devobj
      BY DEF FreedPdo, NewPdo
    <3>2. UNCHANGED pdo \/ pdo' = [pdo EXCEPT ![held[a]] = FreedPdo]
      BY <2>1 DEF Free
    <3> QED
      BY <1>1, <1>3, <2>1, <3>1, <3>2 DEF SameEject
  <2>2. CASE ~Free(a)
    <3>1. Handles(held[a])
      BY <2>2 DEF Handles, Touches, PutPower, PutFrontend, Destroy, Unlink, OffBegin, OffEnd, DropInitial
    <3> QED
      BY <1>1, <1>3, <3>1, HandlesNoEject DEF SameEjects
  <2> QED
    BY <2>1, <2>2
<1>6. NoNewDevice
  BY <1>4, <1>5 DEF NoNewDevice, SameEject
<1>7. \A t \in Targets : table'[t] # Null => table'[t] = table[t] /\ table[t] \in Pdos /\ SameEject(table[t])
  <2> SUFFICES ASSUME NEW t \in Targets, table'[t] # Null
               PROVE  table'[t] = table[t] /\ table[t] \in Pdos /\ SameEject(table[t])
    OBVIOUS
  <2>1. table'[t] = table[t]
    BY <1>1 DEF Destroy, Unlink, OffBegin, OffEnd, DropInitial, Free
  <2>2. table[t] # held[a] \/ ~Free(a)
    <3>1. Free(a) => ~InTable(held[a])
      BY <1>1, <1>2 DEF LInv, DestroyMatch, Free
    <3> QED
      BY <3>1 DEF InTable
  <2> QED
    BY <1>1, <1>4, <1>5, <2>1, <2>2
<1>8. EjectNotForgotten'
  BY <1>2, <1>7 DEF PendMatch, EjectNotForgotten, SameEject
<1>9. IrpMatch'
  <2> SUFFICES ASSUME pc'["pnp"] \in IrpPcs
               PROVE  IrpMatch'
    BY DEF IrpMatch
  <2>1. a = "scan" /\ pc'["pnp"] = pc["pnp"] /\ held'["pnp"] = held["pnp"]
    BY <1>1, <1>2 DEF Enumerators, IrpPcs, DestroyPcs
  <2>2. OwnMatch /\ node[irp.t] # "none" /\ (irp.minor = "QUERY_ID" => node[irp.t] = "new") /\ (pc["pnp"] = "irp.map" => irp.minor = "QUERY_ID")
        /\ (pc["pnp"] = "irp.pass" => irp.minor = "QUERY_ID" \/ ~Mapped(irp.t))
    BY <2>1 DEF PendMatch, IrpMatch
  <2>3. ASSUME held["pnp"] # Null
        PROVE  SameEject(held["pnp"]) /\ SlotFits(irp.t, held["pnp"])'
    <3>1. pc["pnp"] \in Counting
      BY <1>1, <2>1, <2>3 DEF Control, HeldMatch, IrpPcs, DestroyPcs, Counting
    <3>2. pdo[held["pnp"]].refs > 0
      BY <1>1, <3>1, HoldersHold DEF LInv, CountsHeld
    <3>3. Free(a) => held["pnp"] # held[a] \/ SameEject(held[a])
      BY <1>1, <1>3, <3>2 DEF Free, Own, ReferencesCounted, LInv, SameEject
    <3>4. SameEject(held["pnp"])
      BY <1>1, <1>4, <1>5, <2>3, <3>3
    <3>5. CASE Unlink(a)
      <4>1. pc["scan"] = "unlink" /\ pc'["scan"] = "destroy.off" /\ held'["scan"] = held["scan"]
        BY <1>1, <2>1, <3>5 DEF Unlink, Go, ControlTypes
      <4>2. table[irp.t] = held["pnp"]
        BY <2>2, <2>3, <4>1 DEF OwnMatch, SlotFits, Leaving
      <4>3. table'[irp.t] = IF held["pnp"] = held["scan"] THEN Null ELSE held["pnp"]
        BY <1>1, <2>1, <3>5, <4>2 DEF Unlink
      <4> QED
        BY <1>2, <2>1, <3>4, <4>1, <4>3 DEF SlotFits, Leaving, DestroyPcs
    <3>6. CASE ~Unlink(a)
      <4>1. UNCHANGED table /\ (pc[a] = "unlink" => FALSE)
        BY <3>6 DEF Destroy, Unlink, OffBegin, OffEnd, DropInitial, Free
      <4>2. Leaving(held["pnp"]) => Leaving(held["pnp"])'
        <5> SUFFICES ASSUME Leaving(held["pnp"])
                     PROVE  Leaving(held["pnp"])'
          OBVIOUS
        <5>1. held[a] = held["pnp"]
          BY <2>1 DEF Leaving
        <5>2. ~(Free(a) /\ pc'[a] \notin DestroyPcs)
          BY <1>1, <1>3, <3>2, <5>1 DEF Free, Own, ReferencesCounted, LInv, actorVars, DestroyPcs
        <5>3. pc'[a] \in DestroyPcs \ {"unlink"} /\ held'[a] = held[a]
          BY <1>1, <1>2, <4>1, <5>2 DEF Destroy, Unlink, OffBegin, OffEnd, DropInitial, Go, ControlTypes, DestroyPcs
        <5> QED
          BY <2>1, <5>1, <5>3 DEF Leaving
      <4> QED
        BY <1>2, <2>1, <2>2, <2>3, <3>4, <4>1, <4>2 DEF OwnMatch, SlotFits
    <3> QED
      BY <3>5, <3>6
  <2>4. OwnMatch'
    BY <1>2, <2>1, <2>2, <2>3 DEF OwnMatch, SameEject
  <2>5. Mapped(irp.t)' => Mapped(irp.t)
    BY <1>1, <1>2, <1>7 DEF Mapped, SameEject
  <2> QED
    BY <1>2, <2>1, <2>2, <2>4, <2>5 DEF IrpMatch
<1> QED
  BY <1>6, <1>8, <1>9 DEF PendMatch

\* An IRP of the PnP thread: the device is mapped, an ejection that was waiting is passed on, and
\* in the end the device's node goes on.
LEMMA IrpPend ==
  ASSUME LInv, PendMatch, RelationsEnd \/ Irp
  PROVE  PendMatch' /\ (NoNewDevice \/ MapPdo)
<1>1. /\ ControlTypes /\ table \in [Targets -> Pdos \cup {Null}] /\ pdo \in [Pdos -> PdoRecords]
      /\ irp.t \in Targets /\ held["pnp"] \in Pdos \cup {Null} /\ Null \notin Pdos
      /\ "pnp" \in Actors /\ "scan" \in Actors /\ node \in [Targets -> Nodes]
      /\ Control /\ Live
  BY EjectTypes DEF LInv
<1>2. CASE RelationsEnd
  <2>1. /\ UNCHANGED <<table, pdo>> /\ pc'["pnp"] = "idle"
        /\ \A t \in Targets : node'[t] \in {node[t], "new"}
    BY <1>1, <1>2 DEF RelationsEnd, Go, ControlTypes
  <2> QED
    BY <2>1 DEF PendMatch, IrpMatch, IrpPcs, EjectNotForgotten, NoNewDevice
<1>3. ASSUME pc["pnp"] \in IrpPcs
      PROVE  /\ OwnMatch /\ node[irp.t] # "none" /\ (irp.minor = "QUERY_ID" => node[irp.t] = "new")
             /\ (pc["pnp"] = "irp.map" => irp.minor = "QUERY_ID")
             /\ (pc["pnp"] = "irp.pass" => irp.minor = "QUERY_ID" \/ ~Mapped(irp.t))
  BY <1>3 DEF PendMatch, IrpMatch
<1>4. \A t, u \in Targets : table[t] # Null /\ table[t] = table[u] => t = u
  BY <1>1 DEF Live
<1>5. CASE MapPdo
  <2>1. pc["pnp"] = "irp.map" /\ UNCHANGED <<table, node, irp, held>>
    BY <1>5 DEF MapPdo, pnpVars
  <2>2. held["pnp"] = Null /\ irp.minor = "QUERY_ID" /\ node[irp.t] = "new"
    BY <1>1, <1>3, <2>1 DEF Control, HeldMatch, IrpPcs, Counting, DestroyPcs
  <2>3. pc'["pnp"] \in {"irp.map", "irp.pass"}
    BY <1>1, <1>5, <2>1 DEF MapPdo, Go, ControlTypes
  <2>4. IrpMatch'
    BY <2>1, <2>2, <2>3 DEF IrpMatch, OwnMatch
  <2>5. \A p \in Pdos : pdo'[p].ejectPending = pdo[p].ejectPending
                          /\ (p # table[irp.t] => pdo'[p].devobj = pdo[p].devobj)
    BY <1>1, <1>5 DEF MapPdo, PdoRecords
  <2>6. EjectNotForgotten'
    <3> SUFFICES ASSUME NEW t \in Targets, table[t] # Null, pdo'[table[t]].ejectPending, pdo'[table[t]].devobj,
                        t # irp.t
                 PROVE  node[t] \in {"none", "new", "known"}
      BY <2>1, <2>2 DEF EjectNotForgotten
    <3>1. table[t] \in Pdos /\ table[t] # table[irp.t]
      BY <1>1, <1>4
    <3> QED
      BY <2>5, <3>1 DEF PendMatch, EjectNotForgotten
  <2> QED
    BY <1>5, <2>4, <2>6 DEF PendMatch
<1>6. CASE CheckEjectPending
  <2>1. /\ pc["pnp"] = "irp.pending" /\ UNCHANGED <<table, node, irp, held>>
        /\ pc' = [pc EXCEPT !["pnp"] = "irp.do"]
    BY <1>6 DEF CheckEjectPending, Go
  <2>2. pc'["pnp"] = "irp.do" /\ pc'["scan"] = pc["scan"]
    BY <1>1, <2>1 DEF ControlTypes
  <2>3. held["pnp"] \in Pdos
    BY <1>1, <2>1, HeldFacts DEF LInv, Counting, IrpPcs
  <2>4. /\ \A p \in Pdos : pdo'[p].devobj = pdo[p].devobj /\ (pdo'[p].ejectPending => pdo[p].ejectPending)
        /\ ~pdo'[held["pnp"]].ejectPending
    <3>1. CASE pdo[held["pnp"]].ejectPending
      <4>1. pdo' = PutNoEject(pdo, held["pnp"])
        BY <1>6, <3>1 DEF CheckEjectPending, PutNoEject
      <4> QED
        BY <1>1, <2>3, <4>1 DEF PutNoEject, PdoRecords
    <3>2. CASE ~pdo[held["pnp"]].ejectPending
      <4>1. UNCHANGED pdo
        BY <1>6, <3>2 DEF CheckEjectPending
      <4> QED
        BY <3>2, <4>1
    <3> QED
      BY <3>1, <3>2
  <2>5. OwnMatch'
    BY <1>3, <2>1, <2>2, <2>3, <2>4 DEF OwnMatch, SlotFits, Leaving, IrpPcs
  <2>6. IrpMatch'
    BY <1>3, <2>1, <2>2, <2>5 DEF IrpMatch, IrpPcs
  <2>7. EjectNotForgotten'
    <3> SUFFICES ASSUME NEW t \in Targets, table[t] # Null, pdo'[table[t]].ejectPending, pdo'[table[t]].devobj
                 PROVE  node[t] \in {"none", "new", "known"}
      BY <2>1 DEF EjectNotForgotten
    <3>1. table[t] \in Pdos
      BY <1>1
    <3> QED
      BY <2>4, <3>1 DEF PendMatch, EjectNotForgotten
  <2> QED
    BY <2>4, <2>6, <2>7 DEF PendMatch, NoNewDevice
<1>7. CASE IrpEnd
  <2>1. /\ pc["pnp"] \in {"irp.put", "irp.pass"} /\ UNCHANGED table
        /\ node' = [node EXCEPT ![irp.t] = NodeAfter(irp.minor, irp.t)]
        /\ pdo' = pdo \/ pdo' = Deref(pdo, held["pnp"])
    BY <1>7 DEF IrpEnd
  <2>2. pc'["pnp"] = "idle"
    BY <1>1, <1>7 DEF IrpEnd, Step, Go, ControlTypes
  <2>3. Handles(held["pnp"])
    BY <2>1 DEF Handles, Touches
  <2>4. SameEjects
    BY <1>1, <2>3, HandlesNoEject
  <2>5. EjectNotForgotten'
    <3> SUFFICES ASSUME NEW t \in Targets, table[t] # Null, pdo'[table[t]].ejectPending, pdo'[table[t]].devobj
                 PROVE  node'[t] \in {"none", "new", "known"}
      BY <2>1 DEF EjectNotForgotten
    <3>1. table[t] \in Pdos /\ pdo[table[t]].ejectPending /\ pdo[table[t]].devobj
      BY <1>1, <2>4 DEF SameEjects, SameEject
    <3>2. CASE t # irp.t
      BY <1>1, <2>1, <3>1, <3>2 DEF PendMatch, EjectNotForgotten
    <3>3. CASE t = irp.t
      <4>1. CASE irp.minor = "QUERY_ID"
        BY <1>1, <2>1, <3>3, <4>1 DEF NodeAfter
      <4>2. CASE irp.minor # "QUERY_ID"
        <5>1. pc["pnp"] = "irp.put"
          BY <1>3, <2>1, <3>1, <3>3, <4>2 DEF Mapped, IrpPcs
        <5>2. held["pnp"] \in Pdos
          BY <1>1, <5>1, HeldFacts DEF LInv, Counting, IrpPcs
        <5>3. ~pdo[held["pnp"]].ejectPending /\ SlotFits(t, held["pnp"])
          BY <1>1, <1>3, <3>3, <5>1, <5>2 DEF OwnMatch, IrpPcs
        <5> QED
          BY <3>1, <5>3 DEF SlotFits
      <4> QED
        BY <4>1, <4>2
    <3> QED
      BY <3>2, <3>3
  <2> QED
    BY <2>2, <2>4, <2>5 DEF PendMatch, IrpMatch, IrpPcs, SameEjects, SameEject, NoNewDevice
<1>8. CASE ~(RelationsEnd \/ MapPdo \/ CheckEjectPending \/ IrpEnd)
  <2>1. Handles(held["pnp"])
    <3>1. CASE SimpleIrp \/ StartEnd \/ RemoveKeeps \/ MarkDeleted
      <4>1. UNCHANGED pdo \/ \E s, r : pdo' = PutPnp(pdo, held["pnp"], s, r)
        BY <3>1 DEF SimpleIrp, StartEnd, RemoveKeeps, MarkDeleted, SetPnp, PutPnp
      <4> QED
        BY <4>1 DEF Handles, Touches
    <3>2. CASE CancelIrp
      <4>1. \E s, r : pdo' = PutPnp(pdo, held["pnp"], s, r)
        BY <3>2 DEF CancelIrp, PutPnp
      <4> QED
        BY <4>1 DEF Handles, Touches
    <3>3. CASE ~(SimpleIrp \/ StartEnd \/ RemoveKeeps \/ MarkDeleted \/ CancelIrp)
      BY <1>8, <3>3 DEF Handles, Touches, PutPower, PutFrontend, Irp, OtherIrp, StartBegin, OnBegin, OnEnd,
         StartFails, OnFails, RemoveBegin, OffBegin, OffEnd, RemoveJudge, EjectBegin
    <3> QED
      BY <3>1, <3>2, <3>3
  <2>2. SameEjects
    BY <1>1, <2>1, HandlesNoEject
  <2>3. UNCHANGED <<table, node, held, irp>>
    BY <1>8 DEF Irp, SimpleIrp, CancelIrp, OtherIrp, StartBegin, OnBegin, OnEnd, StartFails, StartEnd,
       RemoveBegin, OffBegin, OffEnd, RemoveJudge, RemoveKeeps, EjectBegin, MarkDeleted, pnpVars
  <2>4. pc' = pc \/ \E l \in Underway : pc["pnp"] \in Underway /\ pc' = [pc EXCEPT !["pnp"] = l]
    BY <1>8 DEF Underway, IrpPcs, Go, SetPnp, Irp, SimpleIrp, CancelIrp, OtherIrp, StartBegin, OnBegin, OnEnd,
       StartFails, StartEnd, RemoveBegin, OffBegin, OffEnd, RemoveJudge, RemoveKeeps, EjectBegin, MarkDeleted
  <2>5. PnpAside /\ ScanAside
    BY <1>1, <2>3, <2>4 DEF PnpAside, ScanAside, ControlTypes
  <2> QED
    BY <2>2, <2>3, <2>5, AsideKeepsPend DEF EjectAside, SameEjects, SameEject, NoNewDevice
<1> QED
  BY <1>2, <1>5, <1>6, <1>7, <1>8

\* __FdoTerminate, after which StorPort has no devices.
LEMMA RemovalPend ==
  ASSUME LInv, PendMatch, Removal
  PROVE  PendMatch' /\ SameEjects
<1>1. /\ ControlTypes /\ pdo \in [Pdos -> PdoRecords] /\ "pnp" \in Actors /\ "scan" \in Actors
  BY EjectTypes
<1>2. SameEjects
  <2>1. CASE Sweep
    <3>1. UNCHANGED pdo \/ \E s, r : pdo' = PutPnp(SetMissing(pdo, table[at["pnp"]]), table[at["pnp"]], s, r)
      BY <2>1 DEF Sweep, PutPnp
    <3>2. Handles(table[at["pnp"]])
      BY <3>1 DEF Handles, Touches
    <3> QED
      BY <1>1, <3>2, HandlesNoEject
  <2>2. CASE ~Sweep
    <3>1. UNCHANGED pdo
      BY <2>2 DEF Removal, Terminate, TerminateWait, AlertThread, JoinThread, Terminated
    <3> QED
      BY <3>1 DEF SameEjects, SameEject
  <2> QED
    BY <2>1, <2>2
<1>3. pc'["pnp"] \notin IrpPcs
  BY <1>1 DEF Removal, Terminate, TerminateWait, AlertThread, JoinThread, Sweep, Terminated, Loop, NextTarget,
     Step, Go, ControlTypes, IrpPcs
<1>4. CASE Terminated
  <2>1. \A t \in Targets : node'[t] = "none"
    BY <1>4 DEF Terminated
  <2> QED
    BY <1>2, <1>3, <2>1 DEF PendMatch, IrpMatch, EjectNotForgotten
<1>5. CASE ~Terminated
  <2>1. UNCHANGED <<table, node>>
    BY <1>5 DEF Removal, Terminate, TerminateWait, AlertThread, JoinThread, Sweep, pnpVars
  <2>2. PnpAside
    BY <1>3 DEF PnpAside
  <2>3. ScanAside
    BY <1>1 DEF ScanAside, ControlTypes, Removal, Terminate, TerminateWait, AlertThread, JoinThread, Sweep,
       Terminated, Loop, NextTarget, Step, Go
  <2> QED
    BY <1>2, <2>1, <2>2, <2>3, AsideKeepsPend DEF EjectAside
<1> QED
  BY <1>4, <1>5

\* What the PnP and power managers begin: an IRP finds the device's PDO, or none.
LEMMA ManagersPend ==
  ASSUME LInv, PendMatch, Managers
  PROVE  PendMatch' /\ SameEjects
<1>1. /\ ControlTypes /\ table \in [Targets -> Pdos \cup {Null}] /\ pdo \in [Pdos -> PdoRecords]
      /\ "pnp" \in Actors /\ "scan" \in Actors /\ Control
  BY EjectTypes DEF LInv
<1>2. UNCHANGED <<table, node>>
  BY DEF Managers, QueryRelations, SendIrp, FindAdapter, RemoveFdo, DispatchPower, pnpVars
<1>3. SameEjects
  <2>1. Handles(held["pnp"]) \/ \E t \in Targets : Handles(table[t])
    BY DEF Handles, Touches, Managers, QueryRelations, SendIrp, FindAdapter, RemoveFdo, DispatchPower
  <2> QED
    BY <1>1, <2>1, HandlesNoEject
<1>4. CASE \E m \in Minors, t \in Targets : SendIrp(m, t)
  <2>1. PICK m \in Minors, t \in Targets : SendIrp(m, t)
    BY <1>4
  <2>2. irp' = [minor |-> m, t |-> t] /\ pc["pnp"] = "idle" /\ MaySend(m, t)
    BY <2>1 DEF SendIrp
  <2>3. held["pnp"] = Null
    BY <1>1, <2>2 DEF Control, HeldMatch, Counting, DestroyPcs, IrpPcs
  <2>4. node[t] # "none" /\ (m = "QUERY_ID" => node[t] = "new")
    BY <2>2 DEF MaySend
  <2>5. \/ Mapped(t) /\ pc'["pnp"] = "irp.pending" /\ held'["pnp"] = table[t]
        \/ ~Mapped(t) /\ held' = held /\ pc'["pnp"] = IF m = "QUERY_ID" THEN "irp.map" ELSE "irp.pass"
    BY <1>1, <2>1 DEF SendIrp, Mapped, Step, Go, ControlTypes
  <2>6. Mapped(t)' <=> Mapped(t)
    BY <1>1, <1>2, <1>3 DEF Mapped, SameEjects, SameEject
  <2>7. OwnMatch'
    BY <1>1, <1>2, <2>2, <2>3, <2>5, <2>6 DEF OwnMatch, SlotFits, Mapped
  <2>8. IrpMatch'
    BY <1>2, <2>2, <2>4, <2>5, <2>6, <2>7 DEF IrpMatch
  <2>9. EjectNotForgotten'
    <3> SUFFICES ASSUME NEW u \in Targets, table[u] # Null, pdo'[table[u]].ejectPending, pdo'[table[u]].devobj
                 PROVE  node[u] \in {"none", "new", "known"}
      BY <1>2 DEF EjectNotForgotten
    <3> QED
      BY <1>1, <1>3 DEF PendMatch, EjectNotForgotten, SameEjects, SameEject
  <2> QED
    BY <1>3, <2>8, <2>9 DEF PendMatch
<1>5. CASE ~\E m \in Minors, t \in Targets : SendIrp(m, t)
  <2>1. PnpAside
    BY <1>1, <1>5 DEF PnpAside, Managers, QueryRelations, FindAdapter, RemoveFdo, DispatchPower, actorVars, Go,
       ControlTypes, IrpPcs
  <2>2. ScanAside
    <3>1. CASE FindAdapter
      <4>1. irp.minor = "none"
        BY <1>1, <3>1 DEF FindAdapter, Control, Places, PnpPlaces, EnumPcs, DestroyPcs, UpPcs, DownLoop, DownPcs,
           TermPcs, IrpPcs
      <4>2. pc["scan"] = "dead"
        BY <3>1, <4>1 DEF FindAdapter, Control, LInv, LinkMatch, Workers
      <4> QED
        BY <4>2 DEF ScanAside, DestroyPcs
    <3>2. CASE ~FindAdapter
      BY <1>1, <1>5, <3>2 DEF ScanAside, Managers, QueryRelations, RemoveFdo, DispatchPower, actorVars, Go,
         ControlTypes
    <3> QED
      BY <3>1, <3>2
  <2> QED
    BY <1>2, <1>3, <2>1, <2>2, AsideKeepsPend DEF EjectAside
<1> QED
  BY <1>4, <1>5

\* The watches, SRBs and the toolstack: an ejection waits only where there is no device yet.
LEMMA OthersPend ==
  ASSUME LInv, PendMatch,
         \/ Notify \/ TakeIrp \/ PathsChanged \/ Toolstack \/ IoEnd
         \/ (\E t \in Targets : IoBegin(t)) \/ UNCHANGED vars
  PROVE  PendMatch' /\ SameEjects
<1>1. ControlTypes /\ pdo \in [Pdos -> PdoRecords] /\ "pnp" \in Actors /\ "scan" \in Actors
  BY EjectTypes
<1>2. SameEjects
  <2>1. CASE PathsChanged
    <3>1. PICK gone : IssueDeviceEject(gone)
      BY <2>1 DEF PathsChanged
    <3>2. \A q \in Pdos : SameEject(q)
      BY <1>1, <3>1 DEF IssueDeviceEject, PdoRecords, SameEject
    <3> QED
      BY <3>2 DEF SameEjects
  <2>2. CASE Migrate
    BY <1>1, <2>2, ResumeEffect DEF Migrate, SameEjects, SameEject, SameDevice
  <2>3. CASE ~PathsChanged /\ ~Migrate
    <3>1. Handles(held["io"]) \/ \E t \in Targets : Handles(table[t])
      BY <2>3 DEF Handles, Touches, Notify, TakeIrp, Toolstack, Migrate, Plug, Unplug, Leave, IoEnd, IoBegin, vars
    <3> QED
      BY <1>1, <3>1, HandlesNoEject
  <2> QED
    BY <2>1, <2>2, <2>3
<1>3. UNCHANGED <<table, node>>
  BY DEF Notify, TakeIrp, PathsChanged, Toolstack, Migrate, Plug, Unplug, Leave, IoEnd, IoBegin, vars, pnpVars
<1>4. PnpAside /\ ScanAside
  BY <1>1 DEF PnpAside, ScanAside, Notify, TakeIrp, PathsChanged, Toolstack, Migrate, Plug, Unplug, Leave, IoEnd,
     IoBegin, vars, actorVars, pnpVars, Step, Go, ControlTypes, DestroyPcs
<1> QED
  BY <1>2, <1>3, <1>4, AsideKeepsPend DEF EjectAside

\* Every step keeps the match.
LEMMA GroupsPend ==
  ASSUME LInv, PendMatch, StepOf
  PROVE  PendMatch'
<1>1. CASE \E w \in Workers : Worker(w)
  BY <1>1, WorkerPend
<1>2. CASE \E a \in Enumerators : LockFdo(a)
  BY <1>2, LockPend
<1>3. CASE \E a \in Enumerators : Enumerate(a)
  BY <1>3, EnumeratePend
<1>4. CASE \E a \in Enumerators : Destroy(a)
  BY <1>4, DestroyPend
<1>5. CASE \E a \in Powerers : Power(a)
  BY <1>5, PowerPend
<1>6. CASE RelationsEnd \/ Irp
  BY <1>6, IrpPend
<1>7. CASE Removal
  BY <1>7, RemovalPend
<1>8. CASE Managers
  BY <1>8, ManagersPend
<1>9. CASE \/ Notify \/ TakeIrp \/ PathsChanged \/ Toolstack \/ IoEnd
           \/ (\E t \in Targets : IoBegin(t)) \/ UNCHANGED vars
  BY <1>9, OthersPend
<1> QED
  BY <1>1, <1>2, <1>3, <1>4, <1>5, <1>6, <1>7, <1>8, <1>9 DEF StepOf

\* It holds at first: no IRP is under way and no device known.
LEMMA InitPend == Init => PendMatch
BY LifecycleAssumption DEF Init, PendMatch, IrpMatch, EjectNotForgotten, IrpPcs, Actors, Workers

\* In every state.
THEOREM PendingIsSound == Spec => [](LInv /\ PendMatch)
<1>1. LInv /\ PendMatch /\ [Next]_vars => (LInv /\ PendMatch)'
  BY NextLife, StepsOf, GroupsPend
<1> QED
  BY <1>1, InitLife, InitPend, PTL DEF Spec

\* An ejection the backend asks for before StorPort has the target's device object is not lost
\* (pdo.c:2193-2229): it waits in the PDO until the first IRP to the device, which passes it on
\* before it does anything else, whatever else goes on.
THEOREM EjectionsAreKept == Spec => []EjectNotForgotten
<1>1. LInv /\ PendMatch => EjectNotForgotten
  BY DEF PendMatch
<1> QED
  BY <1>1, PendingIsSound, PTL

-----------------------------------------------------------------------------
\* Ejections and devices that are gone, while the FDO's power is left alone.

Idle == powerIrp = "None" /\ pc["power"] \in Asleep

\* IRP_MN_REMOVE_DEVICE leaves the PDO in D3.
RemovePcs == {"irp.off", "irp.judge", "irp.delete", "irp.enumerate", "irp.put"}
RemoveMatch ==
  /\ pc["pnp"] \in {"irp.on", "irp.started"} => irp.minor = "START_DEVICE"
  /\ irp.minor = "REMOVE_DEVICE" /\ pc["pnp"] \in RemovePcs => ~Lags(irp.t)

\* __FdoTerminate empties the table, target by target, and FdoFindAdapter finds it empty: until
\* it is done no device is known.
SweepMatch ==
  irp.minor = "remove" =>
    /\ Sweeping => \A t \in Targets : t < at["pnp"] => table[t] = Null
    /\ pc["pnp"] = "unlink" => table[at["pnp"]] = held["pnp"]
    /\ pc["pnp"] \in DestroyPcs \ {"unlink"} => table[at["pnp"]] = Null
NewMatch ==
  /\ irp.minor = "none" /\ ~fdo.linked => \A t \in Targets : table[t] = Null
  /\ irp.minor = "add" => \A t \in Targets : ~Mapped(t)

\* A PDO whose device StorPort has deleted stays in D3, and with it its frontend.
AbsentMatch == \A t \in Targets : node[t] = "none" /\ Mapped(t) => ~Lags(t)

TableMatch == RemoveMatch /\ SweepMatch /\ NewMatch /\ AbsentMatch
KnownMatch == Idle /\ TableMatch /\ EjectsKnownDevices

\* A step that leaves the PnP thread where it is.
Still ==
  /\ pc'["pnp"] = pc["pnp"] /\ held'["pnp"] = held["pnp"] /\ at'["pnp"] = at["pnp"]
  /\ UNCHANGED <<irp, node>> /\ fdo'.linked = fdo.linked
  /\ Sweeping => UNCHANGED table

\* Without power IRPs DevicePowerThread has nothing to do.
LEMMA IdleKept ==
  ASSUME LInv, Idle, "power" \notin Activities, StepOf
  PROVE  Idle'
<1>1. ControlTypes /\ "power" \in Actors /\ Control
  BY EjectTypes DEF LInv
<1>2. pc["power"] \notin PowerPcs
  BY DEF Idle, Asleep, PowerPcs
<1> USE DEF Idle
<1>3. CASE \E w \in Workers : Worker(w)
  BY <1>1, <1>3 DEF Worker, WaitEnds, ClearEvent, Go, ControlTypes, Control, BusyMatch, Asleep
<1>4. CASE \E a \in Enumerators : LockFdo(a) \/ Enumerate(a) \/ Destroy(a)
  BY <1>1, <1>4 DEF Enumerators, LockFdo, Enumerate, ReadDirectory, EnumGet, EnumPresent, EnumDelete, EnumJudge,
     EnumNew, EnumEnds, UnlockFdo, SetPnp, Destroy, Unlink, OffBegin, OffEnd, DropInitial, Free, NextTarget,
     Loop, Step, Go, ControlTypes, actorVars
<1>5. CASE \E a \in Powerers : Power(a)
  <2>1. PICK a \in Powerers : Power(a)
    BY <1>5
  <2>2. a = "pnp"
    BY <1>1, <1>2, <2>1, OnePowers DEF Powerers
  <2>3. pc'["power"] = pc["power"]
    BY <1>1, <2>1, <2>2, PowerFrame DEF Powerers
  <2>4. UNCHANGED powerIrp
    BY <2>1 DEF Power, UpSet, SetPower, DownSet, Settle, Acquire, UpGet, OnBegin, OnEnd, UpFails, PutPdo,
       WatchDevices, UnwatchDevices, DownGet, OffBegin, OffEnd, ReleaseInterfaces, Finish
  <2> QED
    BY <2>3, <2>4
<1>6. CASE RelationsEnd \/ Irp
  BY <1>1, <1>6 DEF RelationsEnd, Irp, MapPdo, CheckEjectPending, SimpleIrp, CancelIrp, OtherIrp, StartBegin, OnBegin,
     OnEnd, StartFails, StartEnd, RemoveBegin, OffBegin, OffEnd, RemoveJudge, RemoveKeeps, EjectBegin, MarkDeleted,
     IrpEnd, SetPnp, Step, Go, ControlTypes
<1>7. CASE Removal
  BY <1>1, <1>7 DEF Removal, Terminate, TerminateWait, AlertThread, JoinThread, Sweep, Terminated, Loop, NextTarget,
     Step, Go, ControlTypes
<1>8. CASE Managers
  BY <1>1, <1>8 DEF Managers, QueryRelations, SendIrp, FindAdapter, RemoveFdo, DispatchPower, Step, Go, ControlTypes,
     Asleep
<1>9. CASE \/ Notify \/ TakeIrp \/ PathsChanged \/ Toolstack \/ IoEnd
           \/ (\E t \in Targets : IoBegin(t)) \/ UNCHANGED vars
  BY <1>1, <1>2, <1>9 DEF Notify, TakeIrp, PathsChanged, Toolstack, Migrate, Plug, Unplug, Leave, IoEnd, IoBegin,
     vars, actorVars, Step, Go, ControlTypes, PowerPcs
<1> QED
  BY <1>3, <1>4, <1>5, <1>6, <1>7, <1>8, <1>9 DEF StepOf

\* What a step that maps no device and raises no power does to the table.
LEMMA MappedLess ==
  ASSUME LInv, NoRise, NoNewDevice, NEW t \in Targets
  PROVE  (Mapped(t)' => Mapped(t)) /\ (Lags(t)' => Lags(t)) /\ (table[t] = Null => table'[t] = Null)
BY EjectTypes DEF NoRise, Fewer, NoNewDevice, Mapped, Lags

\* Then a PDO without a device stays in D3.
LEMMA AbsentKept ==
  ASSUME LInv, NoRise, NoNewDevice, \A t \in Targets : node'[t] = "none" /\ Mapped(t) => ~Lags(t)
  PROVE  AbsentMatch'
BY MappedLess DEF AbsentMatch

\* Steps of the others.
LEMMA StillKeeps ==
  ASSUME LInv, TableMatch, NoRise, NoNewDevice, Still
  PROVE  TableMatch'
<1>1. irp.t \in Targets
  BY EjectTypes
<1>2. RemoveMatch'
  BY <1>1, MappedLess DEF TableMatch, RemoveMatch, Still
<1>3. SweepMatch'
  <2>1. SweepMatch /\ pc'["pnp"] = pc["pnp"] /\ held'["pnp"] = held["pnp"] /\ at'["pnp"] = at["pnp"] /\ irp' = irp
    BY DEF TableMatch, Still
  <2>2. Sweeping => table' = table
    BY DEF Still
  <2> QED
    BY <2>1, <2>2 DEF SweepMatch, Sweeping, DestroyPcs
<1>4. NewMatch'
  BY MappedLess DEF TableMatch, NewMatch, Still
<1>5. AbsentMatch'
  BY AbsentKept DEF TableMatch, AbsentMatch, Still
<1> QED
  BY <1>2, <1>3, <1>4, <1>5 DEF TableMatch

\* PdoCreate: the new PDO has no device, and comes into no slot that an IRP is about.
LEMMA CreatesMapped ==
  ASSUME LInv, NEW t \in Targets, NEW p \in Pdos, Creates(t, p), NEW u \in Targets
  PROVE  /\ Mapped(u)' => Mapped(u) /\ (Lags(u)' => Lags(u))
         /\ u # t => (Lags(u)' => Lags(u))
<1>1. table \in [Targets -> Pdos \cup {Null}] /\ pdo \in [Pdos -> PdoRecords] /\ Null \notin Pdos
  BY EjectTypes
<1>2. /\ table' = [table EXCEPT ![t] = p] /\ ~pdo[p].live
      /\ ~pdo'[p].devobj /\ \A q \in Pdos \ {p} : pdo'[q] = pdo[q]
  BY DEF Creates, OnlyAt, NewPdo
<1>3. CASE u = t
  BY <1>1, <1>2, <1>3 DEF Mapped
<1>4. CASE u # t
  <2>1. table'[u] = table[u] /\ (table[u] # Null => table[u] \in Pdos \ {p})
    BY <1>1, <1>2, <1>4 DEF LInv, Live
  <2> QED
    BY <1>2, <2>1 DEF Mapped, Lags
<1> QED
  BY <1>3, <1>4

\* ... by RescanThread, while the PnP thread is where it is.
LEMMA CreatesStill ==
  ASSUME LInv, PendMatch, TableMatch, pc["scan"] = "new", Still,
         NEW t \in Targets, NEW p \in Pdos, Creates(t, p)
  PROVE  TableMatch'
<1>1. irp.t \in Targets
  BY EjectTypes
<1>2. RemoveMatch'
  <2> SUFFICES ASSUME irp.minor = "REMOVE_DEVICE", pc["pnp"] \in RemovePcs
               PROVE  ~Lags(irp.t)'
    BY DEF TableMatch, RemoveMatch, Still
  <2>1. held["pnp"] # Null
    BY EjectTypes DEF LInv, Control, HeldMatch, RemovePcs, Counting, IrpPcs
  <2>2. SlotFits(irp.t, held["pnp"])
    BY <2>1 DEF PendMatch, IrpMatch, OwnMatch, RemovePcs, IrpPcs
  <2>3. table[irp.t] # Null
    BY <2>1, <2>2 DEF SlotFits, Leaving, DestroyPcs
  <2>4. irp.t # t
    BY <2>3 DEF Creates
  <2>5. ~Lags(irp.t)
    BY DEF TableMatch, RemoveMatch
  <2>6. PICK u \in Targets : u = irp.t
    BY <1>1
  <2>7. Lags(u)' => Lags(u)
    BY <2>4, <2>6, CreatesMapped
  <2> QED
    BY <2>5, <2>6, <2>7 DEF Still, Lags
<1>3. ~Sweeping /\ ~(irp.minor = "none" /\ ~fdo.linked)
  BY DEF LInv, Control, LinkMatch, Workers
<1>4. SweepMatch'
  BY <1>3 DEF SweepMatch, Sweeping, Still, DestroyPcs
<1>5. NewMatch'
  BY <1>3, CreatesMapped DEF TableMatch, NewMatch, Still
<1>6. AbsentMatch'
  BY CreatesMapped DEF TableMatch, AbsentMatch, Still
<1> QED
  BY <1>2, <1>4, <1>5, <1>6 DEF TableMatch

\* Where the PnP thread is, given the IRP.
LEMMA PnpAt ==
  ASSUME Control
  PROVE  /\ pc["pnp"] \in EnumPcs => irp.minor = "relations"
         /\ pc["pnp"] \in DestroyPcs => irp.minor \in {"relations", "remove"}
         /\ pc["pnp"] \in PowerPcs => irp.minor \in {"add", "remove"}
         /\ pc["pnp"] \in {"acquire", "up", "up.on", "up.end", "up.put", "watch"} => irp.minor = "add"
         /\ pc["pnp"] \in TermPcs => irp.minor = "remove"
         /\ pc["pnp"] \in IrpPcs => irp.minor \notin {"none", "relations", "add", "remove"}
         /\ pc["pnp"] = "idle" => irp.minor = "none"
BY DEF Control, Places, PnpPlaces, EnumPcs, DestroyPcs, PowerPcs, IrpPcs, UpPcs, DownLoop, DownPcs, TermPcs

\* An enumeration by the PnP thread keeps the rest: it is not about a device.
LEMMA RelationsKeep ==
  ASSUME irp'.minor = "relations", pc'["pnp"] \notin IrpPcs, AbsentMatch'
  PROVE  TableMatch'
BY DEF TableMatch, RemoveMatch, SweepMatch, NewMatch, RemovePcs, IrpPcs

\* Worker threads.
LEMMA WorkerKnown ==
  ASSUME LInv, DestroyMatch', PowerMatch, PendMatch, TableMatch, NEW a \in Workers, Worker(a)
  PROVE  TableMatch' /\ UNCHANGED <<asked, node>>
<1>1. ControlTypes
  BY EjectTypes
<1>2. Still /\ UNCHANGED <<asked, node, pdo>>
  BY <1>1 DEF Still, Worker, WaitEnds, ClearEvent, Go, ControlTypes, Workers, Actors, pnpVars
<1>3. NoNewDevice
  BY <1>2 DEF NoNewDevice
<1> QED
  BY <1>2, <1>3, WorkerSettled, StillKeeps

\* Fdo->Lock is taken.
LEMMA LockKnown ==
  ASSUME LInv, DestroyMatch', PowerMatch, PendMatch, TableMatch, NEW a \in Enumerators, LockFdo(a)
  PROVE  TableMatch' /\ UNCHANGED <<asked, node>>
<1>1. ControlTypes /\ Control
  BY EjectTypes DEF LInv
<1>2. UNCHANGED <<asked, node, pdo, table, irp, held>> /\ fdo'.linked = fdo.linked
  BY <1>1 DEF LockFdo, pnpVars, ControlTypes
<1>3. NoNewDevice
  BY <1>2 DEF NoNewDevice
<1>4. CASE a = "scan"
  <2>1. Still
    BY <1>1, <1>2, <1>4 DEF Still, LockFdo, Loop, Go, ControlTypes, Actors, Workers
  <2> QED
    BY <1>2, <1>3, <2>1, LockSettled, StillKeeps
<1>5. CASE a = "pnp"
  <2>1. irp.minor = "relations" /\ pc'["pnp"] \notin IrpPcs
    BY <1>1, <1>5, PnpAt DEF LockFdo, Loop, Go, ControlTypes, EnumPcs, IrpPcs
  <2>2. AbsentMatch'
    BY <1>2, <1>3, LockSettled, AbsentKept DEF TableMatch, AbsentMatch
  <2> QED
    BY <1>2, <2>1, <2>2, RelationsKeep
<1> QED
  BY <1>4, <1>5 DEF Enumerators

\* __FdoEnumerate.
LEMMA EnumerateKnown ==
  ASSUME LInv, DestroyMatch', PowerMatch, PendMatch, TableMatch, NEW a \in Enumerators, Enumerate(a)
  PROVE  TableMatch' /\ UNCHANGED <<asked, node>>
<1>1. ControlTypes /\ Control /\ TypeOK
  BY EjectTypes DEF LInv
<1>2. UNCHANGED <<asked, node, irp>> /\ fdo'.linked = fdo.linked
  BY <1>1 DEF Enumerate, ReadDirectory, EnumGet, EnumPresent, EnumDelete, EnumJudge, EnumNew, EnumEnds,
     UnlockFdo, pnpVars, ControlTypes
<1>3. pc[a] \in EnumPcs
  BY DEF Enumerate, ReadDirectory, EnumGet, EnumPresent, EnumDelete, EnumJudge, EnumNew, EnumEnds, UnlockFdo, EnumPcs
<1>4. a = "pnp" => irp.minor = "relations" /\ pc'["pnp"] \notin IrpPcs
  BY <1>1, <1>3, PnpAt DEF Enumerate, ReadDirectory, EnumGet, EnumPresent, EnumDelete, EnumJudge, EnumNew, EnumEnds,
     UnlockFdo, SetPnp, NextTarget, Loop, Step, Go, ControlTypes, EnumPcs, IrpPcs
<1>5. a = "scan" => pc["scan"] # "dead" /\ ~Sweeping
  BY <1>1, <1>3 DEF Control, LinkMatch, EnumPcs, Workers
<1>6. a = "scan" => Still
  BY <1>1, <1>2, <1>5 DEF Still, Enumerate, ReadDirectory, EnumGet, EnumPresent, EnumDelete, EnumJudge, EnumNew,
     EnumEnds, UnlockFdo, SetPnp, NextTarget, Loop, Step, Go, ControlTypes, Actors, Workers
<1>7. CASE NoRise
  <2>1. NoNewDevice
    BY EnumeratePend
  <2>2. AbsentMatch'
    BY <1>2, <1>7, <2>1, AbsentKept DEF TableMatch, AbsentMatch
  <2> QED
    BY <1>2, <1>4, <1>6, <1>7, <2>1, <2>2, StillKeeps, RelationsKeep DEF Enumerators
<1>8. CASE EnumNew(a)
  <2>1. CASE UNCHANGED <<table, pdo>>
    <3>1. NoRise /\ NoNewDevice
      BY <2>1 DEF NoRise, Fewer, Lags, NoNewDevice
    <3> QED
      BY <1>7, <3>1
  <2>2. ASSUME NEW t \in Targets, NEW p \in Pdos, Creates(t, p)
        PROVE  TableMatch'
    <3>1. pc[a] = "new"
      BY <1>8 DEF EnumNew
    <3>2. AbsentMatch'
      BY <1>2, <2>2, CreatesMapped DEF TableMatch, AbsentMatch
    <3> QED
      BY <1>2, <1>4, <1>6, <2>2, <3>1, <3>2, CreatesStill, RelationsKeep DEF Enumerators
  <2> QED
    BY <1>1, <1>2, <1>8, <2>1, <2>2, NewClass
<1> QED
  BY <1>7, <1>8, EnumerateSettled

\* PdoDestroy, by an enumeration or by __FdoTerminate, whose loop goes on to the next target.
LEMMA DestroyKnown ==
  ASSUME LInv, DestroyMatch', PowerMatch, PendMatch, TableMatch, NEW a \in Enumerators, Destroy(a)
  PROVE  TableMatch' /\ UNCHANGED <<asked, node>>
<1>1. /\ ControlTypes /\ Control /\ TypeOK /\ table \in [Targets -> Pdos \cup {Null}]
      /\ "pnp" \in Actors /\ "scan" \in Actors
  BY EjectTypes DEF LInv
<1>2. UNCHANGED <<asked, node, irp, fdo>> /\ pc[a] \in DestroyPcs
  BY DEF Destroy, Unlink, OffBegin, OffEnd, DropInitial, Free, pnpVars, DestroyPcs
<1>3. NoRise /\ NoNewDevice
  BY DestroySettled, DestroyPend
<1>4. AbsentMatch'
  BY <1>2, <1>3, AbsentKept DEF TableMatch, AbsentMatch
<1>5. CASE a = "scan"
  <2>1. ~Sweeping
    BY <1>1, <1>2, <1>5 DEF Control, LinkMatch, DestroyPcs, Workers
  <2>2. Still
    BY <1>1, <1>2, <1>5, <2>1 DEF Still, Destroy, Unlink, OffBegin, OffEnd, DropInitial, Free, NextTarget, Loop, Go,
       ControlTypes, actorVars
  <2> QED
    BY <1>2, <1>3, <2>2, StillKeeps
<1>6. CASE a = "pnp"
  <2>1. pc'["pnp"] \in DestroyPcs \cup {"sweep", "get"}
    BY <1>1, <1>2, <1>6 DEF Destroy, Unlink, OffBegin, OffEnd, DropInitial, Free, NextTarget, Loop, Go,
       ControlTypes, actorVars, DestroyPcs
  <2>2. CASE irp.minor = "relations"
    <3>1. pc'["pnp"] \notin IrpPcs
      BY <2>1 DEF DestroyPcs, IrpPcs
    <3> QED
      BY <1>2, <1>4, <2>2, <3>1, RelationsKeep
  <2>3. CASE irp.minor = "remove"
    <3>1. at["pnp"] \in Targets
      BY <1>1, <1>2, <1>6, LoopTarget DEF Control, HeldMatch, BodyPcs
    <3>2. \A t \in Targets : table[t] = Null => table'[t] = Null
      BY <1>3, MappedLess
    <3>3. Sweeping
      BY <1>2, <1>6, <2>3 DEF Sweeping
    <3>4. SweepMatch'
      <4>1. CASE Unlink(a)
        <5>1. pc["pnp"] = "unlink" /\ pc'["pnp"] = "destroy.off" /\ UNCHANGED <<at, held>>
          BY <1>1, <1>6, <4>1 DEF Unlink, Go, ControlTypes
        <5>2. table[at["pnp"]] = held["pnp"] /\ \A t \in Targets : t < at["pnp"] => table[t] = Null
          BY <2>3, <3>3, <5>1 DEF TableMatch, SweepMatch
        <5>3. table'[at["pnp"]] = Null
          BY <1>1, <1>6, <3>1, <4>1, <5>2 DEF Unlink
        <5> QED
          BY <3>2, <5>1, <5>2, <5>3 DEF SweepMatch
      <4>2. CASE pc["pnp"] # "unlink"
        <5>1. table[at["pnp"]] = Null /\ \A t \in Targets : t < at["pnp"] => table[t] = Null
          BY <1>2, <1>6, <2>3, <3>3, <4>2 DEF TableMatch, SweepMatch
        <5>2. UNCHANGED table
          BY <1>6, <4>2 DEF Destroy, Unlink, OffBegin, OffEnd, DropInitial, Free
        <5>3. \/ at'["pnp"] = at["pnp"] /\ pc'["pnp"] # "unlink"
              \/ at'["pnp"] = at["pnp"] + 1 /\ pc'["pnp"] = "sweep"
          BY <1>1, <1>6, <2>3, <4>2 DEF Destroy, Unlink, OffBegin, OffEnd, DropInitial, Free, NextTarget, Loop, Go,
             ControlTypes, actorVars
        <5>4. \A t \in Targets : t < at["pnp"] + 1 => t < at["pnp"] \/ t = at["pnp"]
          BY <1>1, <3>1, LifecycleAssumption DEF Targets, LifecycleAssumption
        <5> QED
          BY <5>1, <5>2, <5>3, <5>4 DEF SweepMatch, DestroyPcs
      <4> QED
        BY <1>6, <4>1, <4>2 DEF Destroy, OffBegin, OffEnd, DropInitial, Free
    <3>5. RemoveMatch' /\ NewMatch'
      BY <1>2, <2>1, <2>3 DEF RemoveMatch, NewMatch, DestroyPcs
    <3> QED
      BY <1>2, <1>4, <3>4, <3>5 DEF TableMatch
  <2> QED
    BY <1>1, <1>2, <1>6, <2>2, <2>3, PnpAt
<1> QED
  BY <1>5, <1>6 DEF Enumerators

\* The ways up and down, by the PnP thread: on the way up no device is known yet.
LEMMA PowerKnown ==
  ASSUME LInv, DestroyMatch', PowerMatch, PendMatch, Idle, TableMatch, NEW a \in Powerers, Power(a)
  PROVE  TableMatch' /\ UNCHANGED <<asked, node>>
<1>1. /\ ControlTypes /\ Control /\ table \in [Targets -> Pdos \cup {Null}]
      /\ "pnp" \in Actors
  BY EjectTypes DEF LInv
<1>2. a = "pnp" /\ pc["pnp"] \in PowerPcs /\ fdo.linked
  <2>1. pc[a] \in PowerPcs /\ fdo.linked
    BY <1>1, OnePowers
  <2>2. pc["power"] \notin PowerPcs
    BY DEF Idle, Asleep, PowerPcs
  <2> QED
    BY <2>1, <2>2 DEF Powerers
<1>3. UNCHANGED <<asked, node, table>> /\ irp' \in {irp, NoIrp} /\ fdo'.linked
  <2>1. UNCHANGED <<asked, node>>
    BY DEF Power, UpSet, SetPower, DownSet, Settle, Acquire, UpGet, OnBegin, OnEnd, UpFails, PutPdo, WatchDevices,
       UnwatchDevices, DownGet, OffBegin, OffEnd, ReleaseInterfaces, Finish, pnpVars
  <2> QED
    BY <1>1, <1>2, <2>1, PowerFrame
<1>4. pc'["pnp"] \in PowerPcs \cup {"idle", "term"}
  BY <1>1, <1>2 DEF Power, UpSet, SetPower, DownSet, Settle, Acquire, UpGet, GetPdo, OnBegin, OnEnd, UpFails, PutPdo,
     WatchDevices, UnwatchDevices, DownGet, OffBegin, OffEnd, ReleaseInterfaces, Finish, NextTarget, Loop, Step, Go,
     ControlTypes, PowerPcs
<1>5. pc'["pnp"] \notin IrpPcs \cup DestroyPcs \cup {"sweep"}
  BY <1>4 DEF PowerPcs, IrpPcs, DestroyPcs
<1>6. RemoveMatch' /\ SweepMatch'
  BY <1>5 DEF RemoveMatch, RemovePcs, SweepMatch, Sweeping, IrpPcs, DestroyPcs
<1>7. SameEjects
  BY PowerPend
<1>8. \A t \in Targets : Mapped(t)' <=> Mapped(t)
  BY <1>1, <1>3, <1>7 DEF Mapped, SameEjects, SameEject
<1>9. NewMatch'
  BY <1>3, <1>8 DEF TableMatch, NewMatch, NoIrp
<1>10. AbsentMatch'
  <2>1. CASE NoRise
    <3>1. NoNewDevice
      BY <1>7 DEF NoNewDevice, SameEjects, SameEject
    <3> QED
      BY <1>3, <2>1, <3>1, AbsentKept DEF TableMatch, AbsentMatch
  <2>2. CASE OnBegin(a, "up.on", "up.end", "up.put")
    <3>1. irp.minor = "add"
      BY <1>1, <1>2, <2>2, PnpAt DEF OnBegin
    <3> QED
      BY <1>8, <3>1 DEF TableMatch, NewMatch, AbsentMatch
  <2> QED
    BY <2>1, <2>2, PowerSettled
<1> QED
  BY <1>3, <1>6, <1>9, <1>10 DEF TableMatch

\* __FdoTerminate.
LEMMA RemovalKnown ==
  ASSUME LInv, DestroyMatch', PowerMatch, PendMatch, TableMatch, Removal
  PROVE  /\ TableMatch'
         /\ asked' = {} \/ UNCHANGED <<asked, node>>
<1>1. /\ ControlTypes /\ Control /\ table \in [Targets -> Pdos \cup {Null}] /\ "pnp" \in Actors
      /\ at["pnp"] \in Nat /\ NumTargets \in Nat
  BY EjectTypes, LifecycleAssumption DEF LInv, ControlTypes, LifecycleAssumption
<1>2. NoRise /\ NoNewDevice
  BY RemovalSettled, RemovalPend DEF SameEjects, SameEject, NoNewDevice
<1>3. pc["pnp"] \in TermPcs /\ UNCHANGED table
  BY DEF Removal, Terminate, TerminateWait, AlertThread, JoinThread, Sweep, Terminated, TermPcs
<1>4. irp.minor = "remove"
  BY <1>1, <1>3, PnpAt
<1>5. CASE Terminated
  <2>1. pc["pnp"] = "sweep" /\ ~(at["pnp"] < NumTargets) /\ irp' = NoIrp /\ asked' = {} /\ pc'["pnp"] = "idle"
    BY <1>1, <1>5 DEF Terminated, InLoop, Loop, Go, ControlTypes
  <2>2. \A t \in Targets : table[t] = Null
    <3>1. \A t \in Targets : t < at["pnp"]
      BY <1>1, <2>1 DEF Targets
    <3> QED
      BY <1>4, <2>1, <3>1 DEF TableMatch, SweepMatch, Sweeping
  <2> QED
    BY <1>3, <2>1, <2>2 DEF TableMatch, RemoveMatch, SweepMatch, NewMatch, AbsentMatch, NoIrp, RemovePcs, Mapped
<1>6. CASE ~Terminated
  <2>1. UNCHANGED <<asked, node, irp>>
    BY <1>6 DEF Removal, Terminate, TerminateWait, AlertThread, JoinThread, Sweep, pnpVars
  <2>2. AbsentMatch'
    BY <1>2, <2>1, AbsentKept DEF TableMatch, AbsentMatch
  <2>3. SweepMatch'
    <3>1. CASE Sweep
      <4>1. \A t \in Targets : t < at["pnp"] => table[t] = Null
        BY <1>4, <3>1 DEF Sweep, TableMatch, SweepMatch, Sweeping
      <4>2. \/ table[at["pnp"]] = Null /\ at'["pnp"] = at["pnp"] + 1 /\ pc'["pnp"] = "sweep"
            \/ at'["pnp"] = at["pnp"] /\ held'["pnp"] = table[at["pnp"]] /\ pc'["pnp"] = "unlink"
        BY <1>1, <3>1 DEF Sweep, NextTarget, Loop, Step, Go, ControlTypes
      <4>3. \A t \in Targets : t < at["pnp"] + 1 => t < at["pnp"] \/ t = at["pnp"]
        BY <1>1 DEF Targets
      <4> QED
        BY <1>3, <4>1, <4>2, <4>3 DEF SweepMatch, DestroyPcs
    <3>2. CASE ~Sweep
      <4>1. pc'["pnp"] \in TermPcs \ {"sweep"} \/ (pc'["pnp"] = "sweep" /\ at'["pnp"] = 0)
        BY <1>1, <1>3, <1>6, <3>2 DEF Removal, Terminate, TerminateWait, AlertThread, JoinThread, Loop, Go, ControlTypes,
           TermPcs
      <4>2. \A t \in Targets : ~(t < 0)
        BY <1>1 DEF Targets
      <4> QED
        BY <4>1, <4>2 DEF SweepMatch, Sweeping, TermPcs, DestroyPcs
    <3> QED
      BY <3>1, <3>2
  <2>4. RemoveMatch' /\ NewMatch'
    <3>1. pc'["pnp"] \notin IrpPcs
      BY <1>1, <1>6 DEF Removal, Terminate, TerminateWait, AlertThread, JoinThread, Sweep, Loop, NextTarget, Step, Go,
         ControlTypes, IrpPcs
    <3> QED
      BY <1>4, <2>1, <3>1 DEF RemoveMatch, RemovePcs, NewMatch, IrpPcs
  <2> QED
    BY <2>1, <2>2, <2>3, <2>4 DEF TableMatch
<1> QED
  BY <1>5, <1>6

\* What the PDO of an IRP under way has to do with the table.
LEMMA OwnSlot ==
  ASSUME LInv, PendMatch, pc["pnp"] \in IrpPcs \cap Counting, NEW t \in Targets, table[t] = held["pnp"]
  PROVE  t = irp.t
<1>1. held["pnp"] \in Pdos /\ irp.t \in Targets /\ Null \notin Pdos /\ {"pnp", "scan"} \subseteq Actors
  BY EjectTypes, HeldFacts DEF LInv
<1>2. SlotFits(irp.t, held["pnp"])
  BY <1>1 DEF PendMatch, IrpMatch, OwnMatch
<1>3. ~Leaving(held["pnp"])
  BY <1>1 DEF Leaving, LInv, DestroyMatch, InTable
<1> QED
  BY <1>1, <1>2, <1>3 DEF SlotFits, LInv, Live

\* An IRP of the PnP thread to a device: when its node goes, the PDO is in D3.
LEMMA IrpKnown ==
  ASSUME LInv, DestroyMatch', PowerMatch, PendMatch, TableMatch, EjectsKnownDevices, RelationsEnd \/ Irp
  PROVE  TableMatch' /\ EjectsKnownDevices'
<1>1. /\ ControlTypes /\ Control /\ table \in [Targets -> Pdos \cup {Null}] /\ pdo \in [Pdos -> PdoRecords]
      /\ node \in [Targets -> Nodes] /\ irp \in Irps
      /\ "pnp" \in Actors /\ irp.t \in Targets /\ held["pnp"] \in Pdos \cup {Null} /\ Null \notin Pdos
  BY EjectTypes DEF LInv, ControlTypes
<1>2. CASE RelationsEnd
  <2>1. /\ pc["pnp"] = "relations" /\ pc'["pnp"] = "idle" /\ irp' = NoIrp /\ fdo'.linked = fdo.linked
        /\ UNCHANGED <<pdo, table, asked>> /\ \A t \in Targets : node'[t] = "none" => node[t] = "none"
        /\ \A t \in Targets : node[t] # "none" => node'[t] # "none"
    BY <1>1, <1>2 DEF RelationsEnd, Go, DerefFdo, ControlTypes
  <2>2. fdo.linked
    BY <1>1, <2>1, PnpAt DEF Control, LinkMatch, EnumPcs
  <2>3. AbsentMatch'
    BY <2>1 DEF TableMatch, AbsentMatch, Mapped, Lags
  <2>4. EjectsKnownDevices'
    BY <1>1, <2>1, EjectTypes DEF EjectsKnownDevices
  <2> QED
    BY <2>1, <2>2, <2>3, <2>4 DEF TableMatch, RemoveMatch, SweepMatch, NewMatch, NoIrp, RemovePcs
<1>3. CASE Irp
  <2>1. pc["pnp"] \in IrpPcs
    BY <1>3 DEF Irp, MapPdo, CheckEjectPending, SimpleIrp, CancelIrp, OtherIrp, StartBegin, OnBegin, OnEnd, StartFails,
       StartEnd, RemoveBegin, OffBegin, OffEnd, RemoveJudge, RemoveKeeps, EjectBegin, MarkDeleted, IrpEnd, IrpPcs
  <2>2. irp.minor \notin {"none", "relations", "add", "remove"} /\ fdo.linked
    BY <1>1, <2>1, PnpAt DEF Control, LinkMatch
  <2>3. node[irp.t] # "none"
    BY <2>1 DEF PendMatch, IrpMatch
  <2>4. UNCHANGED <<fdo, table>> /\ (IrpEnd \/ UNCHANGED <<irp, node>>)
    <3>1. CASE IrpEnd
      <4>1. UNCHANGED <<fdo, table>>
        BY <3>1 DEF IrpEnd
      <4> QED
        BY <3>1, <4>1
    <3>2. CASE PlainIrps
      BY <3>2 DEF PlainIrps, MapPdo, CheckEjectPending, SimpleIrp, CancelIrp, OtherIrp, pnpVars
    <3>3. CASE StartIrp
      BY <3>3 DEF StartIrp, StartBegin, OnBegin, OnEnd, StartFails, StartEnd, pnpVars
    <3>4. CASE RemoveIrps
      BY <3>4 DEF RemoveIrps, RemoveBegin, OffBegin, OffEnd, RemoveJudge, RemoveKeeps, EjectBegin, MarkDeleted, pnpVars
    <3> QED
      BY <1>3, <3>1, <3>2, <3>3, <3>4 DEF Irp, PlainIrps, StartIrp, RemoveIrps
  <2>5. IrpEnd => pc'["pnp"] = "idle" /\ irp' = NoIrp
    BY <1>1 DEF IrpEnd, Step, Go, ControlTypes
  <2>6. SweepMatch' /\ NewMatch'
    BY <2>2, <2>4, <2>5 DEF SweepMatch, NewMatch, NoIrp
  <2>7. ASSUME IrpEnd
        PROVE  /\ \A t \in Targets \ {irp.t} : node'[t] = node[t]
               /\ node'[irp.t] = "none" => irp.t \notin asked' /\ (Mapped(irp.t) => ~Lags(irp.t))
               /\ asked' \subseteq asked
    <3>1. /\ pc["pnp"] \in {"irp.put", "irp.pass"}
          /\ node' = [node EXCEPT ![irp.t] = NodeAfter(irp.minor, irp.t)]
          /\ asked' \in {asked, asked \ {irp.t}} /\ (node'[irp.t] = "none" => asked' = asked \ {irp.t})
      BY <2>7 DEF IrpEnd
    <3>2. ASSUME node'[irp.t] = "none", Mapped(irp.t)
          PROVE  ~Lags(irp.t)
      <4>1. NodeAfter(irp.minor, irp.t) = "none"
        BY <1>1, <3>1, <3>2
      <4>2. irp.minor = "REMOVE_DEVICE"
        BY <1>1, <2>2, <4>1 DEF NodeAfter, Irps, Minors
      <4>3. pc["pnp"] = "irp.put"
        BY <2>1, <3>1, <3>2, <4>2 DEF PendMatch, IrpMatch
      <4> QED
        BY <4>2, <4>3 DEF TableMatch, RemoveMatch, RemovePcs
    <3> QED
      BY <1>1, <3>1, <3>2
  <2>8. EjectsKnownDevices'
    <3>1. CASE IrpEnd
      <4> SUFFICES ASSUME NEW t \in asked'
                   PROVE  node'[t] # "none"
        BY DEF EjectsKnownDevices
      <4>1. t \in Targets /\ t \in asked
        BY <2>7, <3>1, EjectTypes
      <4>2. node[t] # "none"
        BY <4>1 DEF EjectsKnownDevices
      <4>3. CASE t = irp.t
        BY <2>7, <3>1, <4>3
      <4>4. CASE t # irp.t
        BY <2>7, <3>1, <4>1, <4>2, <4>4
      <4> QED
        BY <4>3, <4>4
    <3>2. CASE CheckEjectPending
      <4>1. asked' \subseteq asked \cup {irp.t} /\ UNCHANGED node
        BY <3>2 DEF CheckEjectPending
      <4> QED
        BY <2>3, <4>1 DEF EjectsKnownDevices
    <3>3. CASE ~(IrpEnd \/ CheckEjectPending)
      <4>1. UNCHANGED <<asked, node>>
        BY <1>3, <3>3 DEF Irp, MapPdo, SimpleIrp, CancelIrp, OtherIrp, StartBegin, OnBegin, OnEnd, StartFails,
           StartEnd, RemoveBegin, OffBegin, OffEnd, RemoveJudge, RemoveKeeps, EjectBegin, MarkDeleted, pnpVars
      <4> QED
        BY <4>1 DEF EjectsKnownDevices
    <3> QED
      BY <3>1, <3>2, <3>3
  <2>9. ASSUME StartBegin
        PROVE  \A t \in Targets : t # irp.t => (Mapped(t)' <=> Mapped(t)) /\ (Lags(t)' <=> Lags(t))
    <3>1. pc["pnp"] = "irp.do" /\ pdo' = PutPower(pdo, held["pnp"], "D0")
      BY <2>9 DEF StartBegin, OnBegin, PutPower
    <3>2. \A t \in Targets : t # irp.t => table[t] # held["pnp"]
      BY <3>1, OwnSlot DEF IrpPcs, Counting
    <3>3. \A p \in Pdos : p # held["pnp"] => pdo'[p] = pdo[p]
      BY <1>1, <3>1 DEF PutPower
    <3> QED
      BY <1>1, <2>4, <3>2, <3>3 DEF Mapped, Lags
  <2>10. NoRise \/ StartBegin
    BY IrpSettled
  <2>11. NoNewDevice \/ MapPdo
    BY IrpPend
  <2>12. AbsentMatch'
    <3>1. CASE StartBegin
      <4>1. node' = node
        BY <3>1 DEF StartBegin, OnBegin, pnpVars
      <4> QED
        BY <2>3, <2>9, <3>1, <4>1 DEF TableMatch, AbsentMatch
    <3>2. CASE MapPdo
      <4>1. \A t \in Targets : t # irp.t => (Mapped(t)' => Mapped(t)) /\ (Lags(t)' => Lags(t))
        <5>1. NoRise
          BY <2>10, <3>2 DEF MapPdo, StartBegin, OnBegin
        <5>2. \A p \in Pdos : p # table[irp.t] => pdo'[p].devobj = pdo[p].devobj
          BY <1>1, <3>2 DEF MapPdo
        <5>3. \A t \in Targets : t # irp.t /\ table[t] # Null => table[t] # table[irp.t]
          BY <1>1 DEF LInv, Live
        <5> QED
          BY <1>1, <2>4, <5>1, <5>2, <5>3 DEF NoRise, Mapped
      <4>2. node' = node
        BY <3>2 DEF MapPdo, pnpVars
      <4> QED
        BY <2>3, <4>1, <4>2 DEF TableMatch, AbsentMatch
    <3>3. CASE NoRise /\ NoNewDevice
      <4>1. \A t \in Targets : node'[t] = "none" /\ Mapped(t) => ~Lags(t)
        BY <2>4, <2>7 DEF TableMatch, AbsentMatch
      <4> QED
        BY <3>3, <4>1, AbsentKept
    <3> QED
      BY <2>10, <2>11, <3>1, <3>2, <3>3
  <2>13. RemoveMatch'
    <3>1. CASE IrpEnd
      BY <2>5, <3>1 DEF RemoveMatch, RemovePcs
    <3>2. CASE StartBegin
      <4>1. irp.minor = "START_DEVICE" /\ irp' = irp
        BY <3>2 DEF StartBegin, OnBegin
      <4> QED
        BY <4>1 DEF RemoveMatch
    <3>3. CASE RemoveBegin
      <4>1. /\ irp.minor = "REMOVE_DEVICE" /\ pc["pnp"] = "irp.do" /\ irp' = irp /\ table' = table
            /\ pc'["pnp"] \in {"irp.judge", "irp.off"} /\ pdo' = PutPower(pdo, held["pnp"], "D3")
        BY <1>1, <3>3 DEF RemoveBegin, OffBegin, PutPower, Go, ControlTypes
      <4>2. held["pnp"] \in Pdos
        BY <1>1, <4>1, HeldFacts DEF LInv, Counting, IrpPcs
      <4>3. table[irp.t] \in {held["pnp"], Null}
        BY <1>1, <4>1, <4>2 DEF PendMatch, IrpMatch, OwnMatch, SlotFits, IrpPcs
      <4>4. pdo'[held["pnp"]].power = "D3"
        BY <1>1, <4>1, <4>2 DEF PutPower, PdoRecords
      <4>5. ~Lags(irp.t)'
        BY <4>1, <4>3, <4>4 DEF Lags
      <4> QED
        BY <4>1, <4>5 DEF RemoveMatch
    <3>4. CASE ~(IrpEnd \/ StartBegin \/ RemoveBegin)
      <4>1. NoRise /\ irp' = irp
        BY <2>4, <2>10, <3>4
      <4>2. PICK t \in Targets : t = irp.t
        BY <1>1
      <4>3. Lags(t)' => Lags(t)
        BY <4>1 DEF NoRise
      <4>4. /\ pc'["pnp"] \in {"irp.on", "irp.started"} => pc["pnp"] \in {"irp.on", "irp.started"}
            /\ pc'["pnp"] \in RemovePcs =>
                 pc["pnp"] \in RemovePcs \cup {"irp.started"} \/ irp.minor # "REMOVE_DEVICE"
        BY <1>1, <1>3, <3>4 DEF Irp, MapPdo, CheckEjectPending, SimpleIrp, StateOf, CancelIrp, OtherIrp, OnEnd, StartFails,
           StartEnd, OffEnd, RemoveJudge, RemoveKeeps, EjectBegin, MarkDeleted, SetPnp, Go, ControlTypes, RemovePcs
      <4>5. RemoveMatch
        BY DEF TableMatch
      <4> QED
        BY <4>1, <4>2, <4>3, <4>4, <4>5 DEF RemoveMatch, Lags
    <3> QED
      BY <3>1, <3>2, <3>3, <3>4
  <2> QED
    BY <2>6, <2>8, <2>12, <2>13 DEF TableMatch
<1> QED
  BY <1>2, <1>3

\* What the PnP and power managers begin: a new FDO finds the table empty.
LEMMA ManagersKnown ==
  ASSUME LInv, DestroyMatch', PowerMatch, PendMatch, TableMatch, "power" \notin Activities, Managers
  PROVE  TableMatch' /\ UNCHANGED <<asked, node>>
<1>1. ControlTypes /\ Control /\ "pnp" \in Actors
  BY EjectTypes DEF LInv
<1>2. UNCHANGED <<asked, node, table>> /\ pc["pnp"] = "idle"
  BY DEF Managers, QueryRelations, SendIrp, FindAdapter, RemoveFdo, DispatchPower, pnpVars
<1>3. NoRise /\ NoNewDevice
  BY ManagersSettled, ManagersPend DEF SameEjects, SameEject, NoNewDevice
<1>4. AbsentMatch'
  BY <1>2, <1>3, AbsentKept DEF TableMatch, AbsentMatch
<1>5. pc'["pnp"] \notin RemovePcs \cup {"irp.on", "irp.started", "sweep"} \cup DestroyPcs
  BY <1>1 DEF Managers, QueryRelations, SendIrp, FindAdapter, RemoveFdo, DispatchPower, Step, Go, ControlTypes,
     RemovePcs, DestroyPcs
<1>6. RemoveMatch' /\ SweepMatch'
  BY <1>5 DEF RemoveMatch, SweepMatch, Sweeping, DestroyPcs
<1>7. NewMatch'
  <2>1. CASE FindAdapter
    <3>1. \A t \in Targets : table[t] = Null
      BY <1>1, <1>2, <2>1, PnpAt DEF FindAdapter, TableMatch, NewMatch
    <3> QED
      BY <1>2, <2>1, <3>1 DEF FindAdapter, NewMatch, Mapped
  <2>2. CASE ~FindAdapter
    <3>1. irp'.minor \notin {"none", "add"}
      BY <2>2 DEF Managers, QueryRelations, SendIrp, MaySend, RemoveFdo, DispatchPower
    <3> QED
      BY <3>1 DEF NewMatch
  <2> QED
    BY <2>1, <2>2
<1> QED
  BY <1>2, <1>4, <1>6, <1>7 DEF TableMatch

\* PdoIssueDeviceEject: a PDO whose frontend is watched is in D0 or on its way down, and then the
\* PnP manager knows its device.
LEMMA PathsKnown ==
  ASSUME LInv, PowerMatch, PendMatch, Idle, TableMatch, PathsChanged, fdo.power = "D0",
         NEW t \in Watched, Mapped(t)
  PROVE  node[t] # "none"
<1>1. /\ Control /\ {"pnp", "scan", "front", "power", "io"} \subseteq Actors
      /\ pdo \in [Pdos -> PdoRecords] /\ table[t] \in Pdos /\ t \in Targets
  BY EjectTypes DEF LInv, Watched
<1> SUFFICES ASSUME node[t] = "none"
             PROVE  FALSE
  OBVIOUS
<1>2. pdo[table[t]].frontend /\ pdo[table[t]].power = "D3" /\ table[t] # Null
  BY <1>1 DEF TableMatch, AbsentMatch, Lags, Watched, PdoRecords
<1>3. PICK a \in Actors : held[a] = table[t] /\ pc[a] \in {"up.end", "down.end", "irp.on", "irp.off", "destroy.end"}
  BY <1>1, <1>2 DEF PowerMatch, InTransition, Transitions
<1>4. InTable(held[a])
  BY <1>1, <1>3 DEF InTable
<1>5. pc[a] \notin {"up.end", "irp.on"}
  BY <1>2, <1>3, <1>4 DEF PowerMatch, UpBody
<1>6. pc[a] # "destroy.end"
  BY <1>4 DEF LInv, DestroyMatch, DestroyPcs
<1>7. a = "pnp"
  BY <1>1, <1>3, <1>5, <1>6 DEF Idle, Asleep, Control, Places, Actors, Workers, EnumPcs, DestroyPcs
<1>8. CASE pc["pnp"] = "down.end"
  <2>1. irp.minor \in {"add", "remove"}
    BY <1>1, <1>8, PnpAt DEF PowerPcs
  <2>2. irp.minor # "remove"
    BY <1>1, <1>8 DEF Control, LinkMatch
  <2> QED
    BY <1>1, <2>1, <2>2 DEF TableMatch, NewMatch
<1>9. CASE pc["pnp"] = "irp.off"
  <2>1. t = irp.t
    BY <1>1, <1>3, <1>7, <1>9, OwnSlot DEF IrpPcs, Counting
  <2> QED
    BY <1>9, <2>1 DEF PendMatch, IrpMatch, IrpPcs
<1> QED
  BY <1>3, <1>5, <1>6, <1>7, <1>8, <1>9

\* The watches, SRBs and the toolstack.
LEMMA OthersKnown ==
  ASSUME LInv, DestroyMatch', PowerMatch, PendMatch, KnownMatch,
         \/ Notify \/ TakeIrp \/ PathsChanged \/ Toolstack \/ IoEnd
         \/ (\E t \in Targets : IoBegin(t)) \/ UNCHANGED vars
  PROVE  TableMatch' /\ EjectsKnownDevices'
<1>1. ControlTypes /\ "pnp" \in Actors /\ pdo \in [Pdos -> PdoRecords]
  BY EjectTypes
<1>2. Still
  BY <1>1 DEF Still, Notify, TakeIrp, PathsChanged, Toolstack, Migrate, Rewatch, Plug, Unplug, Leave, IoEnd, IoBegin,
     vars, actorVars, pnpVars, Step, Go, ControlTypes
<1>3. NoRise /\ NoNewDevice
  BY OthersSettled, OthersPend DEF SameEjects, SameEject, NoNewDevice
<1>4. TableMatch'
  BY <1>2, <1>3, StillKeeps DEF KnownMatch
<1>5. EjectsKnownDevices'
  <2>1. CASE PathsChanged
    <3> DEFINE gone == IF fdo.power = "D0" THEN {table[t] : t \in Watched \cap leaving} ELSE {}
    <3>1. asked' = asked \cup {pdo[p].target : p \in {q \in gone : pdo[q].devobj}}
      BY <2>1 DEF PathsChanged, IssueDeviceEject
    <3>2. ASSUME NEW u \in asked', u \notin asked
          PROVE  node[u] # "none"
      <4>1. PICK p \in gone : pdo[p].devobj /\ u = pdo[p].target
        BY <3>1, <3>2
      <4>2. PICK t \in Watched : p = table[t] /\ fdo.power = "D0"
        BY <4>1
      <4>3. Mapped(t) /\ pdo[table[t]].target = t
        BY <4>1, <4>2 DEF Watched, Mapped, LInv, Live
      <4> QED
        BY <2>1, <4>1, <4>2, <4>3, PathsKnown DEF KnownMatch
    <3>3. node' = node
      BY <1>2 DEF Still
    <3> QED
      BY <3>2, <3>3 DEF KnownMatch, EjectsKnownDevices
  <2>2. CASE ~PathsChanged
    <3>1. UNCHANGED <<asked, node>>
      BY <2>2 DEF Notify, TakeIrp, Toolstack, Migrate, Plug, Unplug, Leave, IoEnd, IoBegin, vars, pnpVars
    <3> QED
      BY <3>1 DEF KnownMatch, EjectsKnownDevices
  <2> QED
    BY <2>1, <2>2
<1> QED
  BY <1>4, <1>5

\* Every step keeps what ejections rely on.
LEMMA GroupsKnown ==
  ASSUME LInv, DestroyMatch', PowerMatch, PendMatch, KnownMatch, "power" \notin Activities, StepOf
  PROVE  KnownMatch'
<1>1. Idle /\ TableMatch /\ EjectsKnownDevices
  BY DEF KnownMatch
<1>2. Idle'
  BY <1>1, IdleKept
<1>3. UNCHANGED <<asked, node>> => EjectsKnownDevices'
  BY <1>1 DEF EjectsKnownDevices
<1>4. CASE \E w \in Workers : Worker(w)
  BY <1>1, <1>2, <1>3, <1>4, WorkerKnown DEF KnownMatch
<1>5. CASE \E a \in Enumerators : LockFdo(a)
  BY <1>1, <1>2, <1>3, <1>5, LockKnown DEF KnownMatch
<1>6. CASE \E a \in Enumerators : Enumerate(a)
  BY <1>1, <1>2, <1>3, <1>6, EnumerateKnown DEF KnownMatch
<1>7. CASE \E a \in Enumerators : Destroy(a)
  BY <1>1, <1>2, <1>3, <1>7, DestroyKnown DEF KnownMatch
<1>8. CASE \E a \in Powerers : Power(a)
  BY <1>1, <1>2, <1>3, <1>8, PowerKnown DEF KnownMatch
<1>9. CASE RelationsEnd \/ Irp
  BY <1>1, <1>2, <1>9, IrpKnown DEF KnownMatch
<1>10. CASE Removal
  <2>1. asked' = {} => EjectsKnownDevices'
    BY DEF EjectsKnownDevices
  <2> QED
    BY <1>1, <1>2, <1>3, <1>10, <2>1, RemovalKnown DEF KnownMatch
<1>11. CASE Managers
  BY <1>1, <1>2, <1>3, <1>11, ManagersKnown DEF KnownMatch
<1>12. CASE \/ Notify \/ TakeIrp \/ PathsChanged \/ Toolstack \/ IoEnd
            \/ (\E t \in Targets : IoBegin(t)) \/ UNCHANGED vars
  BY <1>2, <1>12, OthersKnown DEF KnownMatch
<1> QED
  BY <1>4, <1>5, <1>6, <1>7, <1>8, <1>9, <1>10, <1>11, <1>12 DEF StepOf

\* At first no FDO is there, and no device.
LEMMA InitKnown == Init => KnownMatch
<1> SUFFICES ASSUME Init
             PROVE  KnownMatch
  OBVIOUS
<1>1. /\ pc["pnp"] = "idle" /\ pc["power"] = "dead" /\ powerIrp = "None" /\ irp.minor = "none"
      /\ asked = {} /\ \A t \in Targets : table[t] = Null
  BY DEF Init, NoIrp, Actors, Workers
<1> QED
  BY <1>1 DEF KnownMatch, Idle, Asleep, TableMatch, RemoveMatch, RemovePcs, SweepMatch, NewMatch, AbsentMatch, Mapped,
     EjectsKnownDevices

\* While the FDO's power is left alone, an ejection reaches the device it is for and no other,
\* whatever the backend, the PnP manager, the toolstack and failures do: IoRequestDeviceEject is
\* not called for a device that StorPort has deleted (pdo.c:2193-2229), for such a PDO stays in D3
\* and its frontend is not watched.  With power IRPs __FdoD3ToD0 wakes it, and this fails.
THEOREM EjectionsReachDevices ==
  ASSUME "power" \notin Activities
  PROVE  Spec => []EjectionsReach
<1> DEFINE EInv == PInv /\ PendMatch /\ KnownMatch
<1>1. Init => EInv
  BY InitPower, InitPend, InitKnown
<1>2. EInv /\ [Next]_vars => EInv'
  <2> SUFFICES ASSUME PInv, PendMatch, KnownMatch, [Next]_vars
               PROVE  PInv' /\ PendMatch' /\ KnownMatch'
    OBVIOUS
  <2>1. LInv' /\ LInv /\ StepOf /\ PowerMatch /\ AcquiredMatch
    BY NextLife, StepsOf DEF PInv
  <2>2. DestroyMatch'
    BY <2>1 DEF LInv
  <2>3. PInv'
    BY <2>1, <2>2, GroupsKeepPower DEF PInv
  <2>4. PendMatch' /\ KnownMatch'
    BY <2>1, <2>2, GroupsPend, GroupsKnown
  <2> QED
    BY <2>3, <2>4
<1>3. EInv => EjectionsReach
  BY DEF EjectionsReach, KnownMatch, PendMatch
<1> HIDE DEF EInv
<1> QED
  BY <1>1, <1>2, <1>3, PTL DEF Spec
=============================================================================
