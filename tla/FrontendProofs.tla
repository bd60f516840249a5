--------------------------- MODULE FrontendProofs ---------------------------
(***************************************************************************)
(* The ring of a target, its grants, its event channel and the watches on  *)
(* the backend match the state of the frontend, whichever calls fail and   *)
(* wherever a suspend cuts in, for every ring order and on any CPUs.       *)
(*                                                                         *)
(* ResourcesMatch speaks of the moments outside __FrontendSetState; the    *)
(* invariant that implies it says for every program counter what is held.  *)
(* Its one surprise is Handshake: __AllocRing may report success without a *)
(* ring, and then only the backend's refusal of the empty ring keeps the   *)
(* frontend from becoming CONNECTED.                                       *)
(***************************************************************************)
EXTENDS Frontend, TLAPS

-----------------------------------------------------------------------------
(* The invariant.                                                          *)

ClosePcs == {"Close", "AwaitInit", "AskClosing", "AwaitClosing", "AskClosed",
             "AwaitClosed", "CloseDone", "CloseFailed"}
PreparePcs == {"AwaitInitWait", "Prepared"}
ConnectPcs == {"Publish", "AwaitConnected", "Connecting"}
RestStates == {"Initialized", "Closed", "Enabled", "Invalid"}

\* Where __FrontendSetState can be in each state, and with which target.
PcsMatch ==
  /\ target \in RestStates
  /\ pc \in PassivePcs => State \in RestStates
  /\ pc \in ClosePcs => State \in {"Initialized", "Closed", "Prepared", "Connected"}
  /\ pc \in PreparePcs => State = "Closed"
  /\ pc \in ConnectPcs => State = "Prepared"
  /\ pc \in PreparePcs \cup ConnectPcs => ~failed /\ target = "Enabled"
  /\ pc = "Loop" /\ State = "Prepared" => ~failed /\ target = "Enabled"
  /\ pc = "Loop" /\ State \in {"Connected", "Enabled"}
       => ~failed /\ target \in {"Closed", "Enabled"}

CallerMatch ==
  /\ pc \in PassivePcs <=> caller = "None"
  /\ caller = "PowerUp" => target = "Enabled" /\ powered
  /\ caller \in {"PowerDown", "Suspend"} => target = "Closed"
  /\ caller = "Resume" => target = resume.State
  /\ caller \notin {"Suspend", "Resume"} => resume = NoResume

\* A PDO that is not in D0, or on its way, is not enabled.
Rests(p, s) ==
  /\ p = "PowerUp" => powered /\ s # "Enabled"
  /\ p = "Release" => s # "Enabled"
  /\ p = "Idle" /\ ~powered => s # "Enabled"

PowerMatch ==
  /\ Rests(pc, State)
  /\ caller \in {"Suspend", "Resume"} =>
       /\ Rests(resume.pc, resume.State) /\ resume.State \in RestStates
       /\ life = "Live" /\ (resume.pc = "Idle" => powered)
  /\ pc = "Idle" /\ life # "Live" => ~powered
  /\ pc = "Idle" /\ ~powered => ~registered /\ backendPath = "NULL"

\* An emulated target is never enabled.
MaskMatch ==
  ~masked => /\ State # "Enabled" /\ resume.State # "Enabled"
             /\ pc \notin PassivePcs => target # "Enabled"

Control == PcsMatch /\ CallerMatch /\ PowerMatch /\ MaskMatch

WatchMatch ==
  /\ connected <=> State = "Enabled"
  /\ pc \in ClosePcs \ {"Close"} => ~watches
  /\ pc \notin ClosePcs =>
       (watches <=> State \in {"Prepared", "Connected", "Enabled"} \/ pc \in PreparePcs)

NoRing == ~sharedRing /\ ~port /\ refs = leaked
FullRing == sharedRing /\ port /\ refs = RingPages /\ leaked = {}

RingMatch ==
  /\ leaked # {} => 0 \in leaked
  /\ State \in {"Connected", "Enabled"} => FullRing
  /\ pc \in ConnectPcs => FullRing \/ (NoRing /\ leaked = {})
  /\ State \notin {"Connected", "Enabled"} /\ pc \notin ConnectPcs => NoRing

\* The frontend is about to be CLOSED, or is: the backend is not connected, and does
\* not connect to what the frontend says now.
Apart == backend # "Connected" /\ fstate # "Initialised"

Handshake ==
  /\ fstate = "Initialising" => backend # "Connected"
  /\ backend = "Closed" => fstate # "Initialised"
  /\ pc \in PreparePcs \/ (State = "Prepared" /\ pc \in {"Loop", "Publish"})
       => fstate = "Initialising"
  /\ (pc = "Prepared" /\ seen = "InitWait") \/ (State = "Prepared" /\ pc \in {"Loop", "Publish"})
       => backend # "Closed"
  /\ pc \in {"AskClosing", "AskClosed"} /\ seen = "Closed" => Apart
  /\ pc = "CloseDone" \/ (State = "Closed" /\ pc \in PassivePcs \cup {"Loop"}) => Apart
  /\ pc \in {"AwaitConnected", "Connecting"} /\ ~sharedRing
       => published = {} /\ backend # "Connected" /\ seen # "Connected"

\* A target in D0 that is not in a transition is enabled, and a suspend remembers it.
PoweredEnabled ==
  /\ pc = "Idle" /\ life = "Live" /\ powered /\ masked => State = "Enabled"
  /\ caller \in {"Suspend", "Resume"} /\ resume.pc = "Idle" /\ powered /\ masked
       => resume.State = "Enabled"

\* A backend that is, or has been seen, closed has unmapped the ring.
Unmapped ==
  /\ backend = "Closed" => mapped = {}
  /\ pc \in {"AskClosing", "AskClosed"} /\ seen = "Closed" => mapped = {}
  /\ pc = "CloseDone" => mapped = {}

IInv == /\ TypeOK /\ Control /\ WatchMatch /\ RingMatch /\ Handshake /\ AssertsHold
        /\ PoweredEnabled /\ Unmapped

\* On one CPU FdoFrontend and the power thread exclude each other.
PathLive == ReadsLivePath /\ (active => registered)

-----------------------------------------------------------------------------
(* Facts about the helpers.                                                *)

\* What the while loop of __FrontendSetState has found when it takes each branch.
LEMMA Routes ==
  ASSUME TypeOK, PcsMatch, pc = "Loop"
  PROVE  /\ Route = "Return" <=> failed \/ State = target
         /\ Route = "Close" => ~failed /\ State \in {"Initialized", "Prepared", "Connected"}
         /\ Route = "Close" /\ State # "Initialized" => target = "Closed"
         /\ Route = "Prepare" => ~failed /\ State = "Closed" /\ target = "Enabled"
         /\ Route = "Connect" => ~failed /\ State = "Prepared" /\ target = "Enabled"
         /\ Route = "Enable" => ~failed /\ State = "Connected" /\ target = "Enabled"
         /\ Route = "Disable" => ~failed /\ State = "Enabled" /\ target = "Closed"
         /\ Route = "Refuse" => State \notin {"Prepared", "Connected", "Enabled"}
<1>1. CASE failed \/ State = target
  <2>1. Route = "Return"
    BY <1>1 DEF Route
  <2> QED  BY <1>1, <2>1
<1>2. CASE ~failed /\ State # target
  <2>1. CASE State = "Initialized"
    <3>1. target # "Invalid" => Route = "Close"
      BY <1>2, <2>1 DEF Route
    <3>2. target = "Invalid" => Route = "Refuse"
      BY <1>2, <2>1 DEF Route
    <3> QED  BY <1>2, <2>1, <3>1, <3>2
  <2>2. CASE State = "Closed"
    <3>1. target = "Enabled" => Route = "Prepare"
      BY <1>2, <2>2 DEF Route
    <3>2. target # "Enabled" => Route = "Refuse"
      BY <1>2, <2>2 DEF Route, PcsMatch, RestStates
    <3> QED  BY <1>2, <2>2, <3>1, <3>2
  <2>3. CASE State = "Prepared"
    <3>1. Route = "Connect"
      BY <1>2, <2>3 DEF Route, PcsMatch
    <3> QED  BY <1>2, <2>3, <3>1 DEF PcsMatch
  <2>4. CASE State = "Connected"
    <3>1. target = "Enabled" => Route = "Enable"
      BY <1>2, <2>4 DEF Route
    <3>2. target = "Closed" => Route = "Close"
      BY <1>2, <2>4 DEF Route
    <3> QED  BY <1>2, <2>4, <3>1, <3>2 DEF PcsMatch
  <2>5. CASE State = "Enabled"
    <3>1. Route = "Disable"
      BY <1>2, <2>5 DEF Route, PcsMatch
    <3> QED  BY <1>2, <2>5, <3>1 DEF PcsMatch
  <2>6. CASE State = "Invalid"
    <3>1. Route = "Refuse"
      BY <1>2, <2>6 DEF Route
    <3> QED  BY <1>2, <2>6, <3>1
  <2> QED
    BY <2>1, <2>2, <2>3, <2>4, <2>5, <2>6 DEF TypeOK, ControlTypes, XenvbdState
<1> QED
  BY <1>1, <1>2

\* The pages of the ring the frontend asks for are among all pages, the first included.
LEMMA RingPagesKnown ==
  ASSUME TypeOK
  PROVE  RingPages \subseteq Pages /\ 0 \in RingPages
BY FrontendAssumption, PowersAssumption
   DEF TypeOK, RingTypes, RingPages, Pages, FrontendAssumption, PowersAssumption

-----------------------------------------------------------------------------
(* Types.                                                                  *)

\* What FrontendCreate leaves is well typed.
LEMMA InitTypes == Init => TypeOK
<1> SUFFICES ASSUME Init PROVE TypeOK
  OBVIOUS
<1> USE DEF Init
<1>1. ControlTypes
  BY DEF ControlTypes, XenbusState, XenvbdState, PassivePcs, NoResume, Asserts
<1>2. PowerTypes
  BY DEF PowerTypes
<1>3. RingTypes
  <2>1. ringOrder \in 0 .. MaxOrder
    BY FrontendAssumption DEF FrontendAssumption
  <2>2. refs \subseteq Pages /\ leaked \subseteq Pages
    OBVIOUS
  <2> QED
    BY <2>1, <2>2 DEF RingTypes
<1>4. StoreTypes
  BY DEF StoreTypes, XenbusState
<1>5. WatcherTypes
  BY DEF WatcherTypes, Paths
<1> QED
  BY <1>1, <1>2, <1>3, <1>4, <1>5 DEF TypeOK

\* The readers, the backend and the toolstack leave the frontend's own state alone.
LEMMA OthersStep ==
  ASSUME Reader \/ Backend \/ Toolstack \/ Halted \/ UNCHANGED vars
  PROVE  UNCHANGED <<control, ring, power, backendPath, watches, ringOrder, connected, bugcheck>>
BY DEF Reader, Backend, Toolstack, ReadBegin, ReadEnd, BackendReady, BackendConnect, BackendClosing,
       BackendClosed, BackendGoes, GoOffline, NewDevice, Resize, Halted, vars

\* Every step of the driver keeps the state, the call and its result well typed.
LEMMA NextControlTypes ==
  ASSUME TypeOK, [Next]_vars
  PROVE  ControlTypes'
<1> USE DEF TypeOK, ControlTypes, StoreTypes, Step, Decide, control, XenbusState,
            XenvbdState, PassivePcs, LockedPcs, AwaitPcs, NoResume, Asserts
<1>1. CASE StartClose
  BY <1>1 DEF StartClose
<1>2. CASE CloseBegin
  BY <1>2 DEF CloseBegin, UpdateBackendPath
<1>3. CASE AskClosing
  BY <1>3 DEF AskClosing
<1>4. CASE AskClosed
  BY <1>4 DEF AskClosed
<1>5. CASE CloseEnd
  BY <1>5 DEF CloseEnd, FreeRing
<1>6. CASE PrepareBegin
  <2>1. failed' \in BOOLEAN
    BY <1>6 DEF PrepareBegin, Undo, UpdateBackendPath
  <2>2. State' \in XenvbdState /\ target' \in XenvbdState
    BY <1>6 DEF PrepareBegin, Undo, UpdateBackendPath
  <2>3. pc' \in PassivePcs \cup LockedPcs
    BY <1>6 DEF PrepareBegin, Undo, UpdateBackendPath
  <2>4. caller' \in {"None", "PowerUp", "PowerDown", "Suspend", "Resume"}
    BY <1>6 DEF PrepareBegin, Undo, UpdateBackendPath
  <2>5. seen' \in XenbusState
    BY <1>6 DEF PrepareBegin, Undo, UpdateBackendPath
  <2>6. resume' \in [State : XenvbdState, pc : PassivePcs]
    BY <1>6 DEF PrepareBegin, Undo, UpdateBackendPath
  <2>7. bugcheck' \in Asserts
    BY <1>6 DEF PrepareBegin, Undo, UpdateBackendPath
  <2> QED
    BY <2>1, <2>2, <2>3, <2>4, <2>5, <2>6, <2>7
<1>7. CASE PrepareEnd
  <2>1. failed' \in BOOLEAN
    BY <1>7 DEF PrepareEnd, Undo, RingOrders
  <2>2. State' \in XenvbdState /\ target' \in XenvbdState
    BY <1>7 DEF PrepareEnd, Undo, RingOrders
  <2>3. pc' \in PassivePcs \cup LockedPcs
    BY <1>7 DEF PrepareEnd, Undo, RingOrders
  <2>4. caller' \in {"None", "PowerUp", "PowerDown", "Suspend", "Resume"}
    BY <1>7 DEF PrepareEnd, Undo, RingOrders
  <2>5. seen' \in XenbusState
    BY <1>7 DEF PrepareEnd, Undo, RingOrders
  <2>6. resume' \in [State : XenvbdState, pc : PassivePcs]
    BY <1>7 DEF PrepareEnd, Undo, RingOrders
  <2>7. bugcheck' \in Asserts
    BY <1>7 DEF PrepareEnd, Undo, RingOrders
  <2> QED
    BY <2>1, <2>2, <2>3, <2>4, <2>5, <2>6, <2>7
<1>8. CASE AllocRing
  <2>1. failed' \in BOOLEAN
    BY <1>8 DEF AllocRing, Undo
  <2>2. State' \in XenvbdState /\ target' \in XenvbdState
    BY <1>8 DEF AllocRing, Undo
  <2>3. pc' \in PassivePcs \cup LockedPcs
    BY <1>8 DEF AllocRing, Undo
  <2>4. caller' \in {"None", "PowerUp", "PowerDown", "Suspend", "Resume"}
    BY <1>8 DEF AllocRing, Undo
  <2>5. seen' \in XenbusState
    BY <1>8 DEF AllocRing, Undo
  <2>6. resume' \in [State : XenvbdState, pc : PassivePcs]
    BY <1>8 DEF AllocRing, Undo
  <2>7. bugcheck' \in Asserts
    BY <1>8 DEF AllocRing, Undo
  <2> QED
    BY <2>1, <2>2, <2>3, <2>4, <2>5, <2>6, <2>7
<1>9. CASE AllocRingAsserts
  BY <1>9 DEF AllocRingAsserts, Stop
<1>10. CASE Publish
  <2>1. failed' \in BOOLEAN
    BY <1>10 DEF Publish, FreeRing, Undo
  <2>2. State' \in XenvbdState /\ target' \in XenvbdState
    BY <1>10 DEF Publish, FreeRing, Undo
  <2>3. pc' \in PassivePcs \cup LockedPcs
    BY <1>10 DEF Publish, FreeRing, Undo
  <2>4. caller' \in {"None", "PowerUp", "PowerDown", "Suspend", "Resume"}
    BY <1>10 DEF Publish, FreeRing, Undo
  <2>5. seen' \in XenbusState
    BY <1>10 DEF Publish, FreeRing, Undo
  <2>6. resume' \in [State : XenvbdState, pc : PassivePcs]
    BY <1>10 DEF Publish, FreeRing, Undo
  <2>7. bugcheck' \in Asserts
    BY <1>10 DEF Publish, FreeRing, Undo
  <2> QED
    BY <2>1, <2>2, <2>3, <2>4, <2>5, <2>6, <2>7
<1>11. CASE ConnectEnd
  <2>1. failed' \in BOOLEAN
    BY <1>11 DEF ConnectEnd, FreeRing, Undo
  <2>2. State' \in XenvbdState /\ target' \in XenvbdState
    BY <1>11 DEF ConnectEnd, FreeRing, Undo
  <2>3. pc' \in PassivePcs \cup LockedPcs
    BY <1>11 DEF ConnectEnd, FreeRing, Undo
  <2>4. caller' \in {"None", "PowerUp", "PowerDown", "Suspend", "Resume"}
    BY <1>11 DEF ConnectEnd, FreeRing, Undo
  <2>5. seen' \in XenbusState
    BY <1>11 DEF ConnectEnd, FreeRing, Undo
  <2>6. resume' \in [State : XenvbdState, pc : PassivePcs]
    BY <1>11 DEF ConnectEnd, FreeRing, Undo
  <2>7. bugcheck' \in Asserts
    BY <1>11 DEF ConnectEnd, FreeRing, Undo
  <2> QED
    BY <2>1, <2>2, <2>3, <2>4, <2>5, <2>6, <2>7
<1>12. CASE Enable
  BY <1>12 DEF Enable
<1>13. CASE Disable
  BY <1>13 DEF Disable
<1>14. CASE Refuse
  BY <1>14 DEF Refuse
<1>15. CASE WaitState
  BY <1>15 DEF WaitState, AfterWait
<1>16. CASE WaitFails
  BY <1>16 DEF WaitFails, AfterFailure
<1>17. CASE WaitStateAsserts
  BY <1>17 DEF WaitStateAsserts, Stop
<1>18. CASE Return
  <2>1. failed' \in BOOLEAN
    BY <1>18 DEF Return
  <2>2. State' \in XenvbdState /\ target' \in XenvbdState
    BY <1>18 DEF Return
  <2>3. pc' \in PassivePcs \cup LockedPcs
    BY <1>18 DEF Return
  <2>4. caller' \in {"None", "PowerUp", "PowerDown", "Suspend", "Resume"}
    BY <1>18 DEF Return
  <2>5. seen' \in XenbusState
    BY <1>18 DEF Return
  <2>6. resume' \in [State : XenvbdState, pc : PassivePcs]
    BY <1>18 DEF Return
  <2>7. bugcheck' \in Asserts
    BY <1>18 DEF Return
  <2> QED
    BY <2>1, <2>2, <2>3, <2>4, <2>5, <2>6, <2>7
<1>19. CASE SuspendClosed
  <2>1. failed' \in BOOLEAN
    BY <1>19 DEF SuspendClosed, SetState
  <2>2. State' \in XenvbdState /\ target' \in XenvbdState
    BY <1>19 DEF SuspendClosed, SetState
  <2>3. pc' \in PassivePcs \cup LockedPcs
    BY <1>19 DEF SuspendClosed, SetState
  <2>4. caller' \in {"None", "PowerUp", "PowerDown", "Suspend", "Resume"}
    BY <1>19 DEF SuspendClosed, SetState
  <2>5. seen' \in XenbusState
    BY <1>19 DEF SuspendClosed, SetState
  <2>6. resume' \in [State : XenvbdState, pc : PassivePcs]
    BY <1>19 DEF SuspendClosed, SetState
  <2>7. bugcheck' \in Asserts
    BY <1>19 DEF SuspendClosed, SetState
  <2> QED
    BY <2>1, <2>2, <2>3, <2>4, <2>5, <2>6, <2>7
<1>20. CASE SuspendEnd
  BY <1>20 DEF SuspendEnd
<1>21. CASE SuspendAsserts
  BY <1>21 DEF SuspendAsserts, Stop
<1>22. CASE Connect
  <2>1. failed' \in BOOLEAN
    BY <1>22 DEF Connect, SetState
  <2>2. State' \in XenvbdState /\ target' \in XenvbdState
    BY <1>22 DEF Connect, SetState
  <2>3. pc' \in PassivePcs \cup LockedPcs
    BY <1>22 DEF Connect, SetState
  <2>4. caller' \in {"None", "PowerUp", "PowerDown", "Suspend", "Resume"}
    BY <1>22 DEF Connect, SetState
  <2>5. seen' \in XenbusState
    BY <1>22 DEF Connect, SetState
  <2>6. resume' \in [State : XenvbdState, pc : PassivePcs]
    BY <1>22 DEF Connect, SetState
  <2>7. bugcheck' \in Asserts
    BY <1>22 DEF Connect, SetState
  <2> QED
    BY <2>1, <2>2, <2>3, <2>4, <2>5, <2>6, <2>7
<1>23. CASE Disconnect
  <2>1. failed' \in BOOLEAN
    BY <1>23 DEF Disconnect, SetState
  <2>2. State' \in XenvbdState /\ target' \in XenvbdState
    BY <1>23 DEF Disconnect, SetState
  <2>3. pc' \in PassivePcs \cup LockedPcs
    BY <1>23 DEF Disconnect, SetState
  <2>4. caller' \in {"None", "PowerUp", "PowerDown", "Suspend", "Resume"}
    BY <1>23 DEF Disconnect, SetState
  <2>5. seen' \in XenbusState
    BY <1>23 DEF Disconnect, SetState
  <2>6. resume' \in [State : XenvbdState, pc : PassivePcs]
    BY <1>23 DEF Disconnect, SetState
  <2>7. bugcheck' \in Asserts
    BY <1>23 DEF Disconnect, SetState
  <2> QED
    BY <2>1, <2>2, <2>3, <2>4, <2>5, <2>6, <2>7
<1>24. CASE Release
  BY <1>24 DEF Release
<1>25. CASE Create
  BY <1>25 DEF Create, Register
<1>26. CASE PowerOn
  BY <1>26 DEF PowerOn, Register
<1>27. CASE PowerOff
  BY <1>27 DEF PowerOff
<1>28. CASE Destroy
  BY <1>28 DEF Destroy, CanDestroy
<1>29. CASE DestroyAsserts
  BY <1>29 DEF DestroyAsserts, CanDestroy, Stop
<1>30. CASE SuspendBegin
  <2>1. failed' \in BOOLEAN
    BY <1>30 DEF SuspendBegin, SetState, Passive
  <2>2. State' \in XenvbdState /\ target' \in XenvbdState
    BY <1>30 DEF SuspendBegin, SetState, Passive
  <2>3. pc' \in PassivePcs \cup LockedPcs
    BY <1>30 DEF SuspendBegin, SetState, Passive
  <2>4. caller' \in {"None", "PowerUp", "PowerDown", "Suspend", "Resume"}
    BY <1>30 DEF SuspendBegin, SetState, Passive
  <2>5. seen' \in XenbusState
    BY <1>30 DEF SuspendBegin, SetState, Passive
  <2>6. resume' \in [State : XenvbdState, pc : PassivePcs]
    BY <1>30 DEF SuspendBegin, SetState, Passive
  <2>7. bugcheck' \in Asserts
    BY <1>30 DEF SuspendBegin, SetState, Passive
  <2> QED
    BY <2>1, <2>2, <2>3, <2>4, <2>5, <2>6, <2>7
<1>31. CASE Reader \/ Backend \/ Toolstack \/ Halted \/ UNCHANGED vars
  BY <1>31, OthersStep
<1> QED
  BY <1>1, <1>2, <1>3, <1>4, <1>5, <1>6, <1>7, <1>8, <1>9, <1>10, <1>11, <1>12,
     <1>13, <1>14, <1>15, <1>16, <1>17, <1>18, <1>19, <1>20, <1>21, <1>22, <1>23,
     <1>24, <1>25, <1>26, <1>27, <1>28, <1>29, <1>30, <1>31
     DEF Next, Locked, Close, Open, Unlocked

\* Every step keeps the PDO's flags well typed.
LEMMA NextPowerTypes ==
  ASSUME TypeOK, [Next]_vars
  PROVE  PowerTypes'
<1> USE DEF TypeOK, PowerTypes, Step, Decide, power
<1>1. CASE StartClose
  BY <1>1 DEF StartClose
<1>2. CASE CloseBegin
  BY <1>2 DEF CloseBegin, UpdateBackendPath
<1>3. CASE AskClosing
  BY <1>3 DEF AskClosing
<1>4. CASE AskClosed
  BY <1>4 DEF AskClosed
<1>5. CASE CloseEnd
  BY <1>5 DEF CloseEnd, FreeRing
<1>6. CASE PrepareBegin
  BY <1>6 DEF PrepareBegin, Undo, UpdateBackendPath
<1>7. CASE PrepareEnd
  BY <1>7 DEF PrepareEnd, Undo, RingOrders
<1>8. CASE AllocRing
  BY <1>8 DEF AllocRing, Undo
<1>9. CASE AllocRingAsserts
  BY <1>9 DEF AllocRingAsserts, Stop
<1>10. CASE Publish
  BY <1>10 DEF Publish, FreeRing, Undo
<1>11. CASE ConnectEnd
  BY <1>11 DEF ConnectEnd, FreeRing, Undo
<1>12. CASE Enable
  BY <1>12 DEF Enable
<1>13. CASE Disable
  BY <1>13 DEF Disable
<1>14. CASE Refuse
  BY <1>14 DEF Refuse
<1>15. CASE WaitState
  BY <1>15 DEF WaitState, AfterWait
<1>16. CASE WaitFails
  BY <1>16 DEF WaitFails, AfterFailure
<1>17. CASE WaitStateAsserts
  BY <1>17 DEF WaitStateAsserts, Stop
<1>18. CASE Return
  BY <1>18 DEF Return
<1>19. CASE SuspendClosed
  BY <1>19 DEF SuspendClosed, SetState
<1>20. CASE SuspendEnd
  BY <1>20 DEF SuspendEnd
<1>21. CASE SuspendAsserts
  BY <1>21 DEF SuspendAsserts, Stop
<1>22. CASE Connect
  BY <1>22 DEF Connect, SetState
<1>23. CASE Disconnect
  BY <1>23 DEF Disconnect, SetState
<1>24. CASE Release
  BY <1>24 DEF Release
<1>25. CASE Create
  BY <1>25, FrontendAssumption DEF Create, Register, FrontendAssumption
<1>26. CASE PowerOn
  BY <1>26 DEF PowerOn, Register
<1>27. CASE PowerOff
  BY <1>27 DEF PowerOff
<1>28. CASE Destroy
  BY <1>28 DEF Destroy, CanDestroy
<1>29. CASE DestroyAsserts
  BY <1>29 DEF DestroyAsserts, CanDestroy, Stop
<1>30. CASE SuspendBegin
  BY <1>30 DEF SuspendBegin, SetState
<1>31. CASE Reader \/ Backend \/ Toolstack \/ Halted \/ UNCHANGED vars
  BY <1>31, OthersStep
<1> QED
  BY <1>1, <1>2, <1>3, <1>4, <1>5, <1>6, <1>7, <1>8, <1>9, <1>10, <1>11, <1>12,
     <1>13, <1>14, <1>15, <1>16, <1>17, <1>18, <1>19, <1>20, <1>21, <1>22, <1>23,
     <1>24, <1>25, <1>26, <1>27, <1>28, <1>29, <1>30, <1>31
     DEF Next, Locked, Close, Open, Unlocked

\* Every step keeps the ring, its grants and its port within their bounds.
LEMMA NextRingTypes ==
  ASSUME TypeOK, [Next]_vars
  PROVE  RingTypes'
<1> USE DEF TypeOK, RingTypes, Step, Decide, ring
<1>1. CASE StartClose
  BY <1>1 DEF StartClose
<1>2. CASE CloseBegin
  BY <1>2 DEF CloseBegin, UpdateBackendPath
<1>3. CASE AskClosing
  BY <1>3 DEF AskClosing
<1>4. CASE AskClosed
  BY <1>4 DEF AskClosed
<1>5. CASE CloseEnd
  BY <1>5 DEF CloseEnd, FreeRing
<1>6. CASE PrepareBegin
  BY <1>6 DEF PrepareBegin, Undo, UpdateBackendPath
<1>7. CASE PrepareEnd
  BY <1>7 DEF PrepareEnd, Undo, RingOrders
<1>8. CASE AllocRing
  BY <1>8, RingPagesKnown DEF AllocRing, Undo
<1>9. CASE AllocRingAsserts
  BY <1>9 DEF AllocRingAsserts, Stop
<1>10. CASE Publish
  BY <1>10 DEF Publish, FreeRing, Undo
<1>11. CASE ConnectEnd
  BY <1>11 DEF ConnectEnd, FreeRing, Undo
<1>12. CASE Enable
  BY <1>12 DEF Enable
<1>13. CASE Disable
  BY <1>13 DEF Disable
<1>14. CASE Refuse
  BY <1>14 DEF Refuse
<1>15. CASE WaitState
  BY <1>15 DEF WaitState, AfterWait
<1>16. CASE WaitFails
  BY <1>16 DEF WaitFails, AfterFailure
<1>17. CASE WaitStateAsserts
  BY <1>17 DEF WaitStateAsserts, Stop
<1>18. CASE Return
  BY <1>18 DEF Return
<1>19. CASE SuspendClosed
  BY <1>19 DEF SuspendClosed, SetState
<1>20. CASE SuspendEnd
  BY <1>20 DEF SuspendEnd
<1>21. CASE SuspendAsserts
  BY <1>21 DEF SuspendAsserts, Stop
<1>22. CASE Connect
  BY <1>22 DEF Connect, SetState
<1>23. CASE Disconnect
  BY <1>23 DEF Disconnect, SetState
<1>24. CASE Release
  BY <1>24 DEF Release
<1>25. CASE Create
  BY <1>25 DEF Create, Register
<1>26. CASE PowerOn
  BY <1>26 DEF PowerOn, Register
<1>27. CASE PowerOff
  BY <1>27 DEF PowerOff
<1>28. CASE Destroy
  BY <1>28, FrontendAssumption DEF Destroy, CanDestroy, FrontendAssumption
<1>29. CASE DestroyAsserts
  BY <1>29 DEF DestroyAsserts, CanDestroy, Stop
<1>30. CASE SuspendBegin
  BY <1>30 DEF SuspendBegin, SetState
<1>31. CASE Reader \/ Backend \/ Toolstack \/ Halted \/ UNCHANGED vars
  BY <1>31, OthersStep
<1> QED
  BY <1>1, <1>2, <1>3, <1>4, <1>5, <1>6, <1>7, <1>8, <1>9, <1>10, <1>11, <1>12,
     <1>13, <1>14, <1>15, <1>16, <1>17, <1>18, <1>19, <1>20, <1>21, <1>22, <1>23,
     <1>24, <1>25, <1>26, <1>27, <1>28, <1>29, <1>30, <1>31
     DEF Next, Locked, Close, Open, Unlocked

\* Every step keeps what is in XenStore well typed.
LEMMA NextStoreTypes ==
  ASSUME TypeOK, [Next]_vars
  PROVE  StoreTypes'
<1> USE DEF TypeOK, RingTypes, StoreTypes, Step, Decide, store, XenbusState, Sizes
<1>1. CASE StartClose
  BY <1>1 DEF StartClose
<1>2. CASE CloseBegin
  BY <1>2 DEF CloseBegin, UpdateBackendPath
<1>3. CASE AskClosing
  BY <1>3 DEF AskClosing
<1>4. CASE AskClosed
  BY <1>4 DEF AskClosed
<1>5. CASE CloseEnd
  BY <1>5 DEF CloseEnd, FreeRing
<1>6. CASE PrepareBegin
  BY <1>6 DEF PrepareBegin, Undo, UpdateBackendPath
<1>7. CASE PrepareEnd
  BY <1>7 DEF PrepareEnd, Undo, RingOrders
<1>8. CASE AllocRing
  BY <1>8 DEF AllocRing, Undo
<1>9. CASE AllocRingAsserts
  BY <1>9 DEF AllocRingAsserts, Stop
<1>10. CASE Publish
  BY <1>10 DEF Publish, FreeRing, Undo
<1>11. CASE ConnectEnd
  BY <1>11 DEF ConnectEnd, FreeRing, Undo
<1>12. CASE Enable
  BY <1>12 DEF Enable
<1>13. CASE Disable
  BY <1>13 DEF Disable
<1>14. CASE Refuse
  BY <1>14 DEF Refuse
<1>15. CASE WaitState
  BY <1>15 DEF WaitState, AfterWait
<1>16. CASE WaitFails
  BY <1>16 DEF WaitFails, AfterFailure
<1>17. CASE WaitStateAsserts
  BY <1>17 DEF WaitStateAsserts, Stop
<1>18. CASE Return
  BY <1>18 DEF Return
<1>19. CASE SuspendClosed
  BY <1>19 DEF SuspendClosed, SetState
<1>20. CASE SuspendEnd
  BY <1>20 DEF SuspendEnd
<1>21. CASE SuspendAsserts
  BY <1>21 DEF SuspendAsserts, Stop
<1>22. CASE Connect
  BY <1>22 DEF Connect, SetState
<1>23. CASE Disconnect
  BY <1>23 DEF Disconnect, SetState
<1>24. CASE Release
  BY <1>24 DEF Release
<1>25. CASE Create
  BY <1>25 DEF Create, Register
<1>26. CASE PowerOn
  BY <1>26 DEF PowerOn, Register
<1>27. CASE PowerOff
  BY <1>27 DEF PowerOff
<1>28. CASE Destroy
  BY <1>28 DEF Destroy, CanDestroy
<1>29. CASE DestroyAsserts
  BY <1>29 DEF DestroyAsserts, CanDestroy, Stop
<1>30. CASE SuspendBegin
  BY <1>30 DEF SuspendBegin, SetState
<1>31. CASE ReadBegin
  BY <1>31 DEF ReadBegin
<1>32. CASE ReadEnd
  BY <1>32 DEF ReadEnd
<1>33. CASE BackendReady
  BY <1>33 DEF BackendReady, BackendGoes
<1>34. CASE BackendConnect
  BY <1>34 DEF BackendConnect, BackendGoes
<1>35. CASE BackendClosing
  BY <1>35 DEF BackendClosing, BackendGoes
<1>36. CASE BackendClosed
  BY <1>36 DEF BackendClosed, BackendGoes
<1>37. CASE GoOffline
  BY <1>37 DEF GoOffline
<1>38. CASE NewDevice
  BY <1>38 DEF NewDevice
<1>39. CASE Resize
  BY <1>39 DEF Resize
<1>40. CASE Halted
  BY <1>40 DEF Halted, vars
<1>41. CASE UNCHANGED vars
  BY <1>41 DEF vars
<1> QED
  BY <1>1, <1>2, <1>3, <1>4, <1>5, <1>6, <1>7, <1>8, <1>9, <1>10, <1>11, <1>12,
     <1>13, <1>14, <1>15, <1>16, <1>17, <1>18, <1>19, <1>20, <1>21, <1>22, <1>23,
     <1>24, <1>25, <1>26, <1>27, <1>28, <1>29, <1>30, <1>31, <1>32, <1>33, <1>34,
     <1>35, <1>36, <1>37, <1>38, <1>39, <1>40, <1>41
     DEF Next, Locked, Close, Open, Unlocked, Reader, Backend, Toolstack

\* Every step keeps the watches and the reader well typed.
LEMMA NextWatcherTypes ==
  ASSUME TypeOK, [Next]_vars
  PROVE  WatcherTypes'
<1> USE DEF TypeOK, StoreTypes, WatcherTypes, Step, Decide, watcher, Paths, Sizes
<1>1. CASE StartClose
  BY <1>1 DEF StartClose
<1>2. CASE CloseBegin
  BY <1>2 DEF CloseBegin, UpdateBackendPath
<1>3. CASE AskClosing
  BY <1>3 DEF AskClosing
<1>4. CASE AskClosed
  BY <1>4 DEF AskClosed
<1>5. CASE CloseEnd
  BY <1>5 DEF CloseEnd, FreeRing
<1>6. CASE PrepareBegin
  BY <1>6 DEF PrepareBegin, Undo, UpdateBackendPath
<1>7. CASE PrepareEnd
  BY <1>7 DEF PrepareEnd, Undo, RingOrders
<1>8. CASE AllocRing
  BY <1>8 DEF AllocRing, Undo
<1>9. CASE AllocRingAsserts
  BY <1>9 DEF AllocRingAsserts, Stop
<1>10. CASE Publish
  BY <1>10 DEF Publish, FreeRing, Undo
<1>11. CASE ConnectEnd
  BY <1>11 DEF ConnectEnd, FreeRing, Undo
<1>12. CASE Enable
  BY <1>12 DEF Enable
<1>13. CASE Disable
  BY <1>13 DEF Disable
<1>14. CASE Refuse
  BY <1>14 DEF Refuse
<1>15. CASE WaitState
  BY <1>15 DEF WaitState, AfterWait
<1>16. CASE WaitFails
  BY <1>16 DEF WaitFails, AfterFailure
<1>17. CASE WaitStateAsserts
  BY <1>17 DEF WaitStateAsserts, Stop
<1>18. CASE Return
  BY <1>18 DEF Return
<1>19. CASE SuspendClosed
  BY <1>19 DEF SuspendClosed, SetState
<1>20. CASE SuspendEnd
  BY <1>20 DEF SuspendEnd
<1>21. CASE SuspendAsserts
  BY <1>21 DEF SuspendAsserts, Stop
<1>22. CASE Connect
  BY <1>22 DEF Connect, SetState
<1>23. CASE Disconnect
  BY <1>23 DEF Disconnect, SetState
<1>24. CASE Release
  BY <1>24 DEF Release
<1>25. CASE Create
  BY <1>25 DEF Create, Register
<1>26. CASE PowerOn
  BY <1>26 DEF PowerOn, Register
<1>27. CASE PowerOff
  BY <1>27 DEF PowerOff
<1>28. CASE Destroy
  BY <1>28 DEF Destroy, CanDestroy
<1>29. CASE DestroyAsserts
  BY <1>29 DEF DestroyAsserts, CanDestroy, Stop
<1>30. CASE SuspendBegin
  BY <1>30 DEF SuspendBegin, SetState
<1>31. CASE ReadBegin
  BY <1>31 DEF ReadBegin
<1>32. CASE ReadEnd
  BY <1>32 DEF ReadEnd
<1>33. CASE BackendReady
  BY <1>33 DEF BackendReady, BackendGoes
<1>34. CASE BackendConnect
  BY <1>34 DEF BackendConnect, BackendGoes
<1>35. CASE BackendClosing
  BY <1>35 DEF BackendClosing, BackendGoes
<1>36. CASE BackendClosed
  BY <1>36 DEF BackendClosed, BackendGoes
<1>37. CASE GoOffline
  BY <1>37 DEF GoOffline
<1>38. CASE NewDevice
  BY <1>38 DEF NewDevice
<1>39. CASE Resize
  BY <1>39 DEF Resize
<1>40. CASE Halted
  BY <1>40 DEF Halted, vars
<1>41. CASE UNCHANGED vars
  BY <1>41 DEF vars
<1> QED
  BY <1>1, <1>2, <1>3, <1>4, <1>5, <1>6, <1>7, <1>8, <1>9, <1>10, <1>11, <1>12,
     <1>13, <1>14, <1>15, <1>16, <1>17, <1>18, <1>19, <1>20, <1>21, <1>22, <1>23,
     <1>24, <1>25, <1>26, <1>27, <1>28, <1>29, <1>30, <1>31, <1>32, <1>33, <1>34,
     <1>35, <1>36, <1>37, <1>38, <1>39, <1>40, <1>41
     DEF Next, Locked, Close, Open, Unlocked, Reader, Backend, Toolstack

\* Every step keeps the whole state well typed.
LEMMA NextTypes == TypeOK /\ [Next]_vars => TypeOK'
BY NextControlTypes, NextPowerTypes, NextRingTypes, NextStoreTypes, NextWatcherTypes
   DEF TypeOK

-----------------------------------------------------------------------------
(* Control.                                                                *)

\* A target starts at rest, in D3.
LEMMA InitControl == Init => Control
BY DEF Init, Control, PcsMatch, CallerMatch, PowerMatch, MaskMatch, Rests, RestStates, NoResume,
       PassivePcs, ClosePcs, PreparePcs, ConnectPcs

\* Every step leaves the call at a point its state allows.
LEMMA NextPcsMatch ==
  ASSUME TypeOK, Control, [Next]_vars
  PROVE  PcsMatch'
<1> USE DEF TypeOK, ControlTypes, Control, PcsMatch, CallerMatch, PowerMatch, Step,
            Decide, control, RestStates, PassivePcs, AwaitPcs, ClosePcs, PreparePcs,
            ConnectPcs
<1>1. CASE StartClose
  BY <1>1, Routes DEF StartClose
<1>2. CASE CloseBegin
  BY <1>2 DEF CloseBegin, UpdateBackendPath
<1>3. CASE AskClosing
  BY <1>3 DEF AskClosing
<1>4. CASE AskClosed
  BY <1>4 DEF AskClosed
<1>5. CASE CloseEnd
  BY <1>5 DEF CloseEnd, FreeRing
<1>6. CASE PrepareBegin
  <2>1. ~failed /\ State = "Closed" /\ target = "Enabled"
    BY <1>6, Routes DEF PrepareBegin
  <2>2. State' = State /\ target' = target
    BY <1>6 DEF PrepareBegin
  <2>3. (pc' = "AwaitInitWait" /\ failed' = failed) \/ pc' = "Close"
    BY <1>6 DEF PrepareBegin, Undo
  <2> QED
    BY <2>1, <2>2, <2>3
<1>7. CASE PrepareEnd
  BY <1>7 DEF PrepareEnd, Undo, RingOrders
<1>8. CASE AllocRing
  BY <1>8, Routes DEF AllocRing, Undo
<1>9. CASE AllocRingAsserts
  BY <1>9, Routes DEF AllocRingAsserts, Stop
<1>10. CASE Publish
  BY <1>10 DEF Publish, FreeRing, Undo
<1>11. CASE ConnectEnd
  BY <1>11 DEF ConnectEnd, FreeRing, Undo
<1>12. CASE Enable
  BY <1>12, Routes DEF Enable
<1>13. CASE Disable
  BY <1>13, Routes DEF Disable
<1>14. CASE Refuse
  BY <1>14, Routes DEF Refuse
<1>15. CASE WaitState
  BY <1>15 DEF WaitState, AfterWait
<1>16. CASE WaitFails
  BY <1>16 DEF WaitFails, AfterFailure
<1>17. CASE WaitStateAsserts
  BY <1>17 DEF WaitStateAsserts, Stop
<1>18. CASE Return
  <2>1. State' = State /\ target' = "Closed" /\ pc' \in {"Idle", "Release"}
    BY <1>18 DEF Return
  <2>2. failed \/ State = target
    BY <1>18, Routes DEF Return
  <2>3. State \in RestStates
    BY <1>18, <2>2 DEF Return, XenvbdState
  <2> QED
    BY <2>1, <2>3
<1>19. CASE SuspendClosed
  BY <1>19, Routes DEF SuspendClosed, SetState
<1>20. CASE SuspendEnd
  BY <1>20, Routes DEF SuspendEnd
<1>21. CASE SuspendAsserts
  BY <1>21, Routes DEF SuspendAsserts, Stop
<1>22. CASE Connect
  BY <1>22 DEF Connect, SetState
<1>23. CASE Disconnect
  BY <1>23 DEF Disconnect, SetState
<1>24. CASE Release
  BY <1>24 DEF Release
<1>25. CASE Create
  BY <1>25 DEF Create, Register
<1>26. CASE PowerOn
  BY <1>26 DEF PowerOn, Register
<1>27. CASE PowerOff
  BY <1>27 DEF PowerOff
<1>28. CASE Destroy
  BY <1>28 DEF Destroy, CanDestroy
<1>29. CASE DestroyAsserts
  BY <1>29 DEF DestroyAsserts, CanDestroy, Stop
<1>30. CASE SuspendBegin
  BY <1>30 DEF SuspendBegin, SetState, Passive
<1>31. CASE Reader \/ Backend \/ Toolstack \/ Halted \/ UNCHANGED vars
  BY <1>31, OthersStep
<1> QED
  BY <1>1, <1>2, <1>3, <1>4, <1>5, <1>6, <1>7, <1>8, <1>9, <1>10, <1>11, <1>12,
     <1>13, <1>14, <1>15, <1>16, <1>17, <1>18, <1>19, <1>20, <1>21, <1>22, <1>23,
     <1>24, <1>25, <1>26, <1>27, <1>28, <1>29, <1>30, <1>31
     DEF Next, Locked, Close, Open, Unlocked

\* Every step keeps the call and its caller together.
LEMMA NextCallerMatch ==
  ASSUME TypeOK, Control, [Next]_vars
  PROVE  CallerMatch'
<1> USE DEF TypeOK, ControlTypes, Control, PcsMatch, CallerMatch, PowerMatch, Step,
            Decide, control, power, NoResume, PassivePcs, AwaitPcs, ClosePcs, PreparePcs,
            ConnectPcs
<1>1. CASE StartClose
  BY <1>1, Routes DEF StartClose
<1>2. CASE CloseBegin
  BY <1>2 DEF CloseBegin, UpdateBackendPath
<1>3. CASE AskClosing
  BY <1>3 DEF AskClosing
<1>4. CASE AskClosed
  BY <1>4 DEF AskClosed
<1>5. CASE CloseEnd
  BY <1>5 DEF CloseEnd, FreeRing
<1>6. CASE PrepareBegin
  BY <1>6, Routes DEF PrepareBegin, Undo, UpdateBackendPath
<1>7. CASE PrepareEnd
  BY <1>7 DEF PrepareEnd, Undo, RingOrders
<1>8. CASE AllocRing
  BY <1>8, Routes DEF AllocRing, Undo
<1>9. CASE AllocRingAsserts
  BY <1>9, Routes DEF AllocRingAsserts, Stop
<1>10. CASE Publish
  BY <1>10 DEF Publish, FreeRing, Undo
<1>11. CASE ConnectEnd
  BY <1>11 DEF ConnectEnd, FreeRing, Undo
<1>12. CASE Enable
  BY <1>12, Routes DEF Enable
<1>13. CASE Disable
  BY <1>13, Routes DEF Disable
<1>14. CASE Refuse
  BY <1>14, Routes DEF Refuse
<1>15. CASE WaitState
  BY <1>15 DEF WaitState, AfterWait
<1>16. CASE WaitFails
  BY <1>16 DEF WaitFails, AfterFailure
<1>17. CASE WaitStateAsserts
  BY <1>17 DEF WaitStateAsserts, Stop
<1>18. CASE Return
  BY <1>18, Routes DEF Return
<1>19. CASE SuspendClosed
  BY <1>19, Routes DEF SuspendClosed, SetState
<1>20. CASE SuspendEnd
  BY <1>20, Routes DEF SuspendEnd
<1>21. CASE SuspendAsserts
  BY <1>21, Routes DEF SuspendAsserts, Stop
<1>22. CASE Connect
  <2>1. powered /\ powered' = powered
    BY <1>22 DEF Connect, Rests
  <2>2. caller = "None" /\ resume' = resume /\ resume = NoResume
    BY <1>22 DEF Connect
  <2>3. CASE masked
    BY <1>22, <2>1, <2>2, <2>3 DEF Connect, SetState
  <2>4. CASE ~masked
    BY <1>22, <2>1, <2>2, <2>4 DEF Connect
  <2> QED
    BY <2>3, <2>4
<1>23. CASE Disconnect
  BY <1>23 DEF Disconnect, SetState
<1>24. CASE Release
  BY <1>24 DEF Release
<1>25. CASE Create
  BY <1>25 DEF Create, Register
<1>26. CASE PowerOn
  BY <1>26 DEF PowerOn, Register
<1>27. CASE PowerOff
  BY <1>27 DEF PowerOff
<1>28. CASE Destroy
  BY <1>28 DEF Destroy, CanDestroy
<1>29. CASE DestroyAsserts
  BY <1>29 DEF DestroyAsserts, CanDestroy, Stop
<1>30. CASE SuspendBegin
  BY <1>30 DEF SuspendBegin, SetState, Passive
<1>31. CASE Reader \/ Backend \/ Toolstack \/ Halted \/ UNCHANGED vars
  BY <1>31, OthersStep
<1> QED
  BY <1>1, <1>2, <1>3, <1>4, <1>5, <1>6, <1>7, <1>8, <1>9, <1>10, <1>11, <1>12,
     <1>13, <1>14, <1>15, <1>16, <1>17, <1>18, <1>19, <1>20, <1>21, <1>22, <1>23,
     <1>24, <1>25, <1>26, <1>27, <1>28, <1>29, <1>30, <1>31
     DEF Next, Locked, Close, Open, Unlocked

\* Every step keeps a target that is not in D0 out of ENABLED.
LEMMA NextPowerMatch ==
  ASSUME TypeOK, Control, [Next]_vars
  PROVE  PowerMatch'
<1> USE DEF TypeOK, ControlTypes, PowerTypes, Control, PcsMatch, CallerMatch, PowerMatch,
            MaskMatch, Rests, Step, Decide, control, power, RestStates, PassivePcs,
            AwaitPcs, ClosePcs, PreparePcs, ConnectPcs
<1>1. CASE StartClose
  BY <1>1, Routes DEF StartClose
<1>2. CASE CloseBegin
  BY <1>2 DEF CloseBegin, UpdateBackendPath
<1>3. CASE AskClosing
  BY <1>3 DEF AskClosing
<1>4. CASE AskClosed
  BY <1>4 DEF AskClosed
<1>5. CASE CloseEnd
  BY <1>5 DEF CloseEnd, FreeRing
<1>6. CASE PrepareBegin
  BY <1>6, Routes DEF PrepareBegin, Undo, UpdateBackendPath
<1>7. CASE PrepareEnd
  BY <1>7 DEF PrepareEnd, Undo, RingOrders
<1>8. CASE AllocRing
  BY <1>8, Routes DEF AllocRing, Undo
<1>9. CASE AllocRingAsserts
  BY <1>9, Routes DEF AllocRingAsserts, Stop
<1>10. CASE Publish
  BY <1>10 DEF Publish, FreeRing, Undo
<1>11. CASE ConnectEnd
  BY <1>11 DEF ConnectEnd, FreeRing, Undo
<1>12. CASE Enable
  BY <1>12, Routes DEF Enable
<1>13. CASE Disable
  BY <1>13, Routes DEF Disable
<1>14. CASE Refuse
  BY <1>14, Routes DEF Refuse
<1>15. CASE WaitState
  BY <1>15 DEF WaitState, AfterWait
<1>16. CASE WaitFails
  BY <1>16 DEF WaitFails, AfterFailure
<1>17. CASE WaitStateAsserts
  BY <1>17 DEF WaitStateAsserts, Stop
<1>18. CASE Return
  BY <1>18, Routes DEF Return
<1>19. CASE SuspendClosed
  BY <1>19, Routes DEF SuspendClosed, SetState
<1>20. CASE SuspendEnd
  <2>1. State = target /\ target = resume.State
    BY <1>20, Routes DEF SuspendEnd
  <2>2. State' = State /\ pc' = resume.pc /\ caller' = "None" /\ powered' = powered
    BY <1>20 DEF SuspendEnd
  <2>3. Rests(resume.pc, resume.State) /\ life' = "Live" /\ (resume.pc = "Idle" => powered)
    BY <1>20 DEF SuspendEnd
  <2> QED
    BY <2>1, <2>2, <2>3
<1>21. CASE SuspendAsserts
  BY <1>21, Routes DEF SuspendAsserts, Stop
<1>22. CASE Connect
  BY <1>22 DEF Connect, SetState
<1>23. CASE Disconnect
  BY <1>23 DEF Disconnect, SetState
<1>24. CASE Release
  BY <1>24 DEF Release
<1>25. CASE Create
  BY <1>25 DEF Create, Register
<1>26. CASE PowerOn
  BY <1>26 DEF PowerOn, Register
<1>27. CASE PowerOff
  BY <1>27 DEF PowerOff
<1>28. CASE Destroy
  BY <1>28 DEF Destroy, CanDestroy
<1>29. CASE DestroyAsserts
  BY <1>29 DEF DestroyAsserts, CanDestroy, Stop
<1>30. CASE SuspendBegin
  BY <1>30 DEF SuspendBegin, SetState, Passive
<1>31. CASE Reader \/ Backend \/ Toolstack \/ Halted \/ UNCHANGED vars
  BY <1>31, OthersStep
<1> QED
  BY <1>1, <1>2, <1>3, <1>4, <1>5, <1>6, <1>7, <1>8, <1>9, <1>10, <1>11, <1>12,
     <1>13, <1>14, <1>15, <1>16, <1>17, <1>18, <1>19, <1>20, <1>21, <1>22, <1>23,
     <1>24, <1>25, <1>26, <1>27, <1>28, <1>29, <1>30, <1>31
     DEF Next, Locked, Close, Open, Unlocked

\* Every step keeps an emulated target out of ENABLED.
LEMMA NextMaskMatch ==
  ASSUME TypeOK, Control, [Next]_vars
  PROVE  MaskMatch'
<1> USE DEF TypeOK, ControlTypes, PowerTypes, Control, PcsMatch, CallerMatch, PowerMatch,
            MaskMatch, Rests, Step, Decide, control, power, RestStates, NoResume,
            PassivePcs, AwaitPcs, ClosePcs, PreparePcs, ConnectPcs
<1>1. CASE StartClose
  BY <1>1, Routes DEF StartClose
<1>2. CASE CloseBegin
  BY <1>2 DEF CloseBegin, UpdateBackendPath
<1>3. CASE AskClosing
  BY <1>3 DEF AskClosing
<1>4. CASE AskClosed
  BY <1>4 DEF AskClosed
<1>5. CASE CloseEnd
  BY <1>5 DEF CloseEnd, FreeRing
<1>6. CASE PrepareBegin
  BY <1>6, Routes DEF PrepareBegin, Undo, UpdateBackendPath
<1>7. CASE PrepareEnd
  BY <1>7 DEF PrepareEnd, Undo, RingOrders
<1>8. CASE AllocRing
  BY <1>8, Routes DEF AllocRing, Undo
<1>9. CASE AllocRingAsserts
  BY <1>9, Routes DEF AllocRingAsserts, Stop
<1>10. CASE Publish
  BY <1>10 DEF Publish, FreeRing, Undo
<1>11. CASE ConnectEnd
  BY <1>11 DEF ConnectEnd, FreeRing, Undo
<1>12. CASE Enable
  BY <1>12, Routes DEF Enable
<1>13. CASE Disable
  BY <1>13, Routes DEF Disable
<1>14. CASE Refuse
  BY <1>14, Routes DEF Refuse
<1>15. CASE WaitState
  BY <1>15 DEF WaitState, AfterWait
<1>16. CASE WaitFails
  BY <1>16 DEF WaitFails, AfterFailure
<1>17. CASE WaitStateAsserts
  BY <1>17 DEF WaitStateAsserts, Stop
<1>18. CASE Return
  BY <1>18, Routes DEF Return
<1>19. CASE SuspendClosed
  BY <1>19, Routes DEF SuspendClosed, SetState
<1>20. CASE SuspendEnd
  BY <1>20, Routes DEF SuspendEnd
<1>21. CASE SuspendAsserts
  BY <1>21, Routes DEF SuspendAsserts, Stop
<1>22. CASE Connect
  BY <1>22 DEF Connect, SetState
<1>23. CASE Disconnect
  BY <1>23 DEF Disconnect, SetState
<1>24. CASE Release
  BY <1>24 DEF Release
<1>25. CASE Create
  BY <1>25 DEF Create, Register
<1>26. CASE PowerOn
  BY <1>26 DEF PowerOn, Register
<1>27. CASE PowerOff
  BY <1>27 DEF PowerOff
<1>28. CASE Destroy
  BY <1>28 DEF Destroy, CanDestroy
<1>29. CASE DestroyAsserts
  BY <1>29 DEF DestroyAsserts, CanDestroy, Stop
<1>30. CASE SuspendBegin
  BY <1>30 DEF SuspendBegin, SetState, Passive
<1>31. CASE Reader \/ Backend \/ Toolstack \/ Halted \/ UNCHANGED vars
  BY <1>31, OthersStep
<1> QED
  BY <1>1, <1>2, <1>3, <1>4, <1>5, <1>6, <1>7, <1>8, <1>9, <1>10, <1>11, <1>12,
     <1>13, <1>14, <1>15, <1>16, <1>17, <1>18, <1>19, <1>20, <1>21, <1>22, <1>23,
     <1>24, <1>25, <1>26, <1>27, <1>28, <1>29, <1>30, <1>31
     DEF Next, Locked, Close, Open, Unlocked

\* Every step keeps the control in order.
LEMMA NextControl == TypeOK /\ Control /\ [Next]_vars => Control'
BY NextPcsMatch, NextCallerMatch, NextPowerMatch, NextMaskMatch DEF Control

-----------------------------------------------------------------------------
(* The ring and the watches.                                               *)

\* Every step keeps the watches with the state.
LEMMA NextWatchMatch ==
  ASSUME TypeOK, Control, WatchMatch, [Next]_vars
  PROVE  WatchMatch'
<1> USE DEF WatchMatch, TypeOK, ControlTypes, Control, PcsMatch, CallerMatch, MaskMatch,
            Step, Decide, Passive, control, RestStates, PassivePcs, AwaitPcs, ClosePcs,
            PreparePcs, ConnectPcs
<1>1. CASE StartClose
  BY <1>1, Routes DEF StartClose
<1>2. CASE CloseBegin
  BY <1>2 DEF CloseBegin, UpdateBackendPath
<1>3. CASE AskClosing
  BY <1>3 DEF AskClosing
<1>4. CASE AskClosed
  BY <1>4 DEF AskClosed
<1>5. CASE CloseEnd
  BY <1>5 DEF CloseEnd, FreeRing
<1>6. CASE PrepareBegin
  BY <1>6, Routes DEF PrepareBegin, Undo, UpdateBackendPath
<1>7. CASE PrepareEnd
  <2>1. connected' = connected /\ State = "Closed"
    BY <1>7 DEF PrepareEnd
  <2>2. CASE seen = "InitWait"
    BY <1>7, <2>1, <2>2 DEF PrepareEnd
  <2>3. CASE seen # "InitWait"
    <3>1. pc' = "Close" /\ State' = "Closed"
      BY <1>7, <2>1, <2>3 DEF PrepareEnd, Undo
    <3> QED
      BY <1>7, <2>1, <3>1
  <2> QED
    BY <2>2, <2>3
<1>8. CASE AllocRing
  BY <1>8, Routes DEF AllocRing, Undo
<1>9. CASE AllocRingAsserts
  BY <1>9, Routes DEF AllocRingAsserts, Stop
<1>10. CASE Publish
  BY <1>10 DEF Publish, FreeRing, Undo
<1>11. CASE ConnectEnd
  BY <1>11 DEF ConnectEnd, FreeRing, Undo
<1>12. CASE Enable
  BY <1>12, Routes DEF Enable
<1>13. CASE Disable
  BY <1>13, Routes DEF Disable
<1>14. CASE Refuse
  BY <1>14, Routes DEF Refuse
<1>15. CASE WaitState
  BY <1>15 DEF WaitState, AfterWait
<1>16. CASE WaitFails
  BY <1>16 DEF WaitFails, AfterFailure
<1>17. CASE WaitStateAsserts
  BY <1>17 DEF WaitStateAsserts, Stop
<1>18. CASE Return
  BY <1>18, Routes DEF Return
<1>19. CASE SuspendClosed
  BY <1>19, Routes DEF SuspendClosed, SetState
<1>20. CASE SuspendEnd
  BY <1>20, Routes DEF SuspendEnd
<1>21. CASE SuspendAsserts
  BY <1>21, Routes DEF SuspendAsserts, Stop
<1>22. CASE Connect
  BY <1>22 DEF Connect, SetState
<1>23. CASE Disconnect
  BY <1>23 DEF Disconnect, SetState
<1>24. CASE Release
  BY <1>24 DEF Release
<1>25. CASE Create
  BY <1>25 DEF Create, Register
<1>26. CASE PowerOn
  BY <1>26 DEF PowerOn, Register
<1>27. CASE PowerOff
  BY <1>27 DEF PowerOff
<1>28. CASE Destroy
  <2>1. State # "Enabled" /\ State' = "Initialized"
    BY <1>28 DEF Destroy, CanDestroy, PowerMatch, Rests
  <2>2. ~watches' /\ connected' = connected /\ pc' = "Idle"
    BY <1>28 DEF Destroy, CanDestroy, Released
  <2> QED
    BY <2>1, <2>2
<1>29. CASE DestroyAsserts
  BY <1>29 DEF DestroyAsserts, CanDestroy, Stop
<1>30. CASE SuspendBegin
  BY <1>30 DEF SuspendBegin, SetState
<1>31. CASE Reader \/ Backend \/ Toolstack \/ Halted \/ UNCHANGED vars
  BY <1>31, OthersStep
<1> QED
  BY <1>1, <1>2, <1>3, <1>4, <1>5, <1>6, <1>7, <1>8, <1>9, <1>10, <1>11, <1>12,
     <1>13, <1>14, <1>15, <1>16, <1>17, <1>18, <1>19, <1>20, <1>21, <1>22, <1>23,
     <1>24, <1>25, <1>26, <1>27, <1>28, <1>29, <1>30, <1>31
     DEF Next, Locked, Close, Open, Unlocked

\* A step that leaves the ring alone, and neither gains nor loses the right to one.
LEMMA RingKept ==
  ASSUME RingMatch, UNCHANGED <<ring, ringOrder>>,
         State' \in {"Connected", "Enabled"} <=> State \in {"Connected", "Enabled"},
         pc' \in ConnectPcs <=> pc \in ConnectPcs
  PROVE  RingMatch'
BY DEF RingMatch, NoRing, FullRing, RingPages, Pages, ring

\* __FreeRing leaves nothing, whatever there was.
LEMMA RingFreed ==
  ASSUME FreeRing,
         State' \notin {"Connected", "Enabled"}, pc' \notin ConnectPcs
  PROVE  RingMatch'
BY DEF FreeRing, RingMatch, NoRing

\* Every step keeps the ring, the grants and the port with the place of the call.
LEMMA NextRingMatch ==
  ASSUME TypeOK, Control, RingMatch, Handshake, [Next]_vars
  PROVE  RingMatch'
<1> USE DEF TypeOK, ControlTypes, Control, PcsMatch, CallerMatch, MaskMatch, Step, Decide,
            Passive, control, RestStates, PassivePcs, AwaitPcs, ClosePcs, PreparePcs,
            ConnectPcs
<1>1. CASE StartClose
  BY <1>1, Routes, RingKept DEF StartClose
<1>2. CASE CloseBegin
  BY <1>2, RingKept DEF CloseBegin, UpdateBackendPath
<1>3. CASE AskClosing
  BY <1>3, RingKept DEF AskClosing
<1>4. CASE AskClosed
  BY <1>4, RingKept DEF AskClosed
<1>5. CASE CloseEnd
  <2>1. State' \in {"Closed", "Initialized", "Invalid"} /\ pc' = "Loop" /\ ringOrder' = ringOrder
    BY <1>5 DEF CloseEnd
  <2>2. CASE State = "Connected"
    BY <1>5, <2>1, <2>2, RingFreed DEF CloseEnd
  <2>3. CASE State # "Connected"
    BY <1>5, <2>1, <2>3, RingKept DEF CloseEnd
  <2> QED
    BY <2>2, <2>3
<1>6. CASE PrepareBegin
  BY <1>6, Routes, RingKept DEF PrepareBegin, Undo, UpdateBackendPath
<1>7. CASE PrepareEnd
  <2>1. NoRing /\ (leaked # {} => 0 \in leaked)
    BY <1>7 DEF PrepareEnd, RingMatch
  <2>2. State' \in {"Closed", "Prepared"} /\ pc' \in {"Loop", "Close"}
    BY <1>7 DEF PrepareEnd, Undo
  <2>3. ring' = ring
    BY <1>7 DEF PrepareEnd
  <2> QED
    BY <2>1, <2>2, <2>3 DEF RingMatch, NoRing, ring
<1>8. CASE AllocRing
  <2>1. State = "Prepared" /\ NoRing /\ (leaked # {} => 0 \in leaked) /\ leaked = {}
    BY <1>8, Routes, RingPagesKnown DEF AllocRing, RingMatch, NoRing
  <2>2. State' = State /\ pc' \in {"Publish", "Close"} /\ RingPages' = RingPages
    BY <1>8 DEF AllocRing, Undo, RingPages
  <2>3. CASE ring' = ring
    BY <2>1, <2>2, <2>3 DEF RingMatch, NoRing, ring
  <2>4. CASE /\ sharedRing' /\ refs' = refs \cup RingPages /\ port' /\ leaked' = leaked
             /\ pc' = "Publish"
    BY <2>1, <2>2, <2>4 DEF RingMatch, NoRing, FullRing
  <2>5. ASSUME NEW n \in RingPages, pc' = "Close", UNCHANGED <<sharedRing, port>>,
               refs' = refs \cup {i \in RingPages : i < n},
               leaked' = leaked \cup {i \in RingPages : i < n}
        PROVE  RingMatch'
    <3>1. refs' = leaked' /\ ~sharedRing' /\ ~port'
      BY <2>1, <2>5 DEF NoRing
    <3>2. leaked' # {} => 0 \in leaked'
      BY <2>1, <2>5, RingPagesKnown, PowersAssumption DEF RingPages
    <3> QED
      BY <2>1, <2>2, <2>5, <3>1, <3>2 DEF RingMatch, NoRing
  <2> QED
    BY <1>8, <2>3, <2>4, <2>5 DEF AllocRing, Undo
<1>9. CASE AllocRingAsserts
  BY <1>9, Routes, RingKept DEF AllocRingAsserts, Stop
<1>10. CASE Publish
  <2>1. State' = "Prepared" /\ ringOrder' = ringOrder
    BY <1>10 DEF Publish
  <2>2. CASE ring' = ring /\ pc' = "AwaitConnected"
    BY <1>10, <2>1, <2>2, RingKept DEF Publish
  <2>3. CASE FreeRing /\ pc' = "Close"
    BY <2>1, <2>3, RingFreed
  <2> QED
    BY <1>10, <2>2, <2>3 DEF Publish, Undo
<1>11. CASE ConnectEnd
  <2>1. CASE seen = "Connected" /\ State' = "Connected" /\ ring' = ring
    <3>1. FullRing
      BY <1>11, <2>1 DEF ConnectEnd, RingMatch, Handshake, NoRing
    <3>2. pc' = "Loop" /\ RingPages' = RingPages
      BY <1>11, <2>1 DEF ConnectEnd, RingPages, Pages
    <3> QED
      BY <2>1, <3>1, <3>2 DEF RingMatch, FullRing, ring
  <2>2. CASE FreeRing /\ pc' = "Close" /\ State' = State
    BY <1>11, <2>2, RingFreed DEF ConnectEnd
  <2> QED
    BY <1>11, <2>1, <2>2 DEF ConnectEnd, Undo
<1>12. CASE Enable
  BY <1>12, Routes, RingKept DEF Enable
<1>13. CASE Disable
  BY <1>13, Routes, RingKept DEF Disable
<1>14. CASE Refuse
  BY <1>14, Routes, RingKept DEF Refuse
<1>15. CASE WaitState
  BY <1>15, RingKept DEF WaitState, AfterWait
<1>16. CASE WaitFails
  BY <1>16, RingKept DEF WaitFails, AfterFailure
<1>17. CASE WaitStateAsserts
  BY <1>17, RingKept DEF WaitStateAsserts, Stop
<1>18. CASE Return
  BY <1>18, Routes, RingKept DEF Return
<1>19. CASE SuspendClosed
  BY <1>19, Routes, RingKept DEF SuspendClosed, SetState
<1>20. CASE SuspendEnd
  BY <1>20, Routes, RingKept DEF SuspendEnd
<1>21. CASE SuspendAsserts
  BY <1>21, Routes, RingKept DEF SuspendAsserts, Stop
<1>22. CASE Connect
  BY <1>22, RingKept DEF Connect, SetState
<1>23. CASE Disconnect
  BY <1>23, RingKept DEF Disconnect, SetState
<1>24. CASE Release
  BY <1>24, RingKept DEF Release
<1>25. CASE Create
  BY <1>25, RingKept DEF Create, Register
<1>26. CASE PowerOn
  BY <1>26, RingKept DEF PowerOn, Register
<1>27. CASE PowerOff
  BY <1>27, RingKept DEF PowerOff
<1>28. CASE Destroy
  <2>1. ~sharedRing' /\ ~port' /\ refs' = {} /\ leaked' = {}
    BY <1>28 DEF Destroy, Released
  <2>2. State' = "Initialized" /\ pc' = "Idle"
    BY <1>28 DEF Destroy, CanDestroy
  <2> QED
    BY <2>1, <2>2 DEF RingMatch, NoRing
<1>29. CASE DestroyAsserts
  BY <1>29, RingKept DEF DestroyAsserts, CanDestroy, Stop
<1>30. CASE SuspendBegin
  BY <1>30, RingKept DEF SuspendBegin, SetState
<1>31. CASE Reader \/ Backend \/ Toolstack \/ Halted \/ UNCHANGED vars
  BY <1>31, OthersStep, RingKept
<1> QED
  BY <1>1, <1>2, <1>3, <1>4, <1>5, <1>6, <1>7, <1>8, <1>9, <1>10, <1>11, <1>12,
     <1>13, <1>14, <1>15, <1>16, <1>17, <1>18, <1>19, <1>20, <1>21, <1>22, <1>23,
     <1>24, <1>25, <1>26, <1>27, <1>28, <1>29, <1>30, <1>31
     DEF Next, Locked, Close, Open, Unlocked

\* Every step keeps the backend from connecting to a ring that is not there.
LEMMA NextHandshake ==
  ASSUME TypeOK, Control, RingMatch, Handshake, [Next]_vars
  PROVE  Handshake'
<1> USE DEF StoreTypes, RingMatch, NoRing, FullRing, Handshake, Apart, store, ring,
            TypeOK, ControlTypes, Control, PcsMatch, CallerMatch, MaskMatch, Step, Decide,
            Passive, control, RestStates, PassivePcs, AwaitPcs, ClosePcs, PreparePcs,
            ConnectPcs
<1>1. CASE StartClose
  BY <1>1, Routes DEF StartClose
<1>2. CASE CloseBegin
  BY <1>2 DEF CloseBegin, UpdateBackendPath
<1>3. CASE AskClosing
  BY <1>3 DEF AskClosing
<1>4. CASE AskClosed
  BY <1>4 DEF AskClosed
<1>5. CASE CloseEnd
  BY <1>5 DEF CloseEnd, FreeRing
<1>6. CASE PrepareBegin
  BY <1>6, Routes DEF PrepareBegin, Undo, UpdateBackendPath
<1>7. CASE PrepareEnd
  BY <1>7 DEF PrepareEnd, Undo, RingOrders
<1>8. CASE AllocRing
  BY <1>8, Routes DEF AllocRing, Undo
<1>9. CASE AllocRingAsserts
  BY <1>9, Routes DEF AllocRingAsserts, Stop
<1>10. CASE Publish
  BY <1>10 DEF Publish, FreeRing, Undo
<1>11. CASE ConnectEnd
  BY <1>11 DEF ConnectEnd, FreeRing, Undo
<1>12. CASE Enable
  BY <1>12, Routes DEF Enable
<1>13. CASE Disable
  BY <1>13, Routes DEF Disable
<1>14. CASE Refuse
  BY <1>14, Routes DEF Refuse
<1>15. CASE WaitState
  BY <1>15 DEF WaitState, AfterWait
<1>16. CASE WaitFails
  BY <1>16 DEF WaitFails, AfterFailure
<1>17. CASE WaitStateAsserts
  BY <1>17 DEF WaitStateAsserts, Stop
<1>18. CASE Return
  BY <1>18, Routes DEF Return
<1>19. CASE SuspendClosed
  BY <1>19, Routes DEF SuspendClosed, SetState
<1>20. CASE SuspendEnd
  BY <1>20, Routes DEF SuspendEnd
<1>21. CASE SuspendAsserts
  BY <1>21, Routes DEF SuspendAsserts, Stop
<1>22. CASE Connect
  BY <1>22 DEF Connect, SetState
<1>23. CASE Disconnect
  BY <1>23 DEF Disconnect, SetState
<1>24. CASE Release
  BY <1>24 DEF Release
<1>25. CASE Create
  BY <1>25 DEF Create, Register
<1>26. CASE PowerOn
  BY <1>26 DEF PowerOn, Register
<1>27. CASE PowerOff
  BY <1>27 DEF PowerOff
<1>28. CASE Destroy
  BY <1>28 DEF Destroy, CanDestroy
<1>29. CASE DestroyAsserts
  BY <1>29 DEF DestroyAsserts, CanDestroy, Stop
<1>30. CASE SuspendBegin
  BY <1>30 DEF SuspendBegin, SetState
<1>31. CASE ReadBegin
  BY <1>31 DEF ReadBegin
<1>32. CASE ReadEnd
  BY <1>32 DEF ReadEnd
<1>33. CASE BackendReady
  BY <1>33 DEF BackendReady, BackendGoes
<1>34. CASE BackendConnect
  BY <1>34 DEF BackendConnect, BackendGoes
<1>35. CASE BackendClosing
  BY <1>35 DEF BackendClosing, BackendGoes
<1>36. CASE BackendClosed
  BY <1>36 DEF BackendClosed, BackendGoes
<1>37. CASE GoOffline
  BY <1>37 DEF GoOffline
<1>38. CASE NewDevice
  BY <1>38 DEF NewDevice
<1>39. CASE Resize
  BY <1>39 DEF Resize
<1>40. CASE Halted
  BY <1>40 DEF Halted, vars
<1>41. CASE UNCHANGED vars
  BY <1>41 DEF vars
<1> QED
  BY <1>1, <1>2, <1>3, <1>4, <1>5, <1>6, <1>7, <1>8, <1>9, <1>10, <1>11, <1>12,
     <1>13, <1>14, <1>15, <1>16, <1>17, <1>18, <1>19, <1>20, <1>21, <1>22, <1>23,
     <1>24, <1>25, <1>26, <1>27, <1>28, <1>29, <1>30, <1>31, <1>32, <1>33, <1>34,
     <1>35, <1>36, <1>37, <1>38, <1>39, <1>40, <1>41
     DEF Next, Locked, Close, Open, Unlocked, Reader, Backend, Toolstack

-----------------------------------------------------------------------------
(* The failed ASSERT, if any; and what a PDO in D0 is.                     *)

\* No step reaches an ASSERT of the transitions.
LEMMA NextAsserts ==
  ASSUME TypeOK, Control, WatchMatch, RingMatch, AssertsHold, [Next]_vars
  PROVE  AssertsHold'
<1> USE DEF TypeOK, ControlTypes, Control, PcsMatch, CallerMatch, MaskMatch, Step, Decide,
            Passive, control, RestStates, PassivePcs, AwaitPcs, ClosePcs, PreparePcs,
            ConnectPcs
<1>1. CASE StartClose
  BY <1>1 DEF StartClose, AssertsHold
<1>2. CASE CloseBegin
  BY <1>2 DEF CloseBegin, UpdateBackendPath, AssertsHold
<1>3. CASE AskClosing
  BY <1>3 DEF AskClosing, AssertsHold
<1>4. CASE AskClosed
  BY <1>4 DEF AskClosed, AssertsHold
<1>5. CASE CloseEnd
  BY <1>5 DEF CloseEnd, FreeRing, AssertsHold
<1>6. CASE PrepareBegin
  BY <1>6 DEF PrepareBegin, Undo, UpdateBackendPath, AssertsHold
<1>7. CASE PrepareEnd
  BY <1>7 DEF PrepareEnd, Undo, RingOrders, AssertsHold
<1>8. CASE AllocRing
  BY <1>8 DEF AllocRing, Undo, AssertsHold
<1>9. CASE AllocRingAsserts
  <2>1. State = "Prepared" /\ NoRing
    BY <1>9, Routes DEF AllocRingAsserts, RingMatch
  <2>2. bugcheck' = "Grant" /\ refs # {} /\ leaked' = leaked
    BY <1>9, <2>1 DEF AllocRingAsserts, NoRing, Stop, ring
  <2> QED
    BY <2>1, <2>2 DEF AssertsHold, NoRing
<1>10. CASE Publish
  BY <1>10 DEF Publish, FreeRing, Undo, AssertsHold
<1>11. CASE ConnectEnd
  BY <1>11 DEF ConnectEnd, FreeRing, Undo, AssertsHold
<1>12. CASE Enable
  BY <1>12 DEF Enable, AssertsHold
<1>13. CASE Disable
  BY <1>13 DEF Disable, AssertsHold
<1>14. CASE Refuse
  BY <1>14 DEF Refuse, AssertsHold
<1>15. CASE WaitState
  BY <1>15 DEF WaitState, AfterWait, AssertsHold
<1>16. CASE WaitFails
  BY <1>16 DEF WaitFails, AfterFailure, AssertsHold
<1>17. CASE WaitStateAsserts
  BY <1>17 DEF WaitStateAsserts, Stop, AssertsHold
<1>18. CASE Return
  BY <1>18 DEF Return, AssertsHold
<1>19. CASE SuspendClosed
  BY <1>19 DEF SuspendClosed, SetState, AssertsHold
<1>20. CASE SuspendEnd
  BY <1>20 DEF SuspendEnd, AssertsHold
<1>21. CASE SuspendAsserts
  BY <1>21 DEF SuspendAsserts, Stop, AssertsHold
<1>22. CASE Connect
  BY <1>22 DEF Connect, SetState, AssertsHold
<1>23. CASE Disconnect
  BY <1>23 DEF Disconnect, SetState, AssertsHold
<1>24. CASE Release
  BY <1>24 DEF Release, AssertsHold
<1>25. CASE Create
  BY <1>25 DEF Create, Register, PowerMatch, AssertsHold
<1>26. CASE PowerOn
  BY <1>26 DEF PowerOn, Register, PowerMatch, AssertsHold
<1>27. CASE PowerOff
  BY <1>27 DEF PowerOff, AssertsHold
<1>28. CASE Destroy
  BY <1>28 DEF Destroy, CanDestroy, AssertsHold
<1>29. CASE DestroyAsserts
  <2>1. State \in RestStates \ {"Enabled"} /\ ~registered /\ backendPath = "NULL"
    BY <1>29 DEF DestroyAsserts, CanDestroy, PowerMatch, Rests
  <2>2. NoRing /\ ~watches
    BY <1>29, <2>1 DEF DestroyAsserts, CanDestroy, RingMatch, WatchMatch
  <2>3. 0 \in refs /\ bugcheck' = "Destroy" /\ leaked' = leaked
    BY <1>29, <2>1, <2>2 DEF DestroyAsserts, Released, NoRing, Stop, ring
  <2> QED
    BY <2>2, <2>3 DEF AssertsHold, NoRing
<1>30. CASE SuspendBegin
  BY <1>30 DEF SuspendBegin, SetState, AssertsHold
<1>31. CASE Reader \/ Backend \/ Toolstack \/ Halted \/ UNCHANGED vars
  BY <1>31, OthersStep DEF AssertsHold, ring
<1> QED
  BY <1>1, <1>2, <1>3, <1>4, <1>5, <1>6, <1>7, <1>8, <1>9, <1>10, <1>11, <1>12,
     <1>13, <1>14, <1>15, <1>16, <1>17, <1>18, <1>19, <1>20, <1>21, <1>22, <1>23,
     <1>24, <1>25, <1>26, <1>27, <1>28, <1>29, <1>30, <1>31
     DEF Next, Locked, Close, Open, Unlocked

\* Every step keeps a target that was powered up enabled.
LEMMA NextPoweredEnabled ==
  ASSUME TypeOK, Control, PoweredEnabled, [Next]_vars
  PROVE  PoweredEnabled'
<1> USE DEF PoweredEnabled, PowerMatch, NoResume, power, TypeOK, ControlTypes, Control,
            PcsMatch, CallerMatch, MaskMatch, Step, Decide, Passive, control, RestStates,
            PassivePcs, AwaitPcs, ClosePcs, PreparePcs, ConnectPcs
<1>1. CASE StartClose
  BY <1>1, Routes DEF StartClose
<1>2. CASE CloseBegin
  BY <1>2 DEF CloseBegin, UpdateBackendPath
<1>3. CASE AskClosing
  BY <1>3 DEF AskClosing
<1>4. CASE AskClosed
  BY <1>4 DEF AskClosed
<1>5. CASE CloseEnd
  BY <1>5 DEF CloseEnd, FreeRing
<1>6. CASE PrepareBegin
  BY <1>6, Routes DEF PrepareBegin, Undo, UpdateBackendPath
<1>7. CASE PrepareEnd
  BY <1>7 DEF PrepareEnd, Undo, RingOrders
<1>8. CASE AllocRing
  BY <1>8, Routes DEF AllocRing, Undo
<1>9. CASE AllocRingAsserts
  BY <1>9, Routes DEF AllocRingAsserts, Stop
<1>10. CASE Publish
  BY <1>10 DEF Publish, FreeRing, Undo
<1>11. CASE ConnectEnd
  BY <1>11 DEF ConnectEnd, FreeRing, Undo
<1>12. CASE Enable
  BY <1>12, Routes DEF Enable
<1>13. CASE Disable
  BY <1>13, Routes DEF Disable
<1>14. CASE Refuse
  BY <1>14, Routes DEF Refuse
<1>15. CASE WaitState
  BY <1>15 DEF WaitState, AfterWait
<1>16. CASE WaitFails
  BY <1>16 DEF WaitFails, AfterFailure
<1>17. CASE WaitStateAsserts
  BY <1>17 DEF WaitStateAsserts, Stop
<1>18. CASE Return
  BY <1>18, Routes DEF Return
<1>19. CASE SuspendClosed
  BY <1>19, Routes DEF SuspendClosed, SetState
<1>20. CASE SuspendEnd
  BY <1>20, Routes DEF SuspendEnd
<1>21. CASE SuspendAsserts
  BY <1>21, Routes DEF SuspendAsserts, Stop
<1>22. CASE Connect
  BY <1>22 DEF Connect, SetState
<1>23. CASE Disconnect
  BY <1>23 DEF Disconnect, SetState
<1>24. CASE Release
  BY <1>24 DEF Release
<1>25. CASE Create
  BY <1>25 DEF Create, Register
<1>26. CASE PowerOn
  BY <1>26 DEF PowerOn, Register
<1>27. CASE PowerOff
  BY <1>27 DEF PowerOff
<1>28. CASE Destroy
  BY <1>28 DEF Destroy, CanDestroy
<1>29. CASE DestroyAsserts
  BY <1>29 DEF DestroyAsserts, CanDestroy, Stop
<1>30. CASE SuspendBegin
  BY <1>30 DEF SuspendBegin, SetState
<1>31. CASE Reader \/ Backend \/ Toolstack \/ Halted \/ UNCHANGED vars
  BY <1>31, OthersStep
<1> QED
  BY <1>1, <1>2, <1>3, <1>4, <1>5, <1>6, <1>7, <1>8, <1>9, <1>10, <1>11, <1>12,
     <1>13, <1>14, <1>15, <1>16, <1>17, <1>18, <1>19, <1>20, <1>21, <1>22, <1>23,
     <1>24, <1>25, <1>26, <1>27, <1>28, <1>29, <1>30, <1>31
     DEF Next, Locked, Close, Open, Unlocked

\* Every step keeps a closed target's pages out of the backend's mappings.
LEMMA NextUnmapped ==
  ASSUME TypeOK, Control, Handshake, Unmapped, [Next]_vars
  PROVE  Unmapped'
<1> USE DEF Unmapped, Handshake, Apart, store, TypeOK, ControlTypes, Control, PcsMatch,
            CallerMatch, MaskMatch, Step, Decide, Passive, control, RestStates,
            PassivePcs, AwaitPcs, ClosePcs, PreparePcs, ConnectPcs
<1>1. CASE StartClose
  BY <1>1, Routes DEF StartClose
<1>2. CASE CloseBegin
  BY <1>2 DEF CloseBegin, UpdateBackendPath
<1>3. CASE AskClosing
  BY <1>3 DEF AskClosing
<1>4. CASE AskClosed
  BY <1>4 DEF AskClosed
<1>5. CASE CloseEnd
  BY <1>5 DEF CloseEnd, FreeRing
<1>6. CASE PrepareBegin
  BY <1>6, Routes DEF PrepareBegin, Undo, UpdateBackendPath
<1>7. CASE PrepareEnd
  BY <1>7 DEF PrepareEnd, Undo, RingOrders
<1>8. CASE AllocRing
  BY <1>8, Routes DEF AllocRing, Undo
<1>9. CASE AllocRingAsserts
  BY <1>9, Routes DEF AllocRingAsserts, Stop
<1>10. CASE Publish
  BY <1>10 DEF Publish, FreeRing, Undo
<1>11. CASE ConnectEnd
  BY <1>11 DEF ConnectEnd, FreeRing, Undo
<1>12. CASE Enable
  BY <1>12, Routes DEF Enable
<1>13. CASE Disable
  BY <1>13, Routes DEF Disable
<1>14. CASE Refuse
  BY <1>14, Routes DEF Refuse
<1>15. CASE WaitState
  BY <1>15 DEF WaitState, AfterWait
<1>16. CASE WaitFails
  BY <1>16 DEF WaitFails, AfterFailure
<1>17. CASE WaitStateAsserts
  BY <1>17 DEF WaitStateAsserts, Stop
<1>18. CASE Return
  BY <1>18, Routes DEF Return
<1>19. CASE SuspendClosed
  BY <1>19, Routes DEF SuspendClosed, SetState
<1>20. CASE SuspendEnd
  BY <1>20, Routes DEF SuspendEnd
<1>21. CASE SuspendAsserts
  BY <1>21, Routes DEF SuspendAsserts, Stop
<1>22. CASE Connect
  BY <1>22 DEF Connect, SetState
<1>23. CASE Disconnect
  BY <1>23 DEF Disconnect, SetState
<1>24. CASE Release
  BY <1>24 DEF Release
<1>25. CASE Create
  BY <1>25 DEF Create, Register
<1>26. CASE PowerOn
  BY <1>26 DEF PowerOn, Register
<1>27. CASE PowerOff
  BY <1>27 DEF PowerOff
<1>28. CASE Destroy
  BY <1>28 DEF Destroy, CanDestroy
<1>29. CASE DestroyAsserts
  BY <1>29 DEF DestroyAsserts, CanDestroy, Stop
<1>30. CASE SuspendBegin
  BY <1>30 DEF SuspendBegin, SetState
<1>31. CASE ReadBegin
  BY <1>31 DEF ReadBegin
<1>32. CASE ReadEnd
  BY <1>32 DEF ReadEnd
<1>33. CASE BackendReady
  BY <1>33 DEF BackendReady, BackendGoes
<1>34. CASE BackendConnect
  BY <1>34 DEF BackendConnect, BackendGoes
<1>35. CASE BackendClosing
  BY <1>35 DEF BackendClosing, BackendGoes
<1>36. CASE BackendClosed
  BY <1>36 DEF BackendClosed, BackendGoes
<1>37. CASE GoOffline
  BY <1>37 DEF GoOffline
<1>38. CASE NewDevice
  BY <1>38 DEF NewDevice
<1>39. CASE Resize
  BY <1>39 DEF Resize
<1>40. CASE Halted
  BY <1>40 DEF Halted, vars
<1>41. CASE UNCHANGED vars
  BY <1>41 DEF vars
<1> QED
  BY <1>1, <1>2, <1>3, <1>4, <1>5, <1>6, <1>7, <1>8, <1>9, <1>10, <1>11, <1>12,
     <1>13, <1>14, <1>15, <1>16, <1>17, <1>18, <1>19, <1>20, <1>21, <1>22, <1>23,
     <1>24, <1>25, <1>26, <1>27, <1>28, <1>29, <1>30, <1>31, <1>32, <1>33, <1>34,
     <1>35, <1>36, <1>37, <1>38, <1>39, <1>40, <1>41
     DEF Next, Locked, Close, Open, Unlocked, Reader, Backend, Toolstack

\* On one CPU every step keeps the path that is being read the current one.
LEMMA NextPathLive ==
  ASSUME TypeOK, PathLive, ~Smp, [Next]_vars
  PROVE  PathLive'
<1> USE DEF TypeOK, ControlTypes, PowerTypes, WatcherTypes, PathLive, ReadsLivePath, Step,
            HasCpu, Decide, control, power, watcher
<1>1. CASE StartClose
  BY <1>1 DEF StartClose
<1>2. CASE CloseBegin
  BY <1>2 DEF CloseBegin, UpdateBackendPath
<1>3. CASE AskClosing
  BY <1>3 DEF AskClosing
<1>4. CASE AskClosed
  BY <1>4 DEF AskClosed
<1>5. CASE CloseEnd
  BY <1>5 DEF CloseEnd, FreeRing
<1>6. CASE PrepareBegin
  BY <1>6 DEF PrepareBegin, Undo, UpdateBackendPath
<1>7. CASE PrepareEnd
  BY <1>7 DEF PrepareEnd, Undo, RingOrders
<1>8. CASE AllocRing
  BY <1>8 DEF AllocRing, Undo
<1>9. CASE AllocRingAsserts
  BY <1>9 DEF AllocRingAsserts, Stop
<1>10. CASE Publish
  BY <1>10 DEF Publish, FreeRing, Undo
<1>11. CASE ConnectEnd
  BY <1>11 DEF ConnectEnd, FreeRing, Undo
<1>12. CASE Enable
  BY <1>12 DEF Enable
<1>13. CASE Disable
  BY <1>13 DEF Disable
<1>14. CASE Refuse
  BY <1>14 DEF Refuse
<1>15. CASE WaitState
  BY <1>15 DEF WaitState, AfterWait
<1>16. CASE WaitFails
  BY <1>16 DEF WaitFails, AfterFailure
<1>17. CASE WaitStateAsserts
  BY <1>17 DEF WaitStateAsserts, Stop
<1>18. CASE Return
  BY <1>18 DEF Return
<1>19. CASE SuspendClosed
  BY <1>19 DEF SuspendClosed, SetState
<1>20. CASE SuspendEnd
  BY <1>20 DEF SuspendEnd
<1>21. CASE SuspendAsserts
  BY <1>21 DEF SuspendAsserts, Stop
<1>22. CASE Connect
  BY <1>22 DEF Connect, SetState
<1>23. CASE Disconnect
  BY <1>23 DEF Disconnect, SetState
<1>24. CASE Release
  BY <1>24 DEF Release
<1>25. CASE Create
  BY <1>25 DEF Create, Register
<1>26. CASE PowerOn
  BY <1>26 DEF PowerOn, Register
<1>27. CASE PowerOff
  BY <1>27 DEF PowerOff
<1>28. CASE Destroy
  BY <1>28 DEF Destroy, CanDestroy
<1>29. CASE DestroyAsserts
  BY <1>29 DEF DestroyAsserts, CanDestroy, Stop
<1>30. CASE SuspendBegin
  BY <1>30 DEF SuspendBegin, SetState
<1>31. CASE ReadBegin
  BY <1>31 DEF ReadBegin
<1>32. CASE ReadEnd
  BY <1>32 DEF ReadEnd
<1>33. CASE BackendReady
  BY <1>33 DEF BackendReady, BackendGoes
<1>34. CASE BackendConnect
  BY <1>34 DEF BackendConnect, BackendGoes
<1>35. CASE BackendClosing
  BY <1>35 DEF BackendClosing, BackendGoes
<1>36. CASE BackendClosed
  BY <1>36 DEF BackendClosed, BackendGoes
<1>37. CASE GoOffline
  BY <1>37 DEF GoOffline
<1>38. CASE NewDevice
  BY <1>38 DEF NewDevice
<1>39. CASE Resize
  BY <1>39 DEF Resize
<1>40. CASE Halted
  BY <1>40 DEF Halted, vars
<1>41. CASE UNCHANGED vars
  BY <1>41 DEF vars
<1> QED
  BY <1>1, <1>2, <1>3, <1>4, <1>5, <1>6, <1>7, <1>8, <1>9, <1>10, <1>11, <1>12,
     <1>13, <1>14, <1>15, <1>16, <1>17, <1>18, <1>19, <1>20, <1>21, <1>22, <1>23,
     <1>24, <1>25, <1>26, <1>27, <1>28, <1>29, <1>30, <1>31, <1>32, <1>33, <1>34,
     <1>35, <1>36, <1>37, <1>38, <1>39, <1>40, <1>41
     DEF Next, Locked, Close, Open, Unlocked, Reader, Backend, Toolstack

-----------------------------------------------------------------------------
(* Theorems.                                                               *)

\* The invariant holds of a new target.
LEMMA InitInv == Init => IInv
<1> SUFFICES ASSUME Init PROVE IInv
  OBVIOUS
<1>1. TypeOK /\ Control
  BY InitTypes, InitControl
<1>2. WatchMatch
  BY DEF Init, WatchMatch, ClosePcs, PreparePcs
<1>3. RingMatch
  BY DEF Init, RingMatch, NoRing, ConnectPcs
<1>4. Handshake
  BY DEF Init, Handshake, Apart, PreparePcs
<1>5. AssertsHold /\ PoweredEnabled /\ Unmapped
  BY DEF Init, AssertsHold, PoweredEnabled, Unmapped
<1> QED
  BY <1>1, <1>2, <1>3, <1>4, <1>5 DEF IInv

\* The invariant is inductive.
LEMMA NextInv == IInv /\ [Next]_vars => IInv'
BY NextTypes, NextControl, NextWatchMatch, NextRingMatch, NextHandshake, NextAsserts,
   NextPoweredEnabled, NextUnmapped DEF IInv

\* The invariant holds of every behaviour.
LEMMA Invariance == Spec => []IInv
BY InitInv, NextInv, PTL DEF Spec

\* Every variable of the frontend keeps its type, for every ring order.
THEOREM FrontendTypes == Spec => []TypeOK
<1>1. IInv => TypeOK
  BY DEF IInv
<1> QED
  BY <1>1, Invariance, PTL

\* No ASSERT about the ring, the event channel or the suspend callback fails, and those
\* about grants and FrontendDestroy only after a grant failed half-way (frontend.c:891).
THEOREM AssertsNeverFail == Spec => []AssertsHold
<1>1. IInv => AssertsHold
  BY DEF IInv
<1> QED
  BY <1>1, Invariance, PTL

\* Outside __FrontendSetState the ring, its grants, the event channel and the watches
\* exist exactly when the frontend is ENABLED, whichever calls failed on the way.
THEOREM ResourcesFollowState == Spec => []ResourcesMatch
<1>1. IInv => ResourcesMatch
  <2> SUFFICES ASSUME IInv, pc \in PassivePcs
               PROVE  IF State = "Enabled"
                      THEN sharedRing /\ port /\ refs = RingPages /\ watches /\ connected
                      ELSE ~sharedRing /\ ~port /\ refs = leaked /\ ~watches /\ ~connected
    BY DEF ResourcesMatch, Passive
  <2>1. State \in RestStates
    BY DEF IInv, Control, PcsMatch
  <2>2. pc \notin ClosePcs \cup PreparePcs \cup ConnectPcs
    BY DEF PassivePcs, ClosePcs, PreparePcs, ConnectPcs
  <2>3. CASE State = "Enabled"
    BY <2>2, <2>3 DEF IInv, WatchMatch, RingMatch, FullRing
  <2>4. CASE State # "Enabled"
    BY <2>1, <2>2, <2>4 DEF IInv, WatchMatch, RingMatch, NoRing, RestStates
  <2> QED
    BY <2>3, <2>4
<1> QED
  BY <1>1, Invariance, PTL

\* When FrontendClose has succeeded, no page of the ring is still mapped by the backend.
THEOREM ClosedIsUnmapped == Spec => []ClosedMeansUnmapped
<1>1. IInv => ClosedMeansUnmapped
  BY DEF IInv, Unmapped, ClosedMeansUnmapped
<1> QED
  BY <1>1, Invariance, PTL

\* Between transitions a target in D0 whose emulated disk is masked is ENABLED, through
\* every failed power-up and every suspend.
THEOREM PoweredIsEnabled == Spec => []PoweredMeansEnabled
<1>1. IInv => PoweredMeansEnabled
  BY DEF IInv, PoweredEnabled, PoweredMeansEnabled
<1> QED
  BY <1>1, Invariance, PTL

\* On one CPU FdoFrontend never uses a backend path that has been freed.
THEOREM PathsInUseAreLive ==
  ASSUME ~Smp
  PROVE  Spec => []ReadsLivePath
<1>1. Init => PathLive
  BY DEF Init, PathLive, ReadsLivePath
<1>2. TypeOK /\ PathLive /\ [Next]_vars => PathLive'
  BY NextPathLive
<1>3. PathLive => ReadsLivePath
  BY DEF PathLive
<1> QED
  BY <1>1, <1>2, <1>3, FrontendTypes, PTL DEF Spec

=============================================================================
