---------------------------- MODULE DriverBinding ---------------------------
(***************************************************************************)
(* The driver binding of Init.c: which controllers the driver manages, the *)
(* interface numbers of their children, the device list through which      *)
(* IntelgbeUndiApiEntry finds an adapter, and the unloading of the driver. *)
(*                                                                         *)
(* The private data of a controller is the controller's record in priv; a  *)
(* list entry whose private data has been freed is Stale.  The UEFI core   *)
(* (external) calls Start only after Supported has succeeded, and stops a  *)
(* controller's child before the controller.                               *)
(***************************************************************************)
EXTENDS Integers, FiniteSets

CONSTANTS
  Controllers,         \* network controllers of the platform
  NULL,                \* an empty list entry
  Stale,               \* a list entry that points to freed private data
  MAX_NIC_INTERFACES,  \* entries of the list; also the range of a UINT8
  Paths,               \* remaining device paths: "child" (NULL, MAC), "end"
  InReverse,           \* are controllers stopped in reverse order only?
  FailAt               \* steps that may fail

StartSteps == {"PrivateData", "OpenPci", "OpenPath", "PciInit", "FirstTimeInit",
               "ControllerProtocols", "Structures", "ChildProtocols"}
StopSteps  == {"CloseChild", "UninstallNii", "Attributes", "CloseProtocols"}

ASSUME BindingAssumption ==
  /\ NULL \notin Controllers /\ Stale \notin Controllers /\ NULL # Stale
  /\ IsFiniteSet(Controllers)
  /\ MAX_NIC_INTERFACES \in Nat /\ MAX_NIC_INTERFACES > Cardinality(Controllers)
  /\ Paths \subseteq {"child", "end"}
  /\ InReverse \in BOOLEAN
  /\ FailAt \subseteq StartSteps \cup StopSteps

Slots == 0 .. MAX_NIC_INTERFACES - 1

VARIABLES
  mActiveControllers,         \* UINT8
  mActiveChildren,            \* UINT16
  IFcnt,                      \* of the !PXE structure, UINT8
  mIntelgbeUndi32DeviceList,
  priv,      \* private data: live, child present, IsChildInitialized, IfNum
  pciOpen,   \* controllers whose PciIo is open BY_DRIVER
  nii,       \* controllers with the NII pointer protocol on their handle
  rings,     \* controllers whose DMA memory is allocated
  dma,       \* controllers whose DMA channels run
  stop,      \* DisconnectController in progress: step and controller
  loaded,    \* is the driver loaded?
  unloading, \* is IntelgbeUndiUnload in progress?
  left,      \* controllers it has not failed to disconnect
  fault,     \* has freed private data been looked at?
  orderly    \* history: so far every controller was started with its child,
             \* starts failed at most while they opened protocols, and stops
             \* succeeded and came in reverse order

list == mIntelgbeUndi32DeviceList
counters == <<mActiveControllers, mActiveChildren, IFcnt>>
image == <<loaded, unloading, left>>
vars == <<counters, list, priv, pciOpen, nii, rings, dma, stop, image, fault, orderly>>

NoPriv == [live |-> FALSE, child |-> FALSE, IsChildInitialized |-> FALSE, IfNum |-> 0]
Still  == [step |-> "none", c |-> NULL]

\* UINT8 and UINT16 arithmetic; the list has as many entries as a UINT8 values.
UINT8(n)  == n % MAX_NIC_INTERFACES
UINT16(n) == n % (MAX_NIC_INTERFACES * MAX_NIC_INTERFACES)

(* InitializeIntelgbeUNDIDriver.                                           *)
Init ==
  /\ mActiveControllers = 0 /\ mActiveChildren = 0 /\ IFcnt = 0
  /\ mIntelgbeUndi32DeviceList = [i \in Slots |-> NULL]
  /\ priv = [c \in Controllers |-> NoPriv]
  /\ pciOpen = {} /\ nii = {} /\ rings = {} /\ dma = {}
  /\ stop = Still
  /\ loaded = TRUE /\ unloading = FALSE /\ left = {}
  /\ fault = FALSE
  /\ orderly = TRUE

-----------------------------------------------------------------------------
(* Lookup.                                                                 *)

\* Mutant: the last entry is left out.
ScannedShort(c) ==
  {i \in Slots : i < mActiveControllers - 1 /\ \A j \in 0 .. i - 1 : list[j] # c}

\* GetControllerPrivateData looks at the first mActiveControllers entries.
Scanned(c) == {i \in Slots : i < mActiveControllers /\ \A j \in 0 .. i - 1 : list[j] # c}

Found(c) == \E i \in Scanned(c) : list[i] = c

\* IntelgbeUndiDriverSupported with AnalyzeRemainingDevicePath: a second
\* open of PciIo BY_DRIVER is refused by the core.
DriverSupported(c) ==
  IF Found(c) THEN ~priv[c].IsChildInitialized ELSE c \notin pciOpen

\* The lookup reads an entry whose private data has been freed.
LookupFreed(c) ==
  /\ loaded /\ ~unloading /\ ~fault
  /\ stop = Still
  /\ \E i \in Scanned(c) : list[i] = Stale
  /\ fault' = TRUE
  /\ UNCHANGED <<counters, list, priv, pciOpen, nii, rings, dma, stop, image, orderly>>

\* Mutant: the number of interfaces is not brought up to date.
PxeUpdateKeeps(children) ==
  /\ mActiveChildren' = children
  /\ UNCHANGED IFcnt

\* GigUndiPxeUpdate.
PxeUpdate(children) ==
  /\ mActiveChildren' = children
  /\ IFcnt' = UINT8(children - 1)

OneChildLess == IF mActiveChildren > 0 THEN mActiveChildren - 1 ELSE 0

\* FreePool of c's private data: entries that point to it are left behind.
Freed(l, c) == [i \in Slots |-> IF l[i] = c THEN Stale ELSE l[i]]

-----------------------------------------------------------------------------
(* IntelgbeUndiDriverStart.                                                *)

MayStart(c) ==
  /\ loaded /\ ~unloading /\ ~fault
  /\ stop = Still
  /\ \A i \in Scanned(c) : list[i] # Stale
  /\ DriverSupported(c)

\* InitUndiPrivateData enters the private data and counts the controller.
Listed(c) == IF Found(c) THEN list ELSE [list EXCEPT ![mActiveControllers] = c]

StartDone(c, path) ==
  /\ MayStart(c)
  /\ path = "end" => ~Found(c)
  /\ ~Found(c) => c \notin nii
  /\ path = "child" => mActiveChildren < MAX_NIC_INTERFACES
  /\ mIntelgbeUndi32DeviceList' = Listed(c)
  /\ mActiveControllers' = IF Found(c) THEN mActiveControllers
                                       ELSE UINT8(mActiveControllers + 1)
  /\ IF path = "child"
     THEN /\ PxeUpdate(mActiveChildren + 1)
          /\ priv' = [priv EXCEPT ![c] = [live |-> TRUE, child |-> TRUE,
                                          IsChildInitialized |-> TRUE, IfNum |-> IFcnt']]
     ELSE /\ UNCHANGED <<mActiveChildren, IFcnt>>
          /\ priv' = [priv EXCEPT ![c] = [NoPriv EXCEPT !.live = TRUE]]
  /\ pciOpen' = pciOpen \cup {c}
  /\ nii' = nii \cup {c}
  /\ rings' = rings \cup {c}
  /\ dma' = IF Found(c) THEN dma ELSE dma \cup {c}
  /\ orderly' = (orderly /\ path = "child")
  /\ UNCHANGED <<stop, image, fault>>

\* Where a Start of c can fail; a protocol left over from an earlier failure
\* cannot be installed again.
FailurePoints(c, path) ==
  LET ofController == IF Found(c) THEN {}
                      ELSE (FailAt \cap {"PrivateData", "OpenPci", "OpenPath", "PciInit",
                                         "FirstTimeInit", "ControllerProtocols"})
                           \cup (IF c \in nii THEN {"ControllerProtocols"} ELSE {})
      ofChild == IF path = "end" THEN {}
                 ELSE IF mActiveChildren < MAX_NIC_INTERFACES
                      THEN FailAt \cap {"ChildProtocols"} ELSE {"Structures"}
  IN ofController \cup IF c \in nii /\ ~Found(c) THEN {} ELSE ofChild

\* One off at UndiError, after one on in InitUndiPrivateData.
CountAfterFailure(c, at) ==
  IF Found(c) \/ at = "PrivateData" THEN UINT8(mActiveControllers - 1) ELSE mActiveControllers

\* The error exits.  UndiErrorDeleteDevicePath takes a child off the count
\* whether or not this call put one on; UndiError takes a controller off,
\* closes DevicePath before PciIo and gives up if that fails, and frees the
\* private data, also when an earlier call had created it.
StartFailed(c, path, at) ==
  /\ MayStart(c)
  /\ path = "end" => ~Found(c)
  /\ at \in FailurePoints(c, path)
  /\ mActiveControllers' = CountAfterFailure(c, at)
  /\ CASE at \in {"PrivateData", "OpenPci", "OpenPath"} -> UNCHANGED <<mActiveChildren, IFcnt>>
       [] at = "ChildProtocols" -> PxeUpdate(mActiveChildren)
       [] OTHER -> PxeUpdate(OneChildLess)
  /\ mIntelgbeUndi32DeviceList' = IF at = "PrivateData" THEN list ELSE Freed(Listed(c), c)
  /\ priv' = [priv EXCEPT ![c] = NoPriv]
  /\ pciOpen' = IF at = "OpenPath" THEN pciOpen \cup {c} ELSE pciOpen \ {c}
  /\ nii' = IF at \in {"Structures", "ChildProtocols"} THEN nii \cup {c} ELSE nii
  /\ rings' = IF at \in {"PrivateData", "OpenPci", "OpenPath", "PciInit"} THEN rings
                                                                        ELSE rings \cup {c}
  /\ dma' = IF at \in {"ControllerProtocols", "Structures", "ChildProtocols"}
            THEN dma \cup {c} ELSE dma
  /\ orderly' = (orderly /\ at \in {"OpenPci", "OpenPath"})
  /\ UNCHANGED <<stop, image, fault>>

Start(c) ==
  \E path \in Paths :
    \/ StartDone(c, path)
    \/ \E at \in StartSteps : StartFailed(c, path, at)

-----------------------------------------------------------------------------
(* IntelgbeUndiDriverStop, called by the core's DisconnectController: once *)
(* for the child, once for the controller.                                 *)

\* The last controller that was entered.
IsLast(c) == list[UINT8(mActiveControllers - 1)] = c

MayStop(c) ==
  /\ loaded /\ ~fault
  /\ c \in pciOpen \cap nii
  /\ priv[c].live
  /\ IF unloading THEN c \in left ELSE InReverse => IsLast(c)

InOrder(c) == orderly /\ (unloading \/ IsLast(c))

\* Mutant: IntelgbeShutdown is not called.
StopChildRunning(c) ==
  /\ stop = Still
  /\ MayStop(c)
  /\ priv[c].child
  /\ orderly' = InOrder(c)
  /\ priv' = [priv EXCEPT ![c].child = FALSE]
  /\ mActiveChildren' = UINT16(mActiveChildren - 1)
  /\ stop' = [step |-> "controller", c |-> c]
  /\ UNCHANGED <<mActiveControllers, IFcnt, list, pciOpen, nii, rings, dma, image, fault>>

\* StopChild, with IntelgbeShutdown: the child is gone and the channels are
\* stopped.
StopChild(c) ==
  /\ stop = Still
  /\ MayStop(c)
  /\ priv[c].child
  /\ orderly' = InOrder(c)
  /\ priv' = [priv EXCEPT ![c].child = FALSE]
  /\ dma' = dma \ {c}
  /\ mActiveChildren' = UINT16(mActiveChildren - 1)
  /\ stop' = [step |-> "controller", c |-> c]
  /\ UNCHANGED <<mActiveControllers, IFcnt, list, pciOpen, nii, rings, image, fault>>

\* StopController: the entry of the list numbered IfNum is cleared and the
\* DMA memory freed ...
StopController(c) ==
  /\ \/ stop = Still /\ MayStop(c) /\ ~priv[c].child
     \/ stop = [step |-> "controller", c |-> c]
  /\ orderly' = InOrder(c)
  /\ nii' = nii \ {c}
  /\ mIntelgbeUndi32DeviceList' = [list EXCEPT ![priv[c].IfNum] = NULL]
  /\ rings' = rings \ {c}
  /\ stop' = [step |-> "attributes", c |-> c]
  /\ UNCHANGED <<counters, priv, pciOpen, dma, image, fault>>

\* Mutant: the controller stays on the count.
StopControllerEndCounted(c) ==
  /\ stop = [step |-> "attributes", c |-> c]
  /\ dma' = dma \ {c}
  /\ pciOpen' = pciOpen \ {c}
  /\ priv' = [priv EXCEPT ![c] = NoPriv]
  /\ mIntelgbeUndi32DeviceList' = Freed(list, c)
  /\ stop' = Still
  /\ UNCHANGED <<counters, nii, rings, image, fault, orderly>>

\* ... then the original PCI attributes end bus mastering, and the private
\* data is freed.
StopControllerEnd(c) ==
  /\ stop = [step |-> "attributes", c |-> c]
  /\ dma' = dma \ {c}
  /\ pciOpen' = pciOpen \ {c}
  /\ priv' = [priv EXCEPT ![c] = NoPriv]
  /\ mIntelgbeUndi32DeviceList' = Freed(list, c)
  /\ mActiveControllers' = UINT8(mActiveControllers - 1)
  /\ stop' = Still
  /\ UNCHANGED <<mActiveChildren, IFcnt, nii, rings, image, fault, orderly>>

\* The failure exits of StopChild and StopController: each leaves what the
\* steps before it have done.  CloseControllerProtocols fails when the
\* attributes have been restored, and keeps PciIo open.
StopFailed(c) ==
  /\ \/ /\ stop = Still /\ MayStop(c)
        /\ (IF priv[c].child THEN "CloseChild" ELSE "UninstallNii") \in FailAt
        /\ UNCHANGED dma
     \/ /\ stop = [step |-> "controller", c |-> c] /\ "UninstallNii" \in FailAt
        /\ UNCHANGED dma
     \/ /\ stop = [step |-> "attributes", c |-> c] /\ "Attributes" \in FailAt
        /\ UNCHANGED dma
     \/ /\ stop = [step |-> "attributes", c |-> c] /\ "CloseProtocols" \in FailAt
        /\ dma' = dma \ {c}
  /\ stop' = Still
  /\ left' = left \ {c}
  /\ orderly' = FALSE
  /\ UNCHANGED <<counters, list, priv, pciOpen, nii, rings, loaded, unloading, fault>>

\* The NII pointer left by a failed Start leads to freed private data.
StopFreed(c) ==
  /\ loaded /\ ~fault
  /\ stop = Still
  /\ c \in pciOpen \cap nii
  /\ ~priv[c].live
  /\ fault' = TRUE
  /\ UNCHANGED <<counters, list, priv, pciOpen, nii, rings, dma, stop, image, orderly>>

-----------------------------------------------------------------------------
(* IntelgbeUndiUnload: disconnect every handle, then leave unless          *)
(* mActiveControllers says that a controller is still managed.             *)

Unload ==
  /\ loaded /\ ~unloading /\ ~fault
  /\ stop = Still
  /\ unloading' = TRUE
  /\ left' = Controllers
  /\ UNCHANGED <<counters, list, priv, pciOpen, nii, rings, dma, stop, loaded, fault, orderly>>

UnloadEnd ==
  /\ unloading
  /\ stop = Still
  /\ \A c \in Controllers : ~MayStop(c)
  /\ loaded' = (mActiveControllers # 0)
  /\ unloading' = FALSE
  /\ left' = {}
  /\ UNCHANGED <<counters, list, priv, pciOpen, nii, rings, dma, stop, fault, orderly>>

StopStep == \E c \in Controllers : StopChild(c) \/ StopController(c) \/ StopControllerEnd(c)

Next ==
  \/ \E c \in Controllers : Start(c) \/ LookupFreed(c) \/ StopFailed(c) \/ StopFreed(c)
  \/ StopStep
  \/ Unload
  \/ UnloadEnd

Spec == Init /\ [][Next]_vars

(* A call of DisconnectController and of IntelgbeUndiUnload runs to its    *)
(* end; nobody has to start or unload anything.                            *)
FairSpec == Spec /\ WF_vars((stop # Still \/ unloading) /\ StopStep) /\ WF_vars(UnloadEnd)

-----------------------------------------------------------------------------
(* The type invariant.                                                     *)
TypeOK ==
  /\ mActiveControllers \in Slots
  /\ mActiveChildren \in 0 .. MAX_NIC_INTERFACES * MAX_NIC_INTERFACES - 1
  /\ IFcnt \in Slots
  /\ list \in [Slots -> Controllers \cup {NULL, Stale}]
  /\ priv \in [Controllers -> [live : BOOLEAN, child : BOOLEAN,
                               IsChildInitialized : BOOLEAN, IfNum : Slots]]
  /\ pciOpen \subseteq Controllers /\ nii \subseteq Controllers
  /\ rings \subseteq Controllers /\ dma \subseteq Controllers
  /\ stop \in [step : {"none", "controller", "attributes"}, c : Controllers \cup {NULL}]
  /\ left \subseteq Controllers
  /\ loaded \in BOOLEAN /\ unloading \in BOOLEAN /\ fault \in BOOLEAN /\ orderly \in BOOLEAN

Managed  == {c \in Controllers : priv[c].live}
Children == {c \in Controllers : priv[c].child}

(* mActiveControllers counts the managed controllers, through every order  *)
(* of starts, stops and failures after the allocation of the private data: *)
(* IntelgbeUndiUnload decides by it whether it may free the !PXE           *)
(* structure.                                                              *)
ControllersExact == mActiveControllers = Cardinality(Managed)

\* mActiveChildren counts the children: the next interface number is taken
\* from it ("Updates active children number and PXE structure on child
\* stop/init").
ChildrenCounted == mActiveChildren = Cardinality(Children)

(* As long as starts and stops are orderly, mActiveChildren counts the     *)
(* children, whatever opens have failed.                                   *)
ChildrenExact == orderly => ChildrenCounted

(* The interface number in a child's NII protocol leads                    *)
(* IntelgbeUndiApiEntry to that child's own adapter: "Pointer to the NIC   *)
(* data structure information which the UNDI driver is layering on".       *)
NiiReachesAdapter ==
  \A c \in Children : priv[c].IfNum <= IFcnt /\ list[priv[c].IfNum] = c

(* It does as long as starts and stops are orderly: the numbers of the     *)
(* children and the positions in the device list, counted apart, agree.    *)
NiiReachesOwnAdapter == orderly => NiiReachesAdapter

(* GetControllerPrivateData finds every controller the driver manages      *)
(* ("NULL  Controller is not initialized").                                *)
ControllerFound ==
  ~unloading /\ stop = Still => \A c \in Managed : Found(c)

\* The lookup never reads private data that has been freed.
NoFreedLookup == ~fault

(* As long as starts and stops are orderly, GetControllerPrivateData finds *)
(* every controller the driver manages, and never looks at private data    *)
(* that has been freed.                                                    *)
LookupExact == orderly => ControllerFound /\ NoFreedLookup

(* DMA memory is not freed while the device's channels run: StopChild has  *)
(* to "stop Rx and Tx" before StopController frees "Tx & Rx descriptors,   *)
(* Rx buffers".                                                            *)
RingsHeld == dma \subseteq rings

(* It is not as long as starts and stops are orderly.                      *)
RingsOutliveDma == orderly => RingsHeld

(* "IFcnt is equal to the number of NICs this UNDI supports - 1"           *)
(* (GigUndiPxeUpdate).                                                     *)
IFcntIsCount == Children # {} => IFcnt = Cardinality(Children) - 1

(* IntelgbeUndiUnload comes to an end, and leaves the driver unloaded if   *)
(* all was orderly before and nothing fails while it stops the             *)
(* controllers.                                                            *)
UnloadSucceeds == unloading ~> ~loaded \/ ~orderly
-----------------------------------------------------------------------------
(* The inductive invariant behind these.  The controller that is being     *)
(* stopped has lost its child, and from some point on its NII pointer and  *)
(* its entry in the list too.                                              *)
Stopping == IF stop = Still THEN {} ELSE {stop.c}
Delisted == IF stop.step = "attributes" THEN {stop.c} ELSE {}

(* Whatever fails: the list points to live private data only, a managed    *)
(* controller has its PciIo open, and only a managed one is stopped.       *)
LiveOnly ==
  /\ \A i \in Slots : list[i] \in Controllers => list[i] \in Managed
  /\ Managed \subseteq pciOpen
  /\ Stopping \subseteq Managed
  /\ stop.step = "none" => stop = Still

CountedWhileReliable == orderly \/ "PrivateData" \notin FailAt => ControllersExact

(* As long as all is orderly, every managed controller has its child, its  *)
(* NII pointer and one entry of the list, at the child's interface number. *)
Entries ==
  /\ nii = Managed \ Delisted
  /\ Children = Managed \ Stopping
  /\ \A c \in Managed : priv[c].IsChildInitialized
  /\ \A c \in Managed \ Delisted : list[priv[c].IfNum] = c /\ priv[c].IfNum <= IFcnt
  /\ \A i \in Slots : list[i] \in Controllers =>
       list[i] \in Managed \ Delisted /\ i = priv[list[i]].IfNum

(* Until the driver is unloaded these entries are the first of the list,   *)
(* and the controller that is being stopped has the last one.              *)
Compact ==
  LET count == IF Delisted = {} THEN mActiveControllers ELSE mActiveControllers - 1
  IN /\ \A i \in Slots : i < count => list[i] \in Controllers
     /\ \A c \in Managed \ Delisted : priv[c].IfNum < count
     /\ \A c \in Stopping : priv[c].IfNum = mActiveControllers - 1

Orderly ==
  /\ ~fault
  /\ Entries
  /\ ChildrenCounted
  /\ dma \subseteq rings \ Stopping
  /\ IF unloading THEN loaded /\ left = Controllers ELSE Compact

IInv == /\ TypeOK /\ LiveOnly /\ CountedWhileReliable
        /\ orderly => Orderly
=============================================================================
