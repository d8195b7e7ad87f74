------------------------ MODULE DriverBinding_proofs ------------------------
(***************************************************************************)
(* The bookkeeping of the driver binding, for every number of controllers, *)
(* every order of starts, stops and unloads and every step that may fail.  *)
(***************************************************************************)
EXTENDS DriverBinding, FiniteSetTheorems, TLAPS

USE DEF list

-----------------------------------------------------------------------------
(* Arithmetic of the counters.                                             *)

(* A remainder is below the modulus, and a number below it is its own.     *)
LEMMA Remainder ==
  ASSUME NEW n \in Int, NEW p \in Nat, p > 0
  PROVE  n % p \in 0 .. p - 1 /\ (n \in 0 .. p - 1 => n % p = n)
<1> DEFINE q == n \div p
           r == n % p
<1>1. q \in Int /\ r \in 0 .. p - 1 /\ r = n - p * q
  OBVIOUS
<1> HIDE DEF q, r
<1>2. ASSUME n \in 0 .. p - 1 PROVE r = n
  <2>1. CASE q >= 1
    <3>1. p * q >= p
      BY <2>1, <1>1
    <3> QED
      BY <1>1, <1>2, <3>1
  <2>2. CASE q <= -1
    <3>1. p * q <= -p
      <4>1. p * (-1 - q) >= 0
        BY <1>1, <2>2
      <4>2. p * (-1 - q) = -p - p * q
        BY <1>1
      <4> QED
        BY <1>1, <4>1, <4>2
    <3> QED
      BY <1>1, <1>2, <3>1
  <2>3. CASE q = 0
    BY <1>1, <2>3
  <2> QED
    BY <1>1, <2>1, <2>2, <2>3
<1> QED
  BY <1>1, <1>2 DEF r

LEMMA Sizes ==
  /\ MAX_NIC_INTERFACES \in Nat /\ MAX_NIC_INTERFACES > 0
  /\ MAX_NIC_INTERFACES * MAX_NIC_INTERFACES \in Nat
  /\ MAX_NIC_INTERFACES * MAX_NIC_INTERFACES > 0
  /\ Cardinality(Controllers) \in Nat /\ Cardinality(Controllers) < MAX_NIC_INTERFACES
  /\ \A c \in Controllers : MAX_NIC_INTERFACES < MAX_NIC_INTERFACES * MAX_NIC_INTERFACES
<1>1. Cardinality(Controllers) \in Nat
  BY BindingAssumption, FS_CardinalityType
<1>2. \A c \in Controllers : Cardinality(Controllers) >= 1
  <2>1. ASSUME NEW c \in Controllers PROVE Cardinality(Controllers) # 0
    BY <2>1, BindingAssumption, FS_EmptySet
  <2> QED
    BY <1>1, <2>1
<1>3. MAX_NIC_INTERFACES \in Nat /\ MAX_NIC_INTERFACES > Cardinality(Controllers)
  BY BindingAssumption
<1>4. MAX_NIC_INTERFACES * MAX_NIC_INTERFACES > 0 /\ MAX_NIC_INTERFACES * MAX_NIC_INTERFACES \in Nat
  BY <1>1, <1>3
<1>5. ASSUME NEW c \in Controllers
      PROVE  MAX_NIC_INTERFACES < MAX_NIC_INTERFACES * MAX_NIC_INTERFACES
  <2>1. MAX_NIC_INTERFACES >= 2
    BY <1>1, <1>2, <1>3
  <2>2. MAX_NIC_INTERFACES * (MAX_NIC_INTERFACES - 1) >= MAX_NIC_INTERFACES
    BY <1>3, <2>1
  <2>3. MAX_NIC_INTERFACES * (MAX_NIC_INTERFACES - 1)
          = MAX_NIC_INTERFACES * MAX_NIC_INTERFACES - MAX_NIC_INTERFACES
    BY <1>3
  <2> QED
    BY <1>3, <1>4, <2>1, <2>2, <2>3
<1> QED
  BY <1>1, <1>3, <1>4, <1>5

LEMMA UINT8Facts ==
  ASSUME NEW n \in Int
  PROVE  UINT8(n) \in Slots /\ (n \in Slots => UINT8(n) = n)
BY Sizes, Remainder DEF UINT8, Slots

LEMMA UINT16Facts ==
  ASSUME NEW n \in Int
  PROVE  /\ UINT16(n) \in 0 .. MAX_NIC_INTERFACES * MAX_NIC_INTERFACES - 1
         /\ n \in 0 .. MAX_NIC_INTERFACES * MAX_NIC_INTERFACES - 1 => UINT16(n) = n
BY Sizes, Remainder DEF UINT16

(* Sets of controllers are finite and fit the counters.                    *)
LEMMA Counting ==
  ASSUME NEW S \in SUBSET Controllers
  PROVE  /\ IsFiniteSet(S) /\ Cardinality(S) \in Nat /\ Cardinality(S) <= Cardinality(Controllers)
         /\ \A c \in Controllers \ S : Cardinality(S \cup {c}) = Cardinality(S) + 1
         /\ \A c \in S : Cardinality(S \ {c}) = Cardinality(S) - 1 /\ Cardinality(S) > 0
<1>1. IsFiniteSet(S) /\ Cardinality(S) <= Cardinality(Controllers)
  BY BindingAssumption, FS_Subset
<1>2. Cardinality(S) \in Nat
  BY <1>1, FS_CardinalityType
<1>3. \A c \in Controllers \ S : Cardinality(S \cup {c}) = Cardinality(S) + 1
  BY <1>1, FS_AddElement
<1>4. \A c \in S : Cardinality(S \ {c}) = Cardinality(S) - 1
  BY <1>1, FS_RemoveElement
<1>5. \A c \in S : Cardinality(S) # 0
  BY <1>1, FS_EmptySet
<1> QED
  BY <1>1, <1>2, <1>3, <1>4, <1>5

-----------------------------------------------------------------------------
Privates == [live : BOOLEAN, child : BOOLEAN, IsChildInitialized : BOOLEAN, IfNum : Slots]

LEMMA ZeroSlot == 0 \in Slots
BY Sizes DEF Slots

(* What each step of a stop means for the controller's entries.            *)
LEMMA StopFacts ==
  /\ stop = Still => Stopping = {} /\ Delisted = {}
  /\ \A c \in Controllers :
       /\ stop = [step |-> "controller", c |-> c] => Stopping = {c} /\ Delisted = {}
       /\ stop = [step |-> "attributes", c |-> c] => Stopping = {c} /\ Delisted = {c}
<1>1. Still.step = "none"
  BY DEF Still
<1>2. ASSUME NEW c \in Controllers
      PROVE  /\ stop = [step |-> "controller", c |-> c] => Stopping = {c} /\ Delisted = {}
             /\ stop = [step |-> "attributes", c |-> c] => Stopping = {c} /\ Delisted = {c}
  BY <1>1 DEF Stopping, Delisted
<1> QED
  BY <1>1, <1>2 DEF Stopping, Delisted

LEMMA InitIInv == Init => IInv
<1> SUFFICES ASSUME Init PROVE IInv
  OBVIOUS
<1>1. TypeOK
  <2>1. priv \in [Controllers -> Privates]
    BY ZeroSlot DEF Init, NoPriv, Privates
  <2>2. stop \in [step : {"none", "controller", "attributes"}, c : Controllers \cup {NULL}]
    BY DEF Init, Still
  <2>3. 0 \in 0 .. MAX_NIC_INTERFACES * MAX_NIC_INTERFACES - 1
    BY Sizes
  <2>4. list \in [Slots -> Controllers \cup {NULL, Stale}]
    BY DEF Init
  <2> QED
    BY ZeroSlot, <2>1, <2>2, <2>3, <2>4 DEF Init, TypeOK, Privates
<1>2. Managed = {} /\ Children = {}
  BY DEF Init, Managed, Children, NoPriv
<1>3. Stopping = {} /\ Delisted = {}
  BY StopFacts DEF Init
<1>4. Cardinality({}) = 0
  BY FS_EmptySet
<1>5. ControllersExact /\ ChildrenCounted
  BY <1>2, <1>4 DEF Init, ControllersExact, ChildrenCounted
<1>6. LiveOnly /\ Entries /\ Compact
  BY <1>2, <1>3, BindingAssumption DEF Init, LiveOnly, Entries, Compact, Slots
<1> QED
  BY <1>1, <1>5, <1>6 DEF Init, IInv, CountedWhileReliable, Orderly

(* A controller the lookup finds is managed, and one that Supported accepts *)
(* without finding it is not.                                              *)
LEMMA FoundIsManaged ==
  ASSUME IInv, NEW c \in Controllers
  PROVE  /\ Found(c) => c \in Managed
         /\ DriverSupported(c) /\ ~Found(c) => c \notin Managed
<1>1. Found(c) => c \in Managed
  BY DEF Found, Scanned, IInv, LiveOnly
<1>2. DriverSupported(c) /\ ~Found(c) => c \notin Managed
  BY DEF DriverSupported, IInv, LiveOnly
<1> QED
  BY <1>1, <1>2
(* A Start that succeeds.                                                  *)
LEMMA StartDoneIInv ==
  ASSUME IInv, NEW c \in Controllers, NEW path \in {"child", "end"}, StartDone(c, path)
  PROVE  IInv'
<1>t. TypeOK
  BY DEF IInv
<1>a. /\ stop = Still /\ stop' = Still /\ loaded /\ ~unloading
      /\ DriverSupported(c)
      /\ UNCHANGED <<stop, loaded, unloading, left, fault>>
      /\ mIntelgbeUndi32DeviceList' = Listed(c)
      /\ mActiveControllers' = IF Found(c) THEN mActiveControllers ELSE UINT8(mActiveControllers + 1)
      /\ pciOpen' = pciOpen \cup {c} /\ nii' = nii \cup {c} /\ rings' = rings \cup {c}
      /\ dma' = IF Found(c) THEN dma ELSE dma \cup {c}
      /\ orderly' = (orderly /\ path = "child")
  BY DEF StartDone, MayStart, image
<1>b. /\ Stopping = {} /\ Delisted = {} /\ Stopping' = {} /\ Delisted' = {}
  BY <1>a, StopFacts DEF Stopping, Delisted
<1>c. /\ path = "child" => /\ mActiveChildren' = mActiveChildren + 1 /\ IFcnt' = UINT8(mActiveChildren)
                           /\ mActiveChildren < MAX_NIC_INTERFACES
      /\ path = "end" => mActiveChildren' = mActiveChildren /\ IFcnt' = IFcnt
  <2>0. path = "child" => PxeUpdate(mActiveChildren + 1)
    BY DEF StartDone
  <2>1. path = "child" => mActiveChildren' = mActiveChildren + 1 /\ IFcnt' = UINT8(mActiveChildren)
    <3>1. mActiveChildren \in Int
      BY <1>t, Sizes DEF TypeOK
    <3>2. (mActiveChildren + 1) - 1 = mActiveChildren
      BY <3>1
    <3> QED
      BY <2>0, <3>2 DEF PxeUpdate
  <2> QED
    BY <2>1 DEF StartDone
<1>d. /\ mActiveChildren' \in 0 .. MAX_NIC_INTERFACES * MAX_NIC_INTERFACES - 1
      /\ IFcnt' \in Slots /\ mActiveControllers' \in Slots
  <2>1. mActiveChildren' \in 0 .. MAX_NIC_INTERFACES * MAX_NIC_INTERFACES - 1
    BY <1>t, <1>c, Sizes DEF TypeOK
  <2>2. IFcnt' \in Slots
    BY <1>t, <1>c, UINT8Facts DEF TypeOK
  <2>3. mActiveControllers \in Slots /\ mActiveControllers + 1 \in Int
    BY <1>t DEF TypeOK, Slots
  <2> QED
    BY <1>a, <2>1, <2>2, <2>3, UINT8Facts
<1>e. /\ priv' \in [Controllers -> Privates]
      /\ priv'[c].live /\ \A x \in Controllers \ {c} : priv'[x] = priv[x]
      /\ path = "child" => priv'[c] = [live |-> TRUE, child |-> TRUE,
                                       IsChildInitialized |-> TRUE, IfNum |-> IFcnt']
  <2>0. priv \in [Controllers -> Privates]
    BY <1>t DEF TypeOK, Privates
  <2>1. CASE path = "child"
    <3> DEFINE new == [live |-> TRUE, child |-> TRUE, IsChildInitialized |-> TRUE, IfNum |-> IFcnt']
    <3>1. priv' = [priv EXCEPT ![c] = new]
      BY <2>1 DEF StartDone
    <3>2. new \in Privates /\ new.live
      BY <1>d DEF Privates
    <3> HIDE DEF new
    <3>3. priv' \in [Controllers -> Privates] /\ priv'[c] = new
          /\ \A x \in Controllers \ {c} : priv'[x] = priv[x]
      BY <2>0, <3>1, <3>2
    <3> QED
      BY <2>1, <3>2, <3>3 DEF new
  <2>2. CASE path = "end"
    <3> DEFINE new == [NoPriv EXCEPT !.live = TRUE]
    <3>1. priv' = [priv EXCEPT ![c] = new]
      BY <2>2 DEF StartDone
    <3>2. new \in Privates /\ new.live
      BY ZeroSlot DEF Privates, NoPriv
    <3> HIDE DEF new
    <3> QED
      BY <2>0, <2>2, <3>1, <3>2
  <2> QED
    BY <2>1, <2>2
<1>m. Managed' = Managed \cup {c}
  BY <1>e DEF Managed
<1>l. /\ list' \in [Slots -> Controllers \cup {NULL, Stale}]
      /\ Found(c) => list' = list
      /\ ~Found(c) => /\ list'[mActiveControllers] = c
                      /\ \A i \in Slots \ {mActiveControllers} : list'[i] = list[i]
  BY <1>t, <1>a DEF Listed, TypeOK
<1>1. TypeOK'
  BY <1>t, <1>a, <1>d, <1>e, <1>l DEF TypeOK, Privates
<1>2. LiveOnly'
  <2>1. \A i \in Slots : list'[i] \in Controllers => list'[i] \in Managed'
    BY <1>l, <1>m DEF IInv, LiveOnly
  <2>2. Managed' \subseteq pciOpen'
    BY <1>a, <1>m DEF IInv, LiveOnly
  <2> QED
    BY <1>a, <1>b, <2>1, <2>2 DEF LiveOnly
<1>n. ASSUME ControllersExact, ~Found(c)
      PROVE  /\ c \notin Managed /\ mActiveControllers = Cardinality(Managed)
             /\ mActiveControllers' = mActiveControllers + 1
             /\ Cardinality(Managed') = Cardinality(Managed) + 1
  <2>1. c \notin Managed /\ Managed \subseteq Controllers
    BY <1>a, <1>n, FoundIsManaged DEF Managed
  <2>2. Cardinality(Managed') = Cardinality(Managed) + 1 /\ Cardinality(Managed) \in Nat
    BY <1>m, <2>1, Counting
  <2>3. Managed' \subseteq Controllers
    BY DEF Managed
  <2>4. Cardinality(Managed') <= Cardinality(Controllers)
    BY <2>3, Counting
  <2>5. mActiveControllers + 1 \in Slots
    BY <1>n, <2>2, <2>4, Sizes DEF ControllersExact, Slots
  <2>6. UINT8(mActiveControllers + 1) = mActiveControllers + 1
    BY <2>5, UINT8Facts DEF Slots
  <2> QED
    BY <1>a, <1>n, <2>1, <2>2, <2>6 DEF ControllersExact
<1>3. CountedWhileReliable'
  <2> SUFFICES ASSUME ControllersExact PROVE ControllersExact'
    BY <1>a DEF IInv, CountedWhileReliable
  <2>1. CASE Found(c)
    <3>1. Managed' = Managed
      BY <1>m, <2>1, FoundIsManaged
    <3> QED
      BY <1>a, <2>1, <3>1 DEF ControllersExact
  <2>2. CASE ~Found(c)
    BY <1>n, <2>2 DEF ControllersExact
  <2> QED
    BY <2>1, <2>2
<1>4. ASSUME orderly' PROVE Orderly'
  <2>a. orderly /\ path = "child" /\ Orderly /\ ControllersExact
    BY <1>a, <1>4 DEF IInv, CountedWhileReliable
  <2>b. /\ nii = Managed /\ Children = Managed /\ ~fault
        /\ \A x \in Managed : /\ priv[x].IsChildInitialized
                              /\ list[priv[x].IfNum] = x /\ priv[x].IfNum < mActiveControllers
        /\ \A i \in Slots : list[i] \in Controllers =>
             list[i] \in Managed /\ i = priv[list[i]].IfNum
        /\ \A i \in Slots : i < mActiveControllers => list[i] \in Controllers
        /\ dma \subseteq rings /\ mActiveChildren = Cardinality(Managed)
    BY <1>a, <1>b, <2>a DEF Orderly, Entries, Compact, ChildrenCounted
  <2>c. ~Found(c)
    BY <1>a, <2>b, FoundIsManaged DEF DriverSupported
  <2>d. /\ c \notin Managed /\ mActiveControllers = Cardinality(Managed)
        /\ mActiveControllers' = mActiveControllers + 1
        /\ Cardinality(Managed') = Cardinality(Managed) + 1
    BY <1>n, <2>a, <2>c
  <2>e. mActiveControllers \in Slots /\ mActiveControllers \in Nat
    BY <1>t DEF TypeOK, Slots
  <2>f. IFcnt' = mActiveControllers /\ mActiveChildren' = mActiveControllers + 1
    BY <1>c, <2>a, <2>b, <2>d, <2>e, UINT8Facts
  <2>g. /\ priv'[c].IfNum = mActiveControllers /\ priv'[c].IsChildInitialized /\ priv'[c].child
        /\ list'[mActiveControllers] = c
        /\ \A x \in Managed : priv'[x] = priv[x]
        /\ \A i \in Slots \ {mActiveControllers} : list'[i] = list[i]
    BY <1>e, <1>l, <2>a, <2>c, <2>d, <2>f DEF Managed
  <2>h. \A x \in Managed : priv[x].IfNum \in Slots /\ priv[x].IfNum \in Nat
    BY <1>t DEF TypeOK, Managed, Slots
  <2>i. Children' = Managed'
    BY <1>e, <2>b, <2>d, <2>g, <1>m DEF Children, Managed
  <2>1. Entries'
    <3>1. nii' = Managed' \ Delisted'
      BY <1>a, <1>b, <1>m, <2>b
    <3>2. Children' = Managed' \ Stopping'
      BY <1>b, <2>i
    <3>3. \A x \in Managed' : priv'[x].IsChildInitialized
      BY <1>m, <2>b, <2>g
    <3>4. ASSUME NEW x \in Managed'
          PROVE  list'[priv'[x].IfNum] = x /\ priv'[x].IfNum <= IFcnt'
      <4>1. CASE x = c
        BY <2>e, <2>f, <2>g, <4>1
      <4>2. CASE x # c
        <5>1. x \in Managed
          BY <1>m, <4>2
        <5>2. priv[x].IfNum \in Slots \ {mActiveControllers}
          BY <2>b, <2>e, <2>h, <5>1
        <5> QED
          BY <2>b, <2>e, <2>f, <2>g, <2>h, <5>1, <5>2
      <4> QED
        BY <4>1, <4>2
    <3>5. ASSUME NEW i \in Slots, list'[i] \in Controllers
          PROVE  list'[i] \in Managed' /\ i = priv'[list'[i]].IfNum
      BY <1>m, <2>b, <2>g, <3>5
    <3> QED
      BY <1>b, <3>1, <3>2, <3>3, <3>4, <3>5 DEF Entries
  <2>2. Compact'
    <3>1. ASSUME NEW i \in Slots, i < mActiveControllers + 1 PROVE list'[i] \in Controllers
      <4>1. i = mActiveControllers \/ i < mActiveControllers
        BY <2>e, <3>1 DEF Slots
      <4> QED
        BY <2>b, <2>g, <4>1
    <3>2. ASSUME NEW x \in Managed' PROVE priv'[x].IfNum < mActiveControllers + 1
      <4>1. CASE x = c
        BY <2>e, <2>g, <4>1
      <4>2. CASE x # c
        <5>1. x \in Managed
          BY <1>m, <4>2
        <5> QED
          BY <2>b, <2>e, <2>g, <2>h, <5>1
      <4> QED
        BY <4>1, <4>2
    <3> QED
      BY <1>b, <2>d, <3>1, <3>2 DEF Compact
  <2>3. ChildrenCounted'
    BY <2>d, <2>f, <2>i DEF ChildrenCounted
  <2> QED
    BY <1>a, <1>b, <2>1, <2>2, <2>3, <2>b DEF Orderly
<1> QED
  BY <1>1, <1>2, <1>3, <1>4 DEF IInv
(* A Start that fails: orderly, it was not managed and is not now.         *)
LEMMA StartFailedIInv ==
  ASSUME IInv, NEW c \in Controllers, NEW path \in {"child", "end"}, NEW at \in StartSteps,
         StartFailed(c, path, at)
  PROVE  IInv'
<1>t. TypeOK
  BY DEF IInv
<1>a. /\ stop = Still /\ stop' = Still /\ loaded /\ ~unloading
      /\ DriverSupported(c)
      /\ UNCHANGED <<stop, loaded, unloading, left, fault>>
      /\ at \in FailurePoints(c, path)
      /\ mActiveControllers' = CountAfterFailure(c, at)
      /\ mIntelgbeUndi32DeviceList' = IF at = "PrivateData" THEN list ELSE Freed(Listed(c), c)
      /\ priv' = [priv EXCEPT ![c] = NoPriv]
      /\ pciOpen' \subseteq pciOpen \cup {c} /\ pciOpen \ {c} \subseteq pciOpen'
      /\ orderly' = (orderly /\ at \in {"OpenPci", "OpenPath"})
  BY DEF StartFailed, MayStart, image
<1>b. /\ Stopping = {} /\ Delisted = {} /\ Stopping' = {} /\ Delisted' = {}
  BY <1>a, StopFacts DEF Stopping, Delisted
<1>c. /\ mActiveChildren' \in 0 .. MAX_NIC_INTERFACES * MAX_NIC_INTERFACES - 1
      /\ IFcnt' \in Slots
      /\ at \in {"OpenPci", "OpenPath"} => UNCHANGED <<mActiveChildren, IFcnt>>
  <2>0. mActiveChildren \in 0 .. MAX_NIC_INTERFACES * MAX_NIC_INTERFACES - 1 /\ IFcnt \in Slots
    BY <1>t DEF TypeOK
  <2>1. \/ at \in {"PrivateData", "OpenPci", "OpenPath"} /\ UNCHANGED <<mActiveChildren, IFcnt>>
        \/ at = "ChildProtocols" /\ PxeUpdate(mActiveChildren)
        \/ at \notin {"OpenPci", "OpenPath"} /\ PxeUpdate(OneChildLess)
    BY DEF StartFailed
  <2>2. OneChildLess \in 0 .. MAX_NIC_INTERFACES * MAX_NIC_INTERFACES - 1
    BY <2>0, Sizes DEF OneChildLess
  <2>3. ASSUME NEW n \in 0 .. MAX_NIC_INTERFACES * MAX_NIC_INTERFACES - 1, PxeUpdate(n)
        PROVE  mActiveChildren' = n /\ IFcnt' \in Slots
    <3>1. n - 1 \in Int
      BY Sizes
    <3> QED
      BY <2>3, <3>1, UINT8Facts DEF PxeUpdate
  <2> QED
    BY <2>0, <2>1, <2>2, <2>3
<1>d. mActiveControllers' \in Slots
  <2>1. mActiveControllers \in Slots /\ mActiveControllers - 1 \in Int
    BY <1>t DEF TypeOK, Slots
  <2> QED
    BY <1>a, <2>1, UINT8Facts DEF CountAfterFailure
<1>e. /\ priv' \in [Controllers -> Privates]
      /\ ~priv'[c].live /\ ~priv'[c].child
      /\ \A x \in Controllers \ {c} : priv'[x] = priv[x]
  <2>0. priv \in [Controllers -> Privates] /\ NoPriv \in Privates
    BY <1>t, ZeroSlot DEF TypeOK, Privates, NoPriv
  <2>1. ~NoPriv.live /\ ~NoPriv.child
    BY DEF NoPriv
  <2> QED
    BY <1>a, <2>0, <2>1
<1>m. Managed' = Managed \ {c} /\ Children' = Children \ {c}
  BY <1>e DEF Managed, Children
<1>l. /\ list' \in [Slots -> Controllers \cup {NULL, Stale}]
      /\ \A i \in Slots : list'[i] \in Controllers => list'[i] = list[i] /\ (at = "PrivateData" \/ list[i] # c)
      /\ at # "PrivateData" =>
           \A i \in Slots : i # mActiveControllers /\ list[i] # c => list'[i] = list[i]
  <2>1. CASE at = "PrivateData"
    BY <1>t, <1>a, <2>1 DEF TypeOK
  <2>2. CASE at # "PrivateData"
    <3> DEFINE l == Listed(c)
    <3>1. l \in [Slots -> Controllers \cup {NULL, Stale}]
          /\ \A i \in Slots : l[i] = list[i] \/ (i = mActiveControllers /\ l[i] = c)
      BY <1>t DEF TypeOK, Listed
    <3>2. list' = [i \in Slots |-> IF l[i] = c THEN Stale ELSE l[i]]
      BY <1>a, <2>2 DEF Freed
    <3> HIDE DEF l
    <3> QED
      BY <2>2, <3>1, <3>2, BindingAssumption
  <2> QED
    BY <2>1, <2>2
<1>1. TypeOK'
  <2>1. /\ pciOpen' \subseteq Controllers /\ nii' \subseteq Controllers
        /\ rings' \subseteq Controllers /\ dma' \subseteq Controllers /\ orderly' \in BOOLEAN
    BY <1>t DEF StartFailed, TypeOK
  <2> QED
    BY <1>t, <1>a, <1>c, <1>d, <1>e, <1>l, <2>1 DEF TypeOK, Privates
<1>f. at = "PrivateData" => ~Found(c) /\ "PrivateData" \in FailAt
  BY <1>a DEF FailurePoints
<1>2. LiveOnly'
  <2>1. ASSUME NEW i \in Slots, list'[i] \in Controllers PROVE list'[i] \in Managed'
    <3>1. list[i] = list'[i] /\ list[i] \in Managed
      BY <1>l, <2>1 DEF IInv, LiveOnly
    <3>2. CASE at = "PrivateData"
      BY <1>a, <1>f, <1>m, <3>1, <3>2, FoundIsManaged
    <3>3. CASE at # "PrivateData"
      BY <1>l, <1>m, <2>1, <3>1, <3>3
    <3> QED
      BY <3>2, <3>3
  <2>2. Managed' \subseteq pciOpen'
    BY <1>a, <1>m DEF IInv, LiveOnly
  <2> QED
    BY <1>a, <1>b, <2>1, <2>2 DEF LiveOnly
<1>3. CountedWhileReliable'
  <2> SUFFICES ASSUME orderly' \/ "PrivateData" \notin FailAt PROVE ControllersExact'
    BY DEF CountedWhileReliable
  <2>1. ControllersExact /\ at # "PrivateData"
    BY <1>a, <1>f DEF IInv, CountedWhileReliable
  <2>2. Managed \subseteq Controllers
    BY DEF Managed
  <2>3. CASE Found(c)
    <3>1. c \in Managed
      BY <2>3, FoundIsManaged
    <3>2. Cardinality(Managed') = Cardinality(Managed) - 1 /\ Cardinality(Managed) > 0
          /\ Cardinality(Managed) \in Nat /\ Cardinality(Managed) <= Cardinality(Controllers)
      BY <1>m, <2>2, <3>1, Counting
    <3>3. mActiveControllers - 1 \in Slots /\ mActiveControllers - 1 \in Int
      BY <2>1, <3>2, Sizes DEF ControllersExact, Slots
    <3> QED
      BY <1>a, <2>1, <2>3, <3>2, <3>3, UINT8Facts DEF CountAfterFailure, ControllersExact
  <2>4. CASE ~Found(c)
    <3>1. Managed' = Managed
      BY <1>a, <1>m, <2>4, FoundIsManaged
    <3> QED
      BY <1>a, <2>1, <2>4, <3>1 DEF CountAfterFailure, ControllersExact
  <2> QED
    BY <2>3, <2>4
<1>4. ASSUME orderly' PROVE Orderly'
  <2>a. orderly /\ at \in {"OpenPci", "OpenPath"} /\ Orderly
    BY <1>a, <1>4 DEF IInv
  <2>b. ~Found(c)
    BY <1>a, <2>a DEF FailurePoints
  <2>c. c \notin Managed /\ Managed' = Managed
    BY <1>a, <1>m, <2>b, FoundIsManaged
  <2>d. /\ mActiveControllers' = mActiveControllers
        /\ UNCHANGED <<mActiveChildren, IFcnt, nii, rings, dma>>
    <3>1. UNCHANGED <<nii, rings, dma>>
      BY <2>a DEF StartFailed
    <3>2. mActiveControllers' = mActiveControllers
      BY <1>a, <2>a, <2>b DEF CountAfterFailure
    <3> QED
      BY <1>c, <2>a, <3>1, <3>2
  <2>e. /\ nii = Managed /\ Children = Managed /\ ~fault
        /\ \A x \in Managed : /\ priv[x].IsChildInitialized
                              /\ list[priv[x].IfNum] = x /\ priv[x].IfNum < mActiveControllers
                              /\ priv[x].IfNum <= IFcnt
        /\ \A i \in Slots : list[i] \in Controllers =>
             list[i] \in Managed /\ i = priv[list[i]].IfNum
        /\ \A i \in Slots : i < mActiveControllers => list[i] \in Controllers
        /\ dma \subseteq rings /\ mActiveChildren = Cardinality(Managed)
    BY <1>a, <1>b, <2>a DEF Orderly, Entries, Compact, ChildrenCounted
  <2>f. Children' = Managed'
    BY <1>m, <2>c, <2>e
  <2>g. \A x \in Managed : priv'[x] = priv[x] /\ priv[x].IfNum \in Slots
    BY <1>t, <1>e, <2>c DEF Managed, TypeOK
  <2>h. \A i \in Slots : i < mActiveControllers => list'[i] = list[i]
    <3> SUFFICES ASSUME NEW i \in Slots, i < mActiveControllers PROVE list'[i] = list[i]
      OBVIOUS
    <3>1. i # mActiveControllers
      BY <1>t DEF TypeOK, Slots
    <3>2. list[i] # c
      BY <2>c, <2>e
    <3> QED
      BY <1>l, <2>a, <3>1, <3>2
  <2>1. Entries'
    <3>1. ASSUME NEW x \in Managed PROVE list'[priv'[x].IfNum] = x /\ priv'[x].IfNum <= IFcnt'
      BY <2>d, <2>e, <2>g, <2>h
    <3>2. ASSUME NEW i \in Slots, list'[i] \in Controllers
          PROVE  list'[i] \in Managed /\ i = priv'[list'[i]].IfNum
      BY <1>l, <2>e, <2>g, <3>2
    <3> QED
      BY <1>b, <2>c, <2>d, <2>e, <2>f, <2>g, <3>1, <3>2 DEF Entries
  <2>2. Compact'
    BY <1>b, <2>c, <2>d, <2>e, <2>g, <2>h DEF Compact
  <2>3. ChildrenCounted'
    BY <2>c, <2>d, <2>e, <2>f DEF ChildrenCounted
  <2> QED
    BY <1>a, <1>b, <2>1, <2>2, <2>3, <2>d, <2>e DEF Orderly
<1> QED
  BY <1>1, <1>2, <1>3, <1>4 DEF IInv
-----------------------------------------------------------------------------
(* Stopping.                                                               *)

LEMMA StopChildIInv ==
  ASSUME IInv, NEW c \in Controllers, StopChild(c)
  PROVE  IInv'
<1>t. TypeOK
  BY DEF IInv
<1>a. /\ stop = Still /\ stop' = [step |-> "controller", c |-> c]
      /\ priv[c].live /\ priv[c].child
      /\ orderly' = (orderly /\ (unloading \/ IsLast(c)))
      /\ priv' = [priv EXCEPT ![c].child = FALSE]
      /\ dma' = dma \ {c} /\ mActiveChildren' = UINT16(mActiveChildren - 1)
      /\ UNCHANGED <<mActiveControllers, IFcnt, mIntelgbeUndi32DeviceList, pciOpen, nii, rings,
                     loaded, unloading, left, fault>>
  BY DEF StopChild, MayStop, InOrder, image
<1>b. Stopping = {} /\ Delisted = {} /\ Stopping' = {c} /\ Delisted' = {}
  <2>1. stop' # Still /\ stop'.c = c /\ stop'.step = "controller"
    BY <1>a DEF Still
  <2> QED
    BY <1>a, <2>1, StopFacts DEF Stopping, Delisted
<1>c. mActiveChildren \in 0 .. MAX_NIC_INTERFACES * MAX_NIC_INTERFACES - 1
      /\ mActiveChildren - 1 \in Int
  BY <1>t, Sizes DEF TypeOK
<1>e. /\ priv' \in [Controllers -> Privates] /\ ~priv'[c].child
      /\ \A x \in Controllers : /\ priv'[x].live = priv[x].live
                                /\ priv'[x].IsChildInitialized = priv[x].IsChildInitialized
                                /\ priv'[x].IfNum = priv[x].IfNum
                                /\ x # c => priv'[x].child = priv[x].child
  BY <1>t, <1>a DEF TypeOK, Privates
<1>m. Managed' = Managed /\ Children' = Children \ {c} /\ c \in Managed /\ c \in Children
  <2>1. c \in Managed /\ c \in Children
    BY <1>a DEF Managed, Children
  <2>2. Managed' = Managed
    BY <1>e DEF Managed
  <2>3. Children' = Children \ {c}
    BY <1>e DEF Children
  <2> QED
    BY <2>1, <2>2, <2>3
<1>1. TypeOK'
  <2>1. mActiveChildren' \in 0 .. MAX_NIC_INTERFACES * MAX_NIC_INTERFACES - 1
    BY <1>a, <1>c, UINT16Facts
  <2>2. stop' \in [step : {"none", "controller", "attributes"}, c : Controllers \cup {NULL}]
    BY <1>a
  <2> QED
    BY <1>t, <1>a, <1>e, <2>1, <2>2 DEF TypeOK, Privates
<1>2. LiveOnly'
  <2>1. stop'.step = "controller"
    BY <1>a
  <2> QED
    BY <1>a, <1>b, <1>m, <2>1 DEF IInv, LiveOnly
<1>3. CountedWhileReliable'
  BY <1>a, <1>m DEF IInv, CountedWhileReliable, ControllersExact
<1>4. ASSUME orderly' PROVE Orderly'
  <2>a. orderly /\ (unloading \/ IsLast(c)) /\ Orderly /\ ControllersExact
    BY <1>a, <1>4 DEF IInv, CountedWhileReliable
  <2>1. Entries'
    <3>1. Entries
      BY <2>a DEF Orderly
    <3>2. \A i \in Slots : list[i] \in Controllers => priv'[list[i]].IfNum = priv[list[i]].IfNum
      BY <1>e
    <3>3. Managed \subseteq Controllers
      BY DEF Managed
    <3> QED
      BY <1>a, <1>b, <1>e, <1>m, <3>1, <3>2, <3>3 DEF Entries
  <2>2. ChildrenCounted'
    <3>1. Children \subseteq Controllers
      BY DEF Children
    <3>2. Cardinality(Children') = mActiveChildren - 1 /\ mActiveChildren > 0
      BY <1>m, <2>a, <3>1, Counting DEF Orderly, ChildrenCounted
    <3>3. mActiveChildren - 1 \in 0 .. MAX_NIC_INTERFACES * MAX_NIC_INTERFACES - 1
      BY <1>c, <3>2, Sizes
    <3> QED
      BY <1>a, <1>c, <3>2, <3>3, UINT16Facts DEF ChildrenCounted
  <2>3. ASSUME ~unloading PROVE Compact'
    <3>1. /\ \A i \in Slots : i < mActiveControllers => list[i] \in Controllers
          /\ \A x \in Managed : priv[x].IfNum < mActiveControllers
          /\ \A i \in Slots : list[i] \in Controllers => i = priv[list[i]].IfNum
      BY <1>b, <2>3, <2>a DEF Orderly, Compact, Entries
    <3>2. \A x \in Managed : priv'[x].IfNum = priv[x].IfNum
      BY <1>e DEF Managed
    <3>3. mActiveControllers - 1 \in Slots
      <4>1. Managed \subseteq Controllers
        BY DEF Managed
      <4>2. mActiveControllers > 0
        BY <1>m, <2>a, <4>1, Counting DEF ControllersExact
      <4> QED
        BY <1>t, <4>2, Sizes DEF TypeOK, Slots
    <3>4. list[mActiveControllers - 1] = c
      BY <2>3, <2>a, <3>3, UINT8Facts DEF IsLast, Slots
    <3>5. priv[c].IfNum = mActiveControllers - 1
      BY <3>1, <3>3, <3>4
    <3> QED
      BY <1>a, <1>b, <1>m, <3>1, <3>2, <3>5 DEF Compact
  <2> QED
    BY <1>a, <1>b, <2>1, <2>2, <2>3, <2>a DEF Orderly
<1> QED
  BY <1>1, <1>2, <1>3, <1>4 DEF IInv

LEMMA StopControllerIInv ==
  ASSUME IInv, NEW c \in Controllers, StopController(c)
  PROVE  IInv'
<1>t. TypeOK
  BY DEF IInv
<1>a. /\ \/ stop = Still /\ priv[c].live /\ ~priv[c].child
         \/ stop = [step |-> "controller", c |-> c]
      /\ stop' = [step |-> "attributes", c |-> c]
      /\ orderly' = (orderly /\ (unloading \/ IsLast(c)))
      /\ nii' = nii \ {c} /\ rings' = rings \ {c}
      /\ mIntelgbeUndi32DeviceList' = [list EXCEPT ![priv[c].IfNum] = NULL]
      /\ UNCHANGED <<mActiveControllers, mActiveChildren, IFcnt, priv, pciOpen, dma,
                     loaded, unloading, left, fault>>
  BY DEF StopController, MayStop, InOrder, image, counters
<1>b. Delisted = {} /\ Stopping' = {c} /\ Delisted' = {c}
      /\ (stop = [step |-> "controller", c |-> c] => Stopping = {c})
  <2>1. stop' # Still /\ stop'.c = c /\ stop'.step = "attributes"
    BY <1>a DEF Still
  <2>2. Stopping' = {c} /\ Delisted' = {c}
    BY <2>1 DEF Stopping, Delisted
  <2> QED
    BY <1>a, <2>2, StopFacts
<1>c. c \in Managed /\ priv[c].IfNum \in Slots
  <2>1. CASE stop = Still
    BY <1>t, <1>a, <2>1 DEF Managed, TypeOK, Still
  <2>2. CASE stop = [step |-> "controller", c |-> c]
    BY <1>t, <1>b, <2>2 DEF Managed, TypeOK, IInv, LiveOnly
  <2> QED
    BY <1>a, <2>1, <2>2
<1>m. Managed' = Managed /\ Children' = Children
  BY <1>a DEF Managed, Children
<1>l. /\ list' \in [Slots -> Controllers \cup {NULL, Stale}]
      /\ list'[priv[c].IfNum] = NULL
      /\ \A i \in Slots : i # priv[c].IfNum => list'[i] = list[i]
  BY <1>t, <1>a, <1>c DEF TypeOK
<1>n. NULL \notin Controllers
  BY BindingAssumption
<1>1. TypeOK'
  <2>1. stop' \in [step : {"none", "controller", "attributes"}, c : Controllers \cup {NULL}]
    BY <1>a
  <2> QED
    BY <1>t, <1>a, <1>l, <2>1 DEF TypeOK
<1>2. LiveOnly'
  <2>1. stop'.step = "attributes"
    BY <1>a
  <2>2. \A i \in Slots : list'[i] \in Controllers => list'[i] \in Managed'
    BY <1>l, <1>m, <1>n DEF IInv, LiveOnly
  <2> QED
    BY <1>a, <1>b, <1>c, <1>m, <2>1, <2>2 DEF IInv, LiveOnly
<1>3. CountedWhileReliable'
  BY <1>a, <1>m DEF IInv, CountedWhileReliable, ControllersExact
<1>4. ASSUME orderly' PROVE Orderly'
  <2>a. orderly /\ (unloading \/ IsLast(c)) /\ Orderly
    BY <1>a, <1>4 DEF IInv
  <2>b. stop = [step |-> "controller", c |-> c] /\ Stopping = {c}
    <3>1. ASSUME stop = Still PROVE FALSE
      <4>1. Children = Managed
        BY <2>a, <3>1, StopFacts DEF Orderly, Entries
      <4> QED
        BY <1>a, <1>c, <3>1, <4>1 DEF Children, Still
    <3> QED
      BY <1>a, <1>b, <3>1
  <2>c. /\ nii = Managed /\ Children = Managed \ {c} /\ ~fault
        /\ \A x \in Managed : /\ priv[x].IsChildInitialized
                              /\ list[priv[x].IfNum] = x /\ priv[x].IfNum <= IFcnt
        /\ \A i \in Slots : list[i] \in Controllers =>
             list[i] \in Managed /\ i = priv[list[i]].IfNum
        /\ dma \subseteq rings \ {c} /\ ChildrenCounted
    BY <1>b, <2>a, <2>b DEF Orderly, Entries
  <2>d. \A x \in Managed : priv[x].IfNum \in Slots /\ (x # c => priv[x].IfNum # priv[c].IfNum)
    BY <1>t, <1>c, <2>c DEF Managed, TypeOK
  <2>1. Entries'
    <3>1. ASSUME NEW x \in Managed \ {c} PROVE list'[priv[x].IfNum] = x
      BY <1>l, <2>c, <2>d
    <3>2. ASSUME NEW i \in Slots, list'[i] \in Controllers
          PROVE  list'[i] \in Managed \ {c} /\ i = priv[list'[i]].IfNum
      <4>1. i # priv[c].IfNum
        BY <1>l, <1>n, <3>2
      <4>2. list'[i] = list[i]
        BY <1>l, <4>1
      <4> QED
        BY <2>c, <3>2, <4>1, <4>2
    <3> QED
      BY <1>a, <1>b, <1>m, <2>c, <3>1, <3>2 DEF Entries
  <2>2. ASSUME ~unloading PROVE Compact'
    <3>1. /\ \A i \in Slots : i < mActiveControllers => list[i] \in Controllers
          /\ \A x \in Managed : priv[x].IfNum < mActiveControllers
          /\ priv[c].IfNum = mActiveControllers - 1
      BY <1>b, <2>2, <2>a, <2>b DEF Orderly, Compact
    <3>2. mActiveControllers \in Nat /\ \A i \in Slots : i \in Nat
      BY <1>t DEF TypeOK, Slots
    <3>3. ASSUME NEW i \in Slots, i < mActiveControllers - 1 PROVE list'[i] \in Controllers
      BY <1>l, <3>1, <3>2, <3>3
    <3>4. ASSUME NEW x \in Managed \ {c} PROVE priv[x].IfNum < mActiveControllers - 1
      BY <2>d, <3>1, <3>2
    <3> QED
      BY <1>a, <1>b, <1>m, <3>1, <3>3, <3>4 DEF Compact
  <2>3. ChildrenCounted'
    BY <1>a, <1>m, <2>c DEF ChildrenCounted
  <2> QED
    BY <1>a, <1>b, <2>1, <2>2, <2>3, <2>a, <2>c DEF Orderly
<1> QED
  BY <1>1, <1>2, <1>3, <1>4 DEF IInv

LEMMA StopControllerEndIInv ==
  ASSUME IInv, NEW c \in Controllers, StopControllerEnd(c)
  PROVE  IInv'
<1>t. TypeOK
  BY DEF IInv
<1>a. /\ stop = [step |-> "attributes", c |-> c] /\ stop' = Still
      /\ dma' = dma \ {c} /\ pciOpen' = pciOpen \ {c}
      /\ priv' = [priv EXCEPT ![c] = NoPriv]
      /\ mIntelgbeUndi32DeviceList' = Freed(list, c)
      /\ mActiveControllers' = UINT8(mActiveControllers - 1)
      /\ UNCHANGED <<mActiveChildren, IFcnt, nii, rings, loaded, unloading, left, fault, orderly>>
  BY DEF StopControllerEnd, image
<1>b. Stopping = {c} /\ Delisted = {c} /\ Stopping' = {} /\ Delisted' = {}
  <2>1. stop'.step = "none"
    BY <1>a DEF Still
  <2> QED
    BY <1>a, <2>1, StopFacts DEF Stopping, Delisted
<1>c. c \in Managed
  BY <1>b DEF IInv, LiveOnly
<1>e. /\ priv' \in [Controllers -> Privates]
      /\ ~priv'[c].live /\ ~priv'[c].child
      /\ \A x \in Controllers \ {c} : priv'[x] = priv[x]
  <2>0. priv \in [Controllers -> Privates] /\ NoPriv \in Privates
    BY <1>t, ZeroSlot DEF TypeOK, Privates, NoPriv
  <2>1. ~NoPriv.live /\ ~NoPriv.child
    BY DEF NoPriv
  <2> QED
    BY <1>a, <2>0, <2>1
<1>m. Managed' = Managed \ {c} /\ Children' = Children \ {c}
  BY <1>e DEF Managed, Children
<1>l. /\ list' \in [Slots -> Controllers \cup {NULL, Stale}]
      /\ \A i \in Slots : IF list[i] = c THEN list'[i] = Stale ELSE list'[i] = list[i]
  BY <1>t, <1>a DEF TypeOK, Freed
<1>n. Stale \notin Controllers
  BY BindingAssumption
<1>d. mActiveControllers - 1 \in Int /\ mActiveControllers' \in Slots
  <2>1. mActiveControllers - 1 \in Int
    BY <1>t DEF TypeOK, Slots
  <2> QED
    BY <1>a, <2>1, UINT8Facts
<1>1. TypeOK'
  <2>1. stop' \in [step : {"none", "controller", "attributes"}, c : Controllers \cup {NULL}]
    BY <1>a DEF Still
  <2> QED
    BY <1>t, <1>a, <1>d, <1>e, <1>l, <2>1 DEF TypeOK, Privates
<1>2. LiveOnly'
  <2>1. \A i \in Slots : list'[i] \in Controllers => list'[i] \in Managed'
    BY <1>l, <1>m, <1>n DEF IInv, LiveOnly
  <2> QED
    BY <1>a, <1>b, <1>m, <2>1 DEF IInv, LiveOnly
<1>f. ASSUME ControllersExact
      PROVE  mActiveControllers' = mActiveControllers - 1
             /\ Cardinality(Managed') = mActiveControllers - 1
  <2>1. Managed \subseteq Controllers
    BY DEF Managed
  <2>2. Cardinality(Managed') = Cardinality(Managed) - 1 /\ Cardinality(Managed) > 0
        /\ Cardinality(Managed) \in Nat /\ Cardinality(Managed) <= Cardinality(Controllers)
    BY <1>c, <1>m, <2>1, Counting
  <2>3. mActiveControllers - 1 \in Slots
    BY <1>f, <2>2, Sizes DEF ControllersExact, Slots
  <2> QED
    BY <1>a, <1>d, <1>f, <2>2, <2>3, UINT8Facts DEF ControllersExact
<1>3. CountedWhileReliable'
  BY <1>a, <1>f DEF IInv, CountedWhileReliable, ControllersExact
<1>4. ASSUME orderly' PROVE Orderly'
  <2>a. orderly /\ Orderly /\ ControllersExact
    BY <1>a, <1>4 DEF IInv, CountedWhileReliable
  <2>c. /\ nii = Managed \ {c} /\ Children = Managed \ {c} /\ ~fault
        /\ \A x \in Managed : priv[x].IsChildInitialized
        /\ \A x \in Managed \ {c} : list[priv[x].IfNum] = x /\ priv[x].IfNum <= IFcnt
        /\ \A i \in Slots : list[i] \in Controllers =>
             list[i] \in Managed \ {c} /\ i = priv[list[i]].IfNum
        /\ dma \subseteq rings \ {c} /\ ChildrenCounted
    BY <1>b, <2>a DEF Orderly, Entries
  <2>d. \A i \in Slots : list'[i] = list[i]
    BY <1>l, <2>c
  <2>e. \A x \in Managed \ {c} : priv'[x] = priv[x] /\ priv[x].IfNum \in Slots
    BY <1>t, <1>e DEF Managed, TypeOK
  <2>f. Children' = Managed' /\ Children' = Children
    BY <1>m, <2>c
  <2>1. Entries'
    BY <1>a, <1>b, <1>m, <2>c, <2>d, <2>e, <2>f DEF Entries
  <2>2. ASSUME ~unloading PROVE Compact'
    <3>1. /\ \A i \in Slots : i < mActiveControllers - 1 => list[i] \in Controllers
          /\ \A x \in Managed \ {c} : priv[x].IfNum < mActiveControllers - 1
      BY <1>b, <2>2, <2>a DEF Orderly, Compact
    <3> QED
      BY <1>b, <1>f, <1>m, <2>a, <2>d, <2>e, <3>1 DEF Compact
  <2>3. ChildrenCounted'
    BY <1>a, <2>c, <2>f DEF ChildrenCounted
  <2> QED
    BY <1>a, <1>b, <2>1, <2>2, <2>3, <2>a, <2>c DEF Orderly
<1> QED
  BY <1>1, <1>2, <1>3, <1>4 DEF IInv
(* Steps that change no record, list or count.                             *)
LEMMA UnorderlyIInv ==
  ASSUME IInv, UNCHANGED <<mActiveControllers, mActiveChildren, IFcnt, mIntelgbeUndi32DeviceList,
                           priv, pciOpen, nii, rings>>,
         dma' \subseteq Controllers,
         stop' \in {stop, Still}, left' \subseteq Controllers,
         loaded' \in BOOLEAN, unloading' \in BOOLEAN, fault' \in BOOLEAN, orderly' \in BOOLEAN,
         orderly' => orderly /\ Orderly'
  PROVE  IInv'
<1>1. Managed' = Managed /\ Children' = Children
  BY DEF Managed, Children
<1>2. Stopping' \subseteq Stopping /\ (stop'.step = "none" => stop' = Still)
  BY DEF Stopping, IInv, LiveOnly
<1>3. TypeOK'
  BY DEF IInv, TypeOK, Still
<1>4. LiveOnly'
  BY <1>1, <1>2 DEF IInv, LiveOnly
<1>5. CountedWhileReliable'
  BY <1>1 DEF IInv, CountedWhileReliable, ControllersExact
<1> QED
  BY <1>3, <1>4, <1>5 DEF IInv

(* The lookup and a stop read freed private data only when something was   *)
(* not orderly.                                                            *)
LEMMA FaultIInv ==
  ASSUME IInv, NEW c \in Controllers, LookupFreed(c) \/ StopFreed(c)
  PROVE  IInv'
<1>1. ASSUME orderly PROVE FALSE
  <2>1. Orderly /\ stop = Still
    BY <1>1 DEF IInv, LookupFreed, StopFreed
  <2>2. Stopping = {} /\ Delisted = {}
    BY <2>1, StopFacts
  <2>3. CASE LookupFreed(c)
    <3>1. PICK i \in Scanned(c) : list[i] = Stale
      BY <2>3 DEF LookupFreed
    <3>2. ~unloading
      BY <2>3 DEF LookupFreed
    <3>3. list[i] \in Controllers
      BY <2>1, <2>2, <3>1, <3>2 DEF Scanned, Orderly, Compact
    <3> QED
      BY <3>1, <3>3, BindingAssumption
  <2>4. CASE StopFreed(c)
    BY <2>1, <2>2, <2>4 DEF StopFreed, Orderly, Entries, Managed
  <2> QED
    BY <2>3, <2>4
<1>2. /\ UNCHANGED <<mActiveControllers, mActiveChildren, IFcnt, mIntelgbeUndi32DeviceList,
                     priv, pciOpen, nii, rings, dma, stop, loaded, unloading, left, orderly>>
      /\ fault' = TRUE
  BY DEF LookupFreed, StopFreed, counters, image
<1> QED
  BY <1>1, <1>2, UnorderlyIInv DEF IInv, TypeOK

LEMMA StopFailedIInv ==
  ASSUME IInv, NEW c \in Controllers, StopFailed(c)
  PROVE  IInv'
<1>1. /\ UNCHANGED <<mActiveControllers, mActiveChildren, IFcnt, mIntelgbeUndi32DeviceList,
                     priv, pciOpen, nii, rings, loaded, unloading, fault>>
      /\ dma' \in {dma, dma \ {c}}
      /\ stop' = Still /\ left' = left \ {c} /\ orderly' = FALSE
  BY DEF StopFailed, counters
<1> QED
  BY <1>1, UnorderlyIInv DEF IInv, TypeOK

LEMMA UnloadIInv ==
  ASSUME IInv, Unload
  PROVE  IInv'
<1>1. /\ UNCHANGED <<mActiveControllers, mActiveChildren, IFcnt, mIntelgbeUndi32DeviceList,
                     priv, pciOpen, nii, rings, dma, stop, loaded, fault, orderly>>
      /\ unloading' = TRUE /\ left' = Controllers /\ loaded
  BY DEF Unload, counters
<1>2. /\ Managed' = Managed /\ Children' = Children
      /\ Stopping' = Stopping /\ Delisted' = Delisted
  BY <1>1 DEF Managed, Children, Stopping, Delisted
<1>3. ASSUME Orderly PROVE Orderly'
  <2>1. Entries'
    BY <1>1, <1>2, <1>3 DEF Orderly, Entries
  <2>2. ChildrenCounted'
    BY <1>1, <1>2, <1>3 DEF Orderly, ChildrenCounted
  <2> QED
    BY <1>1, <1>2, <1>3, <2>1, <2>2 DEF Orderly
<1>4. orderly' => orderly /\ Orderly'
  BY <1>1, <1>3 DEF IInv
<1> QED
  BY <1>1, <1>4, UnorderlyIInv DEF IInv, TypeOK

(* An orderly unload leaves no controller managed.                         *)
LEMMA UnloadEndIInv ==
  ASSUME IInv, UnloadEnd
  PROVE  IInv'
<1>1. /\ UNCHANGED <<mActiveControllers, mActiveChildren, IFcnt, mIntelgbeUndi32DeviceList,
                     priv, pciOpen, nii, rings, dma, stop, fault, orderly>>
      /\ unloading /\ unloading' = FALSE /\ left' = {} /\ loaded' \in BOOLEAN
      /\ stop = Still /\ \A c \in Controllers : ~MayStop(c)
  BY DEF UnloadEnd, counters
<1>2. /\ Managed' = Managed /\ Children' = Children
      /\ Stopping = {} /\ Delisted = {} /\ Stopping' = {} /\ Delisted' = {}
  <2>1. Stopping = {} /\ Delisted = {}
    BY <1>1, StopFacts
  <2> QED
    BY <1>1, <2>1 DEF Managed, Children, Stopping, Delisted
<1>3. ASSUME orderly PROVE Orderly'
  <2>a. Orderly /\ ControllersExact
    BY <1>3 DEF IInv, CountedWhileReliable
  <2>b. Managed = {}
    <3> SUFFICES ASSUME NEW c \in Managed PROVE FALSE
      OBVIOUS
    <3>1. c \in Controllers /\ priv[c].live /\ c \in pciOpen
      BY DEF Managed, IInv, LiveOnly
    <3>2. c \in nii /\ loaded /\ ~fault /\ c \in left
      BY <1>1, <1>2, <2>a, <3>1 DEF Orderly, Entries
    <3> QED
      BY <1>1, <3>1, <3>2 DEF MayStop
  <2>c. mActiveControllers = 0
    BY <2>a, <2>b, FS_EmptySet DEF ControllersExact
  <2>1. Entries'
    BY <1>1, <1>2, <2>a DEF Orderly, Entries
  <2>2. ChildrenCounted'
    BY <1>1, <1>2, <2>a DEF Orderly, ChildrenCounted
  <2>3. Compact'
    BY <1>1, <1>2, <2>b, <2>c DEF Compact, Slots
  <2> QED
    BY <1>1, <1>2, <2>a, <2>1, <2>2, <2>3 DEF Orderly
<1> QED
  BY <1>1, <1>3, UnorderlyIInv DEF IInv, TypeOK

LEMMA StutterIInv ==
  ASSUME IInv, UNCHANGED vars
  PROVE  IInv'
<1>1. /\ UNCHANGED <<mActiveControllers, mActiveChildren, IFcnt, mIntelgbeUndi32DeviceList,
                     priv, pciOpen, nii, rings, dma, stop, loaded, unloading, left, fault, orderly>>
  BY DEF vars, counters, image
<1>2. /\ Managed' = Managed /\ Children' = Children
      /\ Stopping' = Stopping /\ Delisted' = Delisted
  BY <1>1 DEF Managed, Children, Stopping, Delisted
<1>3. ASSUME Orderly PROVE Orderly'
  <2>1. Entries'
    BY <1>1, <1>2, <1>3 DEF Orderly, Entries
  <2>2. ChildrenCounted'
    BY <1>1, <1>2, <1>3 DEF Orderly, ChildrenCounted
  <2>3. ~unloading => Compact'
    BY <1>1, <1>2, <1>3 DEF Orderly, Compact
  <2> QED
    BY <1>1, <1>2, <1>3, <2>1, <2>2, <2>3 DEF Orderly
<1> QED
  BY <1>1, <1>3, UnorderlyIInv DEF IInv, TypeOK

LEMMA NextIInv == IInv /\ [Next]_vars => IInv'
<1> SUFFICES ASSUME IInv, [Next]_vars PROVE IInv'
  OBVIOUS
<1>1. ASSUME NEW c \in Controllers, Start(c) PROVE IInv'
  <2>1. PICK path \in {"child", "end"} :
          StartDone(c, path) \/ \E at \in StartSteps : StartFailed(c, path, at)
    BY <1>1, BindingAssumption DEF Start
  <2> QED
    BY <2>1, StartDoneIInv, StartFailedIInv
<1>2. ASSUME NEW c \in Controllers, LookupFreed(c) \/ StopFailed(c) \/ StopFreed(c) PROVE IInv'
  BY <1>2, FaultIInv, StopFailedIInv
<1>3. CASE StopStep
  BY <1>3, StopChildIInv, StopControllerIInv, StopControllerEndIInv DEF StopStep
<1>4. CASE Unload \/ UnloadEnd
  BY <1>4, UnloadIInv, UnloadEndIInv
<1>5. CASE UNCHANGED vars
  BY <1>5, StutterIInv
<1> QED
  BY <1>1, <1>2, <1>3, <1>4, <1>5 DEF Next

-----------------------------------------------------------------------------
(* The theorems.                                                           *)

(* The inductive invariant holds always.                                   *)
THEOREM IInvariance == Spec => []IInv
<1>1. Init => IInv
  BY InitIInv
<1>2. IInv /\ [Next]_vars => IInv'
  BY NextIInv
<1> QED
  BY <1>1, <1>2, PTL DEF Spec

(* mActiveControllers counts the managed controllers whatever else fails,  *)
(* as long as the private data of a Start can be allocated.                *)
THEOREM ControllersExactHolds == "PrivateData" \notin FailAt => (Spec => []ControllersExact)
<1> SUFFICES ASSUME "PrivateData" \notin FailAt PROVE Spec => []ControllersExact
  OBVIOUS
<1>1. IInv => ControllersExact
  BY DEF IInv, CountedWhileReliable
<1> QED
  BY <1>1, IInvariance, PTL

(* mActiveChildren counts the children as long as all is orderly.          *)
THEOREM ChildrenExactHolds == Spec => []ChildrenExact
<1>1. IInv => ChildrenExact
  BY DEF IInv, Orderly, ChildrenExact
<1> QED
  BY <1>1, IInvariance, PTL

(* The interface number of a child leads to its own adapter as long as all *)
(* is orderly, and during an unload in any order.                          *)
THEOREM NiiReachesOwnAdapterHolds == Spec => []NiiReachesOwnAdapter
<1>1. IInv => NiiReachesOwnAdapter
  <2> SUFFICES ASSUME IInv, orderly, NEW c \in Children
               PROVE  priv[c].IfNum <= IFcnt /\ list[priv[c].IfNum] = c
    BY DEF NiiReachesOwnAdapter, NiiReachesAdapter
  <2>1. Entries
    BY DEF IInv, Orderly
  <2>2. Delisted \subseteq Stopping
    BY DEF Delisted, Stopping, Still
  <2> QED
    BY <2>1, <2>2 DEF Entries
<1> QED
  BY <1>1, IInvariance, PTL

(* GetControllerPrivateData finds every managed controller and never reads *)
(* freed private data as long as all is orderly.                           *)
THEOREM LookupExactHolds == Spec => []LookupExact
<1>1. IInv => LookupExact
  <2> SUFFICES ASSUME IInv, orderly PROVE ControllerFound /\ NoFreedLookup
    BY DEF LookupExact
  <2>1. ASSUME ~unloading, stop = Still, NEW c \in Managed PROVE Found(c)
    <3>1. Delisted = {} /\ Stopping = {} /\ Entries /\ Compact
      BY <2>1, StopFacts DEF IInv, Orderly
    <3>2. priv[c].IfNum \in Slots /\ c \in Controllers
      BY DEF IInv, TypeOK, Managed
    <3>3. list[priv[c].IfNum] = c /\ priv[c].IfNum < mActiveControllers
      BY <3>1 DEF Entries, Compact
    <3>4. ASSUME NEW j \in 0 .. priv[c].IfNum - 1 PROVE list[j] # c
      <4>1. j \in Slots /\ j # priv[c].IfNum
        BY <3>2, Sizes DEF Slots
      <4> QED
        BY <3>1, <3>2, <4>1 DEF Entries
    <3> QED
      BY <3>2, <3>3, <3>4 DEF Found, Scanned
  <2>2. ~fault
    BY DEF IInv, Orderly
  <2> QED
    BY <2>1, <2>2 DEF ControllerFound, NoFreedLookup
<1> QED
  BY <1>1, IInvariance, PTL

(* DMA memory is not freed under running channels as long as all is        *)
(* orderly.                                                                *)
THEOREM RingsOutliveDmaHolds == Spec => []RingsOutliveDma
<1>1. IInv => RingsOutliveDma
  BY DEF IInv, Orderly, RingsOutliveDma, RingsHeld
<1> QED
  BY <1>1, IInvariance, PTL
=============================================================================
