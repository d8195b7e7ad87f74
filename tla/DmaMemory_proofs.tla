-------------------------- MODULE DmaMemory_proofs --------------------------
(***************************************************************************)
(* The DMA memory of an adapter, for every page size, every size of the    *)
(* rings and buffers and however much memory PciIo has to give.            *)
(***************************************************************************)
EXTENDS DmaMemory, TLAPS

-----------------------------------------------------------------------------
(* EFI_SIZE_TO_PAGES.                                                      *)

(* A size is so many whole pages and less than a page more.                *)
LEMMA PageDivision ==
  ASSUME NEW x \in Nat
  PROVE  \E q \in Nat, r \in 0 .. PAGE_SIZE - 1 :
           x = PAGE_SIZE * q + r /\ BytesToPages(x) = q + (IF r = 0 THEN 0 ELSE 1)
<1>1. x \in Int /\ PAGE_SIZE \in Int /\ PAGE_SIZE > 0
  BY DmaAssumption
<1> DEFINE q == x \div PAGE_SIZE
           r == x % PAGE_SIZE
<1>2. r = x - PAGE_SIZE * q
  BY <1>1
<1>3. q \in Nat /\ r \in 0 .. PAGE_SIZE - 1
  BY <1>1
<1>4. BytesToPages(x) = q + (IF r = 0 THEN 0 ELSE 1)
  BY DEF BytesToPages
<1> HIDE DEF q, r
<1>5. x = PAGE_SIZE * q + r
  BY <1>1, <1>2, <1>3
<1> QED
  BY <1>3, <1>4, <1>5

(* The pages of a size cover it, and only nothing takes none.              *)
LEMMA PagesCover ==
  ASSUME NEW x \in Nat
  PROVE  /\ BytesToPages(x) \in Nat
         /\ x <= BytesToPages(x) * PAGE_SIZE
         /\ x > 0 => BytesToPages(x) > 0
         /\ x = 0 => BytesToPages(x) = 0
<1>0. PAGE_SIZE \in Nat /\ PAGE_SIZE > 0
  BY DmaAssumption
<1>1. PICK q \in Nat, r \in 0 .. PAGE_SIZE - 1 :
        x = PAGE_SIZE * q + r /\ BytesToPages(x) = q + (IF r = 0 THEN 0 ELSE 1)
  BY PageDivision
<1>3. x <= BytesToPages(x) * PAGE_SIZE
  <2>1. (q + 1) * PAGE_SIZE = PAGE_SIZE * q + PAGE_SIZE /\ q * PAGE_SIZE = PAGE_SIZE * q
    BY <1>0
  <2> QED
    BY <1>0, <1>1, <2>1
<1>4. x = 0 => q = 0 /\ r = 0
  BY <1>0, <1>1
<1>5. x > 0 => q > 0 \/ r > 0
  BY <1>0, <1>1
<1> QED
  BY <1>0, <1>1, <1>3, <1>4, <1>5

(* A smaller size takes no more pages.                                     *)
LEMMA PagesMonotone ==
  ASSUME NEW x \in Nat, NEW y \in Nat, x <= y
  PROVE  BytesToPages(x) <= BytesToPages(y)
<1>0. PAGE_SIZE \in Nat /\ PAGE_SIZE > 0
  BY DmaAssumption
<1>1. PICK q \in Nat, r \in 0 .. PAGE_SIZE - 1 :
        x = PAGE_SIZE * q + r /\ BytesToPages(x) = q + (IF r = 0 THEN 0 ELSE 1)
  BY PageDivision
<1>2. PICK p \in Nat, s \in 0 .. PAGE_SIZE - 1 :
        y = PAGE_SIZE * p + s /\ BytesToPages(y) = p + (IF s = 0 THEN 0 ELSE 1)
  BY PageDivision
<1>3. q <= p
  <2> SUFFICES ASSUME q >= p + 1 PROVE FALSE
    OBVIOUS
  <2>1. PAGE_SIZE * q >= PAGE_SIZE * (p + 1)
    BY <1>0
  <2>2. PAGE_SIZE * (p + 1) = PAGE_SIZE * p + PAGE_SIZE
    BY <1>0
  <2> QED
    BY <1>0, <1>1, <1>2, <2>1, <2>2
<1>4. q = p => r <= s
  BY <1>0, <1>1, <1>2
<1> QED
  BY <1>0, <1>1, <1>2, <1>3, <1>4

-----------------------------------------------------------------------------
(* The three buffers and the order they are allocated and freed in.        *)
LEMMA OrderFacts ==
  /\ Len(Order) = 3
  /\ \A i \in 1 .. 3 : Order[i] \in Buffers
  /\ \A i, j \in 1 .. 3 : Order[i] = Order[j] => i = j
  /\ \A b \in Buffers : \E i \in 1 .. 3 : Order[i] = b
<1>1. Len(Order) = 3 /\ Order[1] = "TxRing" /\ Order[2] = "RxRing" /\ Order[3] = "RxBufferMapping"
  BY DEF Order
<1>2. 1 .. 3 = {1, 2, 3}
  OBVIOUS
<1> QED
  BY <1>1, <1>2 DEF Buffers

LEMMA RequestedFacts ==
  /\ \A b \in Buffers : Requested[b] \in Nat /\ Requested[b] > 0
  /\ \A size \in Sizes : size \in Nat /\ size > 0
<1>1. \A b \in Buffers : Requested[b] \in {TX_RING_SIZE, RX_RING_SIZE, RX_BUFFERS_SIZE}
  BY DEF Requested, Buffers
<1>2. \A b \in Buffers : Requested[b] \in Nat /\ Requested[b] > 0
  BY <1>1, DmaAssumption
<1>3. ASSUME NEW size \in Sizes PROVE size \in Nat /\ size > 0
  <2>1. PICK b \in Buffers : size \in 1 .. Requested[b] - 1
    BY DEF Sizes
  <2> QED
    BY <1>2, <2>1
<1> QED
  BY <1>2, <1>3

-----------------------------------------------------------------------------
(* One lemma per action: it preserves the inductive invariant.             *)

Records == [UnmappedAddress : Addresses \cup {NULL}, PhysicalAddress : Addresses \cup {NULL},
            Size : Nat, Mapping : Handles \cup {NULL}]

LEMMA ZeroFacts ==
  /\ Zero \in Records
  /\ Zero.UnmappedAddress = NULL /\ Zero.Size = 0 /\ Zero.Mapping = NULL
  /\ NoMemory \in [Buffers -> Records]
  /\ \A b \in Buffers : NoMemory[b] = Zero
BY DEF Zero, NoMemory, Records

LEMMA InitIInv == Init => IInv
<1> SUFFICES ASSUME Init PROVE IInv
  OBVIOUS
<1>1. TypeOK
  <2>1. NicInfo \in [Buffers -> Records]
    BY ZeroFacts DEF Init
  <2>2. bus \in [Handles -> [addr : Addresses \cup {NULL}, size : Nat]]
    BY DEF Init, Unmapped
  <2>3. heap \in [Addresses -> Nat]
    BY DEF Init
  <2>4. next \in 1 .. Len(Order) + 1
    BY OrderFacts DEF Init
  <2> QED
    BY <2>1, <2>2, <2>3, <2>4 DEF Init, TypeOK, Records
<1>2. RecordsHeld
  BY ZeroFacts DEF Init, RecordsHeld, Filled
<1>3. NoWildFree /\ Progress /\ MappingsApart /\ NothingLost /\ AttributesKept
  BY DEF Init, NoWildFree, Progress, MappingsApart, NothingLost, AttributesKept
<1> QED
  BY <1>1, <1>2, <1>3 DEF IInv

(* Steps that touch neither the records nor the memory.                    *)
LEMMA QuietIInv ==
  ASSUME IInv, EnableAttributes \/ AttributesFail \/ StopController \/ UNCHANGED vars
  PROVE  IInv'
<1>g. UNCHANGED <<NicInfo, heap, bus, wild>> /\ failed \subseteq failed'
      /\ failed' \subseteq failed \cup {"Attributes"}
  BY DEF EnableAttributes, AttributesFail, StopController, vars
<1>1. TypeOK'
  BY <1>g, OrderFacts
  DEF IInv, TypeOK, EnableAttributes, AttributesFail, StopController, vars, pci
<1>2. RecordsHeld'
  BY <1>g DEF IInv, RecordsHeld, Filled
<1>3. NoWildFree' /\ MappingsApart' /\ NothingLost'
  BY <1>g DEF IInv, NoWildFree, MappingsApart, NothingLost
<1>4. Progress'
  <2>1. CASE EnableAttributes
    BY <1>g, <2>1, OrderFacts, ZeroFacts DEF EnableAttributes, IInv, Progress
  <2>2. CASE AttributesFail
    BY <1>g, <2>2 DEF AttributesFail, IInv, Progress
  <2>3. CASE StopController
    BY <1>g, <2>3 DEF StopController, IInv, Progress
  <2>4. CASE UNCHANGED vars
    BY <2>4 DEF vars, IInv, Progress, Filled
  <2> QED
    BY <2>1, <2>2, <2>3, <2>4
<1>5. AttributesKept'
  BY <1>g DEF IInv, AttributesKept, EnableAttributes, AttributesFail, StopController, vars, pci
<1> QED
  BY <1>1, <1>2, <1>3, <1>4, <1>5 DEF IInv

(* The buffer at hand during allocation.                                   *)
LEMMA AtHand ==
  ASSUME IInv, phase = "alloc"
  PROVE  /\ next \in 1 .. 3 /\ Order[next] \in Buffers /\ NicInfo[Order[next]] = Zero
         /\ ~Filled(Order[next])
         /\ Requested[Order[next]] \in Nat /\ Requested[Order[next]] > 0
         /\ BytesToPages(Requested[Order[next]]) \in Nat
         /\ BytesToPages(Requested[Order[next]]) > 0
         /\ Requested[Order[next]] <= BytesToPages(Requested[Order[next]]) * PAGE_SIZE
<1>1. next \in 1 .. 3 /\ NicInfo[Order[next]] = Zero
  BY OrderFacts DEF IInv, TypeOK, Progress
<1>2. Order[next] \in Buffers
  BY <1>1, OrderFacts
<1>3. ~Filled(Order[next])
  BY <1>1, ZeroFacts DEF Filled
<1> QED
  BY <1>1, <1>2, <1>3, RequestedFacts, PagesCover

LEMMA AllocateDoneIInv ==
  ASSUME IInv, NEW a \in Addresses, NEW h \in Handles, AllocateDone(a, h)
  PROVE  IInv'
<1>o. phase = "alloc" /\ Order[next] \in Buffers
  BY AtHand DEF AllocateDone
<1>p. PICK b \in Buffers : b = Order[next]
  BY <1>o
<1> DEFINE new == [UnmappedAddress |-> a, PhysicalAddress |-> a,
                   Size |-> Requested[b], Mapping |-> h]
<1>t. TypeOK
  BY DEF IInv
<1>a. /\ phase = "alloc" /\ heap[a] = 0 /\ bus[h] = Unmapped
      /\ heap' = [heap EXCEPT ![a] = BytesToPages(Requested[b])]
      /\ bus' = [bus EXCEPT ![h] = [addr |-> a, size |-> Requested[b]]]
      /\ NicInfo' = [NicInfo EXCEPT ![b] = new]
      /\ UNCHANGED <<attributes, OriginalPciAttributes, failed, wild>>
  BY <1>p DEF AllocateDone, IsFree, Allocated, pci
<1>b. /\ next \in 1 .. 3 /\ b \in Buffers /\ NicInfo[b] = Zero /\ ~Filled(b)
      /\ Requested[b] \in Nat /\ Requested[b] > 0
      /\ BytesToPages(Requested[b]) \in Nat /\ BytesToPages(Requested[b]) > 0
      /\ Requested[b] <= BytesToPages(Requested[b]) * PAGE_SIZE
  BY <1>a, <1>p, AtHand
<1>c. \/ next = 3 /\ phase' = "ready" /\ next' = 1
      \/ next # 3 /\ phase' = "alloc" /\ next' = next + 1
  BY <1>a, OrderFacts DEF AllocateDone, ToNextBuffer
<1>n. a # NULL /\ h # NULL
  BY DmaAssumption
<1>d. /\ NicInfo'[b] = new /\ Filled(b)'
      /\ \A c \in Buffers \ {b} : NicInfo'[c] = NicInfo[c] /\ (Filled(c)' <=> Filled(c))
  <2>1. /\ NicInfo'[b] = new
        /\ \A c \in Buffers \ {b} : NicInfo'[c] = NicInfo[c]
    <3> HIDE DEF new
    <3> QED
      BY <1>t, <1>a, <1>b DEF TypeOK
  <2>2. NicInfo'[b].UnmappedAddress # NULL
    BY <1>n, <2>1
  <2> QED
    BY <2>1, <2>2 DEF Filled
<1>e. /\ heap'[a] = BytesToPages(Requested[b])
      /\ \A x \in Addresses \ {a} : heap'[x] = heap[x]
      /\ bus'[h] = [addr |-> a, size |-> Requested[b]]
      /\ \A g \in Handles \ {h} : bus'[g] = bus[g]
  BY <1>t, <1>a DEF TypeOK
<1>f. \A c \in Buffers \ {b} :
        Filled(c) => /\ NicInfo[c].UnmappedAddress \in Addresses \ {a}
                     /\ NicInfo[c].Mapping \in Handles \ {h}
  <2> SUFFICES ASSUME NEW c \in Buffers \ {b}, Filled(c)
               PROVE  /\ NicInfo[c].UnmappedAddress \in Addresses \ {a}
                      /\ NicInfo[c].Mapping \in Handles \ {h}
    OBVIOUS
  <2>1. NicInfo[c].UnmappedAddress \in Addresses
    BY <1>t DEF TypeOK, Filled
  <2>2. /\ NicInfo[c].Mapping \in Handles
        /\ heap[NicInfo[c].UnmappedAddress] = BytesToPages(Requested[c])
        /\ bus[NicInfo[c].Mapping] = [addr |-> NicInfo[c].UnmappedAddress, size |-> Requested[c]]
    BY DEF IInv, RecordsHeld
  <2>3. BytesToPages(Requested[c]) > 0
    BY RequestedFacts, PagesCover
  <2>4. bus[NicInfo[c].Mapping].addr # NULL
    BY <2>1, <2>2, DmaAssumption
  <2> QED
    BY <1>a, <2>1, <2>2, <2>3, <2>4 DEF Unmapped
<1>1. TypeOK'
  <2>1. NicInfo' \in [Buffers -> Records]
    BY <1>t, <1>a, <1>b DEF TypeOK, Records
  <2>2. heap' \in [Addresses -> Nat]
    BY <1>t, <1>a, <1>b DEF TypeOK
  <2>3. bus' \in [Handles -> [addr : Addresses \cup {NULL}, size : Nat]]
    BY <1>t, <1>a, <1>b DEF TypeOK
  <2>4. next' \in 1 .. Len(Order) + 1 /\ phase' \in {"alloc", "ready"}
    BY <1>b, <1>c, OrderFacts
  <2> QED
    BY <1>t, <1>a, <2>1, <2>2, <2>3, <2>4 DEF TypeOK, Records
<1>2. RecordsHeld'
  <2> SUFFICES ASSUME NEW c \in Buffers
               PROVE  LET m == NicInfo'[c]
                      IN IF Filled(c)'
                         THEN /\ m.PhysicalAddress = m.UnmappedAddress
                              /\ m.Size = Requested[c]
                              /\ m.Mapping \in Handles
                              /\ heap'[m.UnmappedAddress] = BytesToPages(Requested[c])
                              /\ bus'[m.Mapping] = [addr |-> m.UnmappedAddress, size |-> Requested[c]]
                              /\ \A d \in Buffers \ {c} :
                                   NicInfo'[d].UnmappedAddress # m.UnmappedAddress
                         ELSE m.Size = 0 /\ ("Unmap" \notin failed' => m = Zero)
    BY DEF RecordsHeld
  <2>1. CASE c = b
    BY <1>b, <1>d, <1>e, <1>f, <1>n, <2>1 DEF Filled
  <2>2. CASE c # b /\ ~Filled(c)
    BY <1>a, <1>d, <2>2 DEF IInv, RecordsHeld
  <2>3. CASE c # b /\ Filled(c)
    <3>1. NicInfo[c].UnmappedAddress # a
      BY <1>f, <2>3
    <3>2. \A d \in Buffers \ {c} : NicInfo'[d].UnmappedAddress # NicInfo[c].UnmappedAddress
      <4>1. \A d \in Buffers \ {c} : NicInfo[d].UnmappedAddress # NicInfo[c].UnmappedAddress
        BY <2>3 DEF IInv, RecordsHeld
      <4>2. NicInfo'[b].UnmappedAddress = a
        BY <1>d
      <4> QED
        BY <1>d, <3>1, <4>1, <4>2
    <3>3. /\ NicInfo[c].PhysicalAddress = NicInfo[c].UnmappedAddress
          /\ NicInfo[c].Size = Requested[c]
          /\ heap[NicInfo[c].UnmappedAddress] = BytesToPages(Requested[c])
          /\ bus[NicInfo[c].Mapping] = [addr |-> NicInfo[c].UnmappedAddress, size |-> Requested[c]]
      BY <2>3 DEF IInv, RecordsHeld
    <3> QED
      BY <1>d, <1>e, <1>f, <2>3, <3>2, <3>3
  <2> QED
    BY <2>1, <2>2, <2>3
<1>3. Progress'
  <2>1. \A i \in 1 .. 3 : i # next => Order[i] \in Buffers \ {b}
    BY <1>b, <1>p, OrderFacts
  <2>2. \A i \in 1 .. next : Filled(Order[i])'
    <3>1. \A i \in 1 .. next - 1 : Filled(Order[i])
      BY <1>a DEF IInv, Progress
    <3>2. \A i \in 1 .. next - 1 : i \in 1 .. 3 /\ i # next
      BY <1>b
    <3>3. ASSUME NEW i \in 1 .. next PROVE Filled(Order[i])'
      <4>1. CASE i = next
        BY <1>d, <1>p, <4>1
      <4>2. CASE i # next
        <5>1. i \in 1 .. next - 1
          BY <1>b, <4>2
        <5> QED
          BY <1>d, <2>1, <3>1, <3>2, <5>1
      <4> QED
        BY <4>1, <4>2
    <3> QED
      BY <3>3
  <2>3. CASE next = 3
    <3>1. \A c \in Buffers : Filled(c)'
      BY <2>2, <2>3, OrderFacts
    <3> QED
      BY <1>c, <2>3, <3>1 DEF Progress
  <2>4. CASE next # 3
    <3>1. \A i \in next + 1 .. 3 : NicInfo'[Order[i]] = Zero
      <4>1. \A i \in next .. 3 : NicInfo[Order[i]] = Zero
        BY <1>a, OrderFacts DEF IInv, Progress
      <4>2. \A i \in next + 1 .. 3 : i \in next .. 3 /\ i \in 1 .. 3 /\ i # next
        BY <1>b
      <4> QED
        BY <1>d, <2>1, <4>1, <4>2
    <3>2. next' = next + 1 /\ phase' = "alloc" /\ next' - 1 = next /\ next' <= 3
      BY <1>b, <1>c, <2>4
    <3> QED
      BY <2>2, <3>1, <3>2, OrderFacts DEF Progress
  <2> QED
    BY <2>3, <2>4
<1>4. MappingsApart'
  <2> SUFFICES ASSUME ~({"Partial", "Unmap"} \subseteq failed), NEW g \in Handles, bus'[g] # Unmapped
               PROVE  /\ bus'[g].addr \in Addresses
                      /\ heap'[bus'[g].addr] > 0
                      /\ bus'[g].size <= heap'[bus'[g].addr] * PAGE_SIZE
                      /\ \A f \in Handles \ {g} : bus'[f].addr # bus'[g].addr
    BY <1>a DEF MappingsApart
  <2>0. \A f \in Handles \ {h} : bus[f].addr # a
    BY <1>t, <1>a, DmaAssumption DEF IInv, MappingsApart, Unmapped
  <2>1. CASE g = h
    BY <1>b, <1>e, <2>0, <2>1
  <2>2. CASE g # h
    <3>1. /\ bus[g].addr \in Addresses /\ heap[bus[g].addr] > 0
          /\ bus[g].size <= heap[bus[g].addr] * PAGE_SIZE
          /\ \A f \in Handles \ {g} : bus[f].addr # bus[g].addr
      BY <1>e, <2>2 DEF IInv, MappingsApart
    <3> QED
      BY <1>e, <2>0, <2>2, <3>1
  <2> QED
    BY <2>1, <2>2
<1>5. NothingLost'
  <2> SUFFICES ASSUME failed \cap {"Partial", "Unmap", "Start"} = {}
               PROVE  /\ \A x \in Addresses : heap'[x] > 0 =>
                           \E c \in Buffers : NicInfo'[c].UnmappedAddress = x
                      /\ \A g \in Handles : bus'[g] # Unmapped =>
                           \E c \in Buffers : NicInfo'[c].Mapping = g
    BY <1>a DEF NothingLost
  <2>1. ASSUME NEW x \in Addresses, heap'[x] > 0
        PROVE  \E c \in Buffers : NicInfo'[c].UnmappedAddress = x
    <3>1. CASE x = a
      BY <1>b, <1>d, <3>1
    <3>2. CASE x # a
      <4>1. PICK c \in Buffers : NicInfo[c].UnmappedAddress = x
        BY <1>e, <2>1, <3>2 DEF IInv, NothingLost
      <4>2. c # b
        BY <1>b, <4>1, ZeroFacts, DmaAssumption
      <4> QED
        BY <1>d, <4>1, <4>2
    <3> QED
      BY <3>1, <3>2
  <2>2. ASSUME NEW g \in Handles, bus'[g] # Unmapped
        PROVE  \E c \in Buffers : NicInfo'[c].Mapping = g
    <3>1. CASE g = h
      BY <1>b, <1>d, <3>1
    <3>2. CASE g # h
      <4>1. PICK c \in Buffers : NicInfo[c].Mapping = g
        BY <1>e, <2>2, <3>2 DEF IInv, NothingLost
      <4>2. c # b
        BY <1>b, <4>1, ZeroFacts, DmaAssumption
      <4> QED
        BY <1>d, <4>1, <4>2
    <3> QED
      BY <3>1, <3>2
  <2> QED
    BY <2>1, <2>2
<1>6. NoWildFree' /\ AttributesKept'
  BY <1>a, <1>c DEF IInv, NoWildFree, AttributesKept
<1> QED
  BY <1>1, <1>2, <1>3, <1>4, <1>5, <1>6 DEF IInv

(* A failed allocation or mapping that has put everything back.            *)
LEMMA UnwindSameIInv ==
  ASSUME IInv, phase = "alloc", UNCHANGED <<heap, bus, wild>>,
         NEW kinds \in SUBSET {"Allocate", "Map", "Partial"}, ToUnwind(Zero, kinds)
  PROVE  IInv'
<1>t. TypeOK
  BY DEF IInv
<1>g. /\ NicInfo' = NicInfo /\ phase' = "unwind" /\ next' = 1
      /\ failed' = failed \cup kinds
      /\ UNCHANGED <<attributes, OriginalPciAttributes>>
  <2>1. NicInfo[Order[next]] = Zero /\ Order[next] \in Buffers
    BY AtHand
  <2>2. NicInfo' = [NicInfo EXCEPT ![Order[next]] = Zero]
    BY DEF ToUnwind
  <2>3. NicInfo' = NicInfo
    BY <1>t, <2>1, <2>2 DEF TypeOK
  <2> QED
    BY <2>3 DEF ToUnwind, pci
<1>1. TypeOK'
  BY <1>t, <1>g, OrderFacts DEF TypeOK
<1>2. RecordsHeld'
  BY <1>g DEF IInv, RecordsHeld, Filled
<1>3. NoWildFree' /\ MappingsApart' /\ NothingLost'
  BY <1>g DEF IInv, NoWildFree, MappingsApart, NothingLost
<1>4. Progress' /\ AttributesKept'
  BY <1>g DEF IInv, Progress, AttributesKept
<1> QED
  BY <1>1, <1>2, <1>3, <1>4 DEF IInv

LEMMA AllocateFailsIInv ==
  ASSUME IInv, AllocateFails
  PROVE  IInv'
<1>1. phase = "alloc" /\ bus' = bus /\ ToUnwind(Zero, {"Allocate"})
  BY DEF AllocateFails
<1>2. BytesToPages(0) = 0
  BY PagesCover
<1>3. NicInfo[Order[next]].UnmappedAddress \notin Addresses
  BY <1>1, AtHand, ZeroFacts, DmaAssumption
<1>4. heap' = heap /\ wild' = wild
  BY <1>2, <1>3 DEF AllocateFails, FreeBuffer, IInv, TypeOK
<1> QED
  BY <1>1, <1>4, UnwindSameIInv

LEMMA MapFailsIInv ==
  ASSUME IInv, NEW a \in Addresses, MapFails(a)
  PROVE  IInv'
<1> DEFINE pages == BytesToPages(Requested[Order[next]])
<1>1. phase = "alloc" /\ bus' = bus /\ ToUnwind(Zero, {"Map"}) /\ heap[a] = 0
  BY DEF MapFails
<1>2. pages \in Nat
  BY <1>1, AtHand
<1>3. FreeBuffer([heap EXCEPT ![a] = pages], a, Requested[Order[next]])
  BY DEF MapFails, Allocated
<1>4. heap' = heap /\ wild' = wild
  <2> DEFINE mem == [heap EXCEPT ![a] = pages]
  <2>1. mem[a] = pages /\ heap \in [Addresses -> Nat] /\ mem \in [Addresses -> Nat]
    BY <1>2 DEF IInv, TypeOK
  <2>2. heap' = [mem EXCEPT ![a] = pages - pages] /\ wild' = wild
    BY <1>2, <1>3, <2>1 DEF FreeBuffer, IInv, TypeOK
  <2>3. \A x \in Addresses \ {a} : mem[x] = heap[x]
    BY <2>1
  <2>4. pages - pages = 0
    BY <1>2
  <2> HIDE DEF mem, pages
  <2>5. heap' \in [Addresses -> Nat] /\ heap'[a] = 0 /\ \A x \in Addresses \ {a} : heap'[x] = heap[x]
    BY <2>1, <2>2, <2>3, <2>4
  <2> QED
    BY <1>1, <2>1, <2>2, <2>5
<1> QED
  BY <1>1, <1>4, UnwindSameIInv

LEMMA MapPartialIInv ==
  ASSUME IInv, NEW a \in Addresses, NEW h \in Handles, NEW size \in Sizes, NEW unmaps \in BOOLEAN,
         MapPartial(a, h, size, unmaps)
  PROVE  IInv'
<1>t. TypeOK
  BY DEF IInv
<1>o. phase = "alloc" /\ Order[next] \in Buffers
  BY AtHand DEF MapPartial
<1>p. PICK b \in Buffers : b = Order[next]
  BY <1>o
<1>b. /\ NicInfo[b] = Zero /\ ~Filled(b)
      /\ Requested[b] \in Nat /\ Requested[b] > 0 /\ BytesToPages(Requested[b]) \in Nat
  BY <1>o, <1>p, AtHand
<1> DEFINE all  == BytesToPages(Requested[b])
           part == BytesToPages(size)
           mem  == [heap EXCEPT ![a] = all]
           left == [Zero EXCEPT !.PhysicalAddress = a, !.Mapping = h]
<1>a. /\ heap[a] = 0 /\ bus[h] = Unmapped /\ size < Requested[b]
      /\ FreeBuffer(mem, a, size)
      /\ \/ unmaps /\ ToUnwind(Zero, {"Partial"}) /\ bus' = bus
         \/ /\ ~unmaps /\ ToUnwind(left, {"Partial", "Unmap"})
            /\ bus' = [bus EXCEPT ![h] = [addr |-> a, size |-> size]]
  BY <1>p DEF MapPartial, IsFree, Allocated
<1>c. size \in Nat /\ part \in Nat /\ part <= all
  <2>1. size \in Nat
    BY RequestedFacts
  <2> QED
    BY <1>a, <1>b, <2>1, PagesCover, PagesMonotone
<1>d. /\ wild' = wild /\ heap' \in [Addresses -> Nat]
      /\ \A x \in Addresses \ {a} : heap'[x] = heap[x]
  <2>0. mem[a] = all /\ mem \in [Addresses -> Nat] /\ \A x \in Addresses \ {a} : mem[x] = heap[x]
    BY <1>t, <1>b DEF TypeOK
  <2>1. wild' = wild /\ heap' = [mem EXCEPT ![a] = mem[a] - part]
    BY <1>t, <1>a, <1>c, <2>0 DEF FreeBuffer, TypeOK
  <2>2. mem[a] - part \in Nat
    BY <1>b, <1>c, <2>0
  <2> HIDE DEF mem
  <2> QED
    BY <2>0, <2>1, <2>2
<1>e. /\ phase' = "unwind" /\ next' = 1 /\ UNCHANGED <<attributes, OriginalPciAttributes>>
      /\ failed \subseteq failed' /\ failed' \subseteq failed \cup {"Partial", "Unmap"}
      /\ "Partial" \in failed' /\ (unmaps => failed' = failed \cup {"Partial"} /\ bus' = bus)
      /\ ~unmaps => "Unmap" \in failed'
  BY <1>a DEF ToUnwind, pci
<1>f. /\ \A c \in Buffers \ {b} : NicInfo'[c] = NicInfo[c]
      /\ NicInfo'[b] = IF unmaps THEN Zero ELSE left
      /\ NicInfo' \in [Buffers -> Records]
  <2>1. left \in Records /\ Zero \in Records
    BY DEF Zero, Records
  <2>2. NicInfo \in [Buffers -> Records]
    BY <1>t DEF TypeOK, Records
  <2>3. NicInfo' = [NicInfo EXCEPT ![b] = IF unmaps THEN Zero ELSE left]
    BY <1>a, <1>p DEF ToUnwind
  <2> HIDE DEF left
  <2> QED
    BY <2>1, <2>2, <2>3
<1>g. /\ bus' \in [Handles -> [addr : Addresses \cup {NULL}, size : Nat]]
      /\ \A g \in Handles \ {h} : bus'[g] = bus[g]
  <2>1. CASE unmaps
    BY <1>t, <1>e, <2>1 DEF TypeOK
  <2>2. CASE ~unmaps
    <3>1. bus' = [bus EXCEPT ![h] = [addr |-> a, size |-> size]]
      BY <1>a, <2>2
    <3> QED
      BY <1>t, <1>c, <3>1 DEF TypeOK
  <2> QED
    BY <2>1, <2>2
<1>h. \A c \in Buffers : Filled(c)' <=> Filled(c) /\ c # b
  <2>1. NicInfo'[b].UnmappedAddress = NULL
    BY <1>f DEF Zero
  <2> QED
    BY <1>b, <1>f, <2>1 DEF Filled
<1>i. \A c \in Buffers : Filled(c) => /\ NicInfo[c].UnmappedAddress \in Addresses \ {a}
                                      /\ NicInfo[c].Mapping \in Handles \ {h}
  <2> SUFFICES ASSUME NEW c \in Buffers, Filled(c)
               PROVE  /\ NicInfo[c].UnmappedAddress \in Addresses \ {a}
                      /\ NicInfo[c].Mapping \in Handles \ {h}
    OBVIOUS
  <2>1. NicInfo[c].UnmappedAddress \in Addresses
    BY <1>t DEF TypeOK, Filled
  <2>2. /\ NicInfo[c].Mapping \in Handles
        /\ heap[NicInfo[c].UnmappedAddress] = BytesToPages(Requested[c])
        /\ bus[NicInfo[c].Mapping] = [addr |-> NicInfo[c].UnmappedAddress, size |-> Requested[c]]
    BY DEF IInv, RecordsHeld
  <2>3. BytesToPages(Requested[c]) > 0
    BY RequestedFacts, PagesCover
  <2>4. bus[NicInfo[c].Mapping].addr # NULL
    BY <2>1, <2>2, DmaAssumption
  <2> QED
    BY <1>a, <2>1, <2>2, <2>3, <2>4 DEF Unmapped
<1>1. TypeOK'
  BY <1>t, <1>d, <1>e, <1>f, <1>g, OrderFacts DEF TypeOK, Records
<1>2. RecordsHeld'
  <2> SUFFICES ASSUME NEW c \in Buffers
               PROVE  LET m == NicInfo'[c]
                      IN IF Filled(c)'
                         THEN /\ m.PhysicalAddress = m.UnmappedAddress
                              /\ m.Size = Requested[c]
                              /\ m.Mapping \in Handles
                              /\ heap'[m.UnmappedAddress] = BytesToPages(Requested[c])
                              /\ bus'[m.Mapping] = [addr |-> m.UnmappedAddress, size |-> Requested[c]]
                              /\ \A d \in Buffers \ {c} :
                                   NicInfo'[d].UnmappedAddress # m.UnmappedAddress
                         ELSE m.Size = 0 /\ ("Unmap" \notin failed' => m = Zero)
    BY DEF RecordsHeld
  <2>1. CASE c = b
    <3>1. NicInfo'[b].Size = 0 /\ (unmaps => NicInfo'[b] = Zero)
      BY <1>f DEF Zero
    <3> QED
      BY <1>e, <1>h, <2>1, <3>1
  <2>2. CASE c # b /\ ~Filled(c)
    BY <1>e, <1>f, <1>h, <2>2 DEF IInv, RecordsHeld
  <2>3. CASE c # b /\ Filled(c)
    <3>1. /\ NicInfo[c].PhysicalAddress = NicInfo[c].UnmappedAddress
          /\ NicInfo[c].Size = Requested[c]
          /\ heap[NicInfo[c].UnmappedAddress] = BytesToPages(Requested[c])
          /\ bus[NicInfo[c].Mapping] = [addr |-> NicInfo[c].UnmappedAddress, size |-> Requested[c]]
          /\ \A d \in Buffers \ {c} : NicInfo[d].UnmappedAddress # NicInfo[c].UnmappedAddress
      BY <2>3 DEF IInv, RecordsHeld
    <3>2. NicInfo'[b].UnmappedAddress = NULL /\ NicInfo[b].UnmappedAddress = NULL
      BY <1>b, <1>f DEF Zero
    <3>3. NicInfo'[c] = NicInfo[c] /\ Filled(c)' /\ NicInfo[c].UnmappedAddress # NULL
      BY <1>f, <1>h, <2>3 DEF Filled
    <3>4. \A d \in Buffers \ {c} : NicInfo'[d].UnmappedAddress # NicInfo[c].UnmappedAddress
      <4> SUFFICES ASSUME NEW d \in Buffers \ {c}
                   PROVE  NicInfo'[d].UnmappedAddress # NicInfo[c].UnmappedAddress
        OBVIOUS
      <4>1. CASE d = b
        BY <3>2, <3>3, <4>1
      <4>2. CASE d # b
        BY <1>f, <3>1, <4>2
      <4> QED
        BY <4>1, <4>2
    <3>5. /\ heap'[NicInfo[c].UnmappedAddress] = heap[NicInfo[c].UnmappedAddress]
          /\ bus'[NicInfo[c].Mapping] = bus[NicInfo[c].Mapping]
          /\ NicInfo[c].Mapping \in Handles
      BY <1>d, <1>g, <1>i, <2>3
    <3> QED
      BY <3>1, <3>3, <3>4, <3>5
  <2> QED
    BY <2>1, <2>2, <2>3
<1>3. MappingsApart'
  <2> SUFFICES ASSUME unmaps, ~({"Partial", "Unmap"} \subseteq failed),
                      NEW g \in Handles, bus[g] # Unmapped
               PROVE  /\ bus[g].addr \in Addresses
                      /\ heap'[bus[g].addr] > 0
                      /\ bus[g].size <= heap'[bus[g].addr] * PAGE_SIZE
                      /\ \A f \in Handles \ {g} : bus[f].addr # bus[g].addr
    BY <1>e DEF MappingsApart
  <2>1. /\ bus[g].addr \in Addresses /\ heap[bus[g].addr] > 0
        /\ bus[g].size <= heap[bus[g].addr] * PAGE_SIZE
        /\ \A f \in Handles \ {g} : bus[f].addr # bus[g].addr
    BY DEF IInv, MappingsApart
  <2>2. heap'[bus[g].addr] = heap[bus[g].addr]
    BY <1>a, <1>d, <2>1
  <2> QED
    BY <2>1, <2>2
<1>4. NoWildFree' /\ NothingLost' /\ AttributesKept' /\ Progress'
  BY <1>d, <1>e, <1>o DEF IInv, NoWildFree, NothingLost, AttributesKept, Progress
<1> QED
  BY <1>1, <1>2, <1>3, <1>4 DEF IInv

(* What is not freed was not filled in, and what is freed was.             *)
LEMMA FreedIsFilled ==
  ASSUME IInv, Freeing
  PROVE  /\ next \in 1 .. 3 /\ Order[next] \in Buffers
         /\ ToFree(NicInfo[Order[next]]) <=> Filled(Order[next])
<1>1. next \in 1 .. 3
  BY OrderFacts DEF Freeing, IInv, TypeOK
<1>2. Order[next] \in Buffers
  BY <1>1, OrderFacts
<1>3. PICK b \in Buffers : b = Order[next]
  BY <1>2
<1>4. ASSUME Filled(b) PROVE ToFree(NicInfo[b])
  <2>1. /\ NicInfo[b].PhysicalAddress = NicInfo[b].UnmappedAddress
        /\ NicInfo[b].Size = Requested[b] /\ NicInfo[b].Mapping \in Handles
    BY <1>4 DEF IInv, RecordsHeld
  <2> QED
    BY <1>4, <2>1, RequestedFacts, DmaAssumption DEF ToFree, Filled
<1>5. ToFree(NicInfo[b]) => Filled(b)
  BY DEF ToFree, Filled
<1> QED
  BY <1>1, <1>2, <1>3, <1>4, <1>5

LEMMA SkipIInv ==
  ASSUME IInv, SkipBuffer \/ UnmapFails
  PROVE  IInv'
<1>a. /\ Freeing /\ next' = next + 1
      /\ UNCHANGED <<phase, NicInfo, heap, bus, attributes, OriginalPciAttributes, wild>>
      /\ failed \subseteq failed' /\ failed' \subseteq failed \cup {"Unmap"}
  BY DEF SkipBuffer, UnmapFails, pci
<1>b. next \in 1 .. 3 /\ Order[next] \in Buffers
  BY <1>a, FreedIsFilled
<1>1. TypeOK'
  BY <1>a, <1>b, OrderFacts DEF IInv, TypeOK
<1>2. RecordsHeld'
  BY <1>a DEF IInv, RecordsHeld, Filled
<1>3. Progress'
  <2>1. phase' \in {"unwind", "stop"}
    BY <1>a DEF Freeing
  <2>2. ASSUME "Unmap" \notin failed', NEW i \in 1 .. next' - 1
        PROVE  NicInfo'[Order[i]] = Zero
    <3>1. "Unmap" \notin failed /\ SkipBuffer
      BY <1>a, <2>2 DEF UnmapFails
    <3>2. CASE i = next
      <4>1. ~Filled(Order[next])
        BY <1>a, <3>1, FreedIsFilled DEF SkipBuffer
      <4> QED
        BY <1>a, <1>b, <3>1, <3>2, <4>1 DEF IInv, RecordsHeld
    <3>3. CASE i # next
      <4>1. i \in 1 .. next - 1
        BY <1>a, <1>b, <3>3
      <4> QED
        BY <1>a, <2>1, <3>1, <4>1 DEF IInv, Progress
    <3> QED
      BY <3>2, <3>3
  <2> QED
    BY <2>1, <2>2 DEF Progress
<1>4. NoWildFree' /\ MappingsApart' /\ NothingLost' /\ AttributesKept'
  BY <1>a DEF IInv, NoWildFree, MappingsApart, NothingLost, AttributesKept
<1> QED
  BY <1>1, <1>2, <1>3, <1>4 DEF IInv

LEMMA FreeCommonBufferIInv ==
  ASSUME IInv, FreeCommonBuffer
  PROVE  IInv'
<1>t. TypeOK
  BY DEF IInv
<1>f. Freeing /\ next \in 1 .. 3 /\ Order[next] \in Buffers /\ Filled(Order[next])
  BY FreedIsFilled DEF FreeCommonBuffer
<1>p. PICK b \in Buffers : b = Order[next]
  BY <1>f
<1>b. /\ Filled(b) /\ NicInfo[b].UnmappedAddress \in Addresses
      /\ NicInfo[b].Size = Requested[b] /\ NicInfo[b].Mapping \in Handles
      /\ heap[NicInfo[b].UnmappedAddress] = BytesToPages(Requested[b])
      /\ bus[NicInfo[b].Mapping] = [addr |-> NicInfo[b].UnmappedAddress, size |-> Requested[b]]
      /\ \A c \in Buffers \ {b} : NicInfo[c].UnmappedAddress # NicInfo[b].UnmappedAddress
  <2>1. Filled(b)
    BY <1>f, <1>p
  <2>2. NicInfo[b].UnmappedAddress \in Addresses
    BY <1>t, <2>1 DEF TypeOK, Filled
  <2> QED
    BY <2>1, <2>2 DEF IInv, RecordsHeld
<1>q. PICK a \in Addresses, h \in Handles :
        a = NicInfo[b].UnmappedAddress /\ h = NicInfo[b].Mapping
  BY <1>b
<1>n. BytesToPages(Requested[b]) \in Nat
  BY RequestedFacts, PagesCover
<1>a. /\ bus' = [bus EXCEPT ![h] = Unmapped]
      /\ NicInfo' = [NicInfo EXCEPT ![b] = Zero]
      /\ next' = next + 1
      /\ UNCHANGED <<phase, attributes, OriginalPciAttributes, failed>>
      /\ FreeBuffer(heap, a, Requested[b])
  BY <1>b, <1>p, <1>q DEF FreeCommonBuffer, pci
<1>c. heap' = [heap EXCEPT ![a] = 0] /\ wild' = wild
  <2>1. heap[a] = BytesToPages(Requested[b])
    BY <1>b, <1>q
  <2>2. heap' = [heap EXCEPT ![a] = heap[a] - BytesToPages(Requested[b])] /\ wild' = wild
    BY <1>t, <1>a, <1>n, <2>1 DEF FreeBuffer, TypeOK
  <2>3. heap[a] - BytesToPages(Requested[b]) = 0
    BY <1>n, <2>1
  <2> QED
    BY <2>2, <2>3
<1>d. /\ NicInfo'[b] = Zero /\ ~Filled(b)'
      /\ \A c \in Buffers \ {b} : NicInfo'[c] = NicInfo[c] /\ (Filled(c)' <=> Filled(c))
      /\ NicInfo' \in [Buffers -> Records]
  <2>1. NicInfo \in [Buffers -> Records]
    BY <1>t DEF TypeOK, Records
  <2>2. /\ NicInfo'[b] = Zero /\ \A c \in Buffers \ {b} : NicInfo'[c] = NicInfo[c]
        /\ NicInfo' \in [Buffers -> Records]
    BY <1>a, <2>1, ZeroFacts
  <2> QED
    BY <2>2, ZeroFacts DEF Filled
<1>e. /\ heap' \in [Addresses -> Nat] /\ heap'[a] = 0
      /\ \A x \in Addresses \ {a} : heap'[x] = heap[x]
      /\ bus' \in [Handles -> [addr : Addresses \cup {NULL}, size : Nat]]
      /\ bus'[h] = Unmapped
      /\ \A g \in Handles \ {h} : bus'[g] = bus[g]
  <2>1. Unmapped \in [addr : Addresses \cup {NULL}, size : Nat]
    BY DEF Unmapped
  <2> QED
    BY <1>t, <1>a, <1>c, <2>1 DEF TypeOK
<1>g. \A c \in Buffers \ {b} :
        Filled(c) => /\ NicInfo[c].UnmappedAddress \in Addresses \ {a}
                     /\ NicInfo[c].Mapping \in Handles \ {h}
  <2> SUFFICES ASSUME NEW c \in Buffers \ {b}, Filled(c)
               PROVE  /\ NicInfo[c].UnmappedAddress \in Addresses \ {a}
                      /\ NicInfo[c].Mapping \in Handles \ {h}
    OBVIOUS
  <2>1. NicInfo[c].UnmappedAddress \in Addresses
    BY <1>t DEF TypeOK, Filled
  <2>2. /\ NicInfo[c].Mapping \in Handles
        /\ bus[NicInfo[c].Mapping] = [addr |-> NicInfo[c].UnmappedAddress, size |-> Requested[c]]
    BY DEF IInv, RecordsHeld
  <2>3. bus[h].addr = a
    BY <1>b, <1>q
  <2>4. NicInfo[c].UnmappedAddress # a
    BY <1>b, <1>q
  <2> QED
    BY <2>1, <2>2, <2>3, <2>4
<1>1. TypeOK'
  BY <1>t, <1>a, <1>c, <1>d, <1>e, <1>f, OrderFacts DEF TypeOK, Records
<1>2. RecordsHeld'
  <2> SUFFICES ASSUME NEW c \in Buffers
               PROVE  LET m == NicInfo'[c]
                      IN IF Filled(c)'
                         THEN /\ m.PhysicalAddress = m.UnmappedAddress
                              /\ m.Size = Requested[c]
                              /\ m.Mapping \in Handles
                              /\ heap'[m.UnmappedAddress] = BytesToPages(Requested[c])
                              /\ bus'[m.Mapping] = [addr |-> m.UnmappedAddress, size |-> Requested[c]]
                              /\ \A d \in Buffers \ {c} :
                                   NicInfo'[d].UnmappedAddress # m.UnmappedAddress
                         ELSE m.Size = 0 /\ ("Unmap" \notin failed' => m = Zero)
    BY DEF RecordsHeld
  <2>1. CASE c = b
    BY <1>d, <2>1, ZeroFacts
  <2>2. CASE c # b /\ ~Filled(c)
    BY <1>a, <1>d, <2>2 DEF IInv, RecordsHeld
  <2>3. CASE c # b /\ Filled(c)
    <3>1. /\ NicInfo[c].PhysicalAddress = NicInfo[c].UnmappedAddress
          /\ NicInfo[c].Size = Requested[c]
          /\ heap[NicInfo[c].UnmappedAddress] = BytesToPages(Requested[c])
          /\ bus[NicInfo[c].Mapping] = [addr |-> NicInfo[c].UnmappedAddress, size |-> Requested[c]]
          /\ \A d \in Buffers \ {c} : NicInfo[d].UnmappedAddress # NicInfo[c].UnmappedAddress
      BY <2>3 DEF IInv, RecordsHeld
    <3>2. NicInfo'[c] = NicInfo[c] /\ Filled(c)' /\ NicInfo[c].UnmappedAddress # NULL
      BY <1>d, <2>3 DEF Filled
    <3>3. \A d \in Buffers \ {c} : NicInfo'[d].UnmappedAddress # NicInfo[c].UnmappedAddress
      <4> SUFFICES ASSUME NEW d \in Buffers \ {c}
                   PROVE  NicInfo'[d].UnmappedAddress # NicInfo[c].UnmappedAddress
        OBVIOUS
      <4>1. CASE d = b
        BY <1>d, <3>2, <4>1, ZeroFacts
      <4>2. CASE d # b
        BY <1>d, <3>1, <4>2
      <4> QED
        BY <4>1, <4>2
    <3>4. /\ heap'[NicInfo[c].UnmappedAddress] = heap[NicInfo[c].UnmappedAddress]
          /\ bus'[NicInfo[c].Mapping] = bus[NicInfo[c].Mapping]
          /\ NicInfo[c].Mapping \in Handles
      BY <1>e, <1>g, <2>3
    <3> QED
      BY <3>1, <3>2, <3>3, <3>4
  <2> QED
    BY <2>1, <2>2, <2>3
<1>3. Progress'
  <2>1. phase' \in {"unwind", "stop"} /\ phase \in {"unwind", "stop"}
    BY <1>a, <1>f DEF Freeing
  <2>2. ASSUME "Unmap" \notin failed', NEW i \in 1 .. next' - 1
        PROVE  NicInfo'[Order[i]] = Zero
    <3>1. CASE i = next
      BY <1>d, <1>p, <3>1
    <3>2. CASE i # next
      <4>1. i \in 1 .. next - 1 /\ i \in 1 .. 3
        BY <1>a, <1>f, <3>2
      <4>2. NicInfo[Order[i]] = Zero
        BY <1>a, <2>1, <2>2, <4>1 DEF IInv, Progress
      <4>3. Order[i] \in Buffers \ {b}
        BY <1>f, <1>p, <3>2, <4>1, OrderFacts
      <4> QED
        BY <1>d, <4>2, <4>3
    <3> QED
      BY <3>1, <3>2
  <2> QED
    BY <2>1, <2>2 DEF Progress
<1>4. MappingsApart'
  <2> SUFFICES ASSUME ~({"Partial", "Unmap"} \subseteq failed), NEW g \in Handles, bus'[g] # Unmapped
               PROVE  /\ bus'[g].addr \in Addresses
                      /\ heap'[bus'[g].addr] > 0
                      /\ bus'[g].size <= heap'[bus'[g].addr] * PAGE_SIZE
                      /\ \A f \in Handles \ {g} : bus'[f].addr # bus'[g].addr
    BY <1>a DEF MappingsApart
  <2>1. g # h /\ bus'[g] = bus[g]
    BY <1>e
  <2>2. /\ bus[g].addr \in Addresses /\ heap[bus[g].addr] > 0
        /\ bus[g].size <= heap[bus[g].addr] * PAGE_SIZE
        /\ \A f \in Handles \ {g} : bus[f].addr # bus[g].addr
    BY <2>1 DEF IInv, MappingsApart
  <2>3. bus[g].addr # a
    BY <1>b, <1>q, <2>1, <2>2
  <2>4. bus'[h].addr = NULL /\ NULL \notin Addresses
    BY <1>e, DmaAssumption DEF Unmapped
  <2> QED
    BY <1>e, <2>1, <2>2, <2>3, <2>4
<1>5. NothingLost'
  <2> SUFFICES ASSUME failed \cap {"Partial", "Unmap", "Start"} = {}
               PROVE  /\ \A x \in Addresses : heap'[x] > 0 =>
                           \E c \in Buffers : NicInfo'[c].UnmappedAddress = x
                      /\ \A g \in Handles : bus'[g] # Unmapped =>
                           \E c \in Buffers : NicInfo'[c].Mapping = g
    BY <1>a DEF NothingLost
  <2>1. ASSUME NEW x \in Addresses, heap'[x] > 0
        PROVE  \E c \in Buffers : NicInfo'[c].UnmappedAddress = x
    <3>1. x # a /\ heap[x] > 0
      BY <1>e, <2>1
    <3>2. PICK c \in Buffers : NicInfo[c].UnmappedAddress = x
      BY <3>1 DEF IInv, NothingLost
    <3> QED
      BY <1>d, <1>q, <3>1, <3>2
  <2>2. ASSUME NEW g \in Handles, bus'[g] # Unmapped
        PROVE  \E c \in Buffers : NicInfo'[c].Mapping = g
    <3>1. g # h /\ bus[g] # Unmapped
      BY <1>e, <2>2
    <3>2. PICK c \in Buffers : NicInfo[c].Mapping = g
      BY <3>1 DEF IInv, NothingLost
    <3> QED
      BY <1>d, <1>q, <3>1, <3>2
  <2> QED
    BY <2>1, <2>2
<1>6. NoWildFree' /\ AttributesKept'
  BY <1>a, <1>c DEF IInv, NoWildFree, AttributesKept
<1> QED
  BY <1>1, <1>2, <1>3, <1>4, <1>5, <1>6 DEF IInv

(* The private data is freed, with records that name nothing any more      *)
(* unless an Unmap or the Start has failed.                                *)
LEMMA DiscardIInv ==
  ASSUME IInv, NicInfo' = NoMemory, phase' = "none", next' \in 1 .. 4,
         UNCHANGED <<heap, bus, OriginalPciAttributes, wild>>,
         failed \subseteq failed', failed' \subseteq failed \cup {"Restore", "Start"},
         attributes' \in {attributes, OriginalPciAttributes},
         failed' \cap {"Unmap", "Start"} = {} => NicInfo = NoMemory,
         failed' \cap {"Restore", "Start"} = {} => attributes' = OriginalPciAttributes
  PROVE  IInv'
<1>1. TypeOK'
  BY ZeroFacts, OrderFacts DEF IInv, TypeOK, Records
<1>2. RecordsHeld'
  BY ZeroFacts DEF RecordsHeld, Filled
<1>3. Progress'
  BY DEF Progress
<1>4. NothingLost'
  <2>1. CASE failed' \cap {"Unmap", "Start"} = {}
    BY <2>1 DEF IInv, NothingLost
  <2>2. CASE failed' \cap {"Unmap", "Start"} # {}
    <3>1. failed' \cap {"Partial", "Unmap", "Start"} # {}
      BY <2>2
    <3> QED
      BY <3>1 DEF NothingLost
  <2> QED
    BY <2>1, <2>2
<1>5. NoWildFree' /\ MappingsApart' /\ AttributesKept'
  BY DEF IInv, NoWildFree, MappingsApart, AttributesKept
<1> QED
  BY <1>1, <1>2, <1>3, <1>4, <1>5 DEF IInv

(* When all three have been freed, nothing is left in the records.         *)
LEMMA AllFreed ==
  ASSUME IInv, phase \in {"unwind", "stop"}, next > Len(Order), "Unmap" \notin failed
  PROVE  NicInfo = NoMemory
<1>1. next = 4
  BY OrderFacts DEF IInv, TypeOK
<1>2. \A i \in 1 .. 3 : NicInfo[Order[i]] = Zero
  BY <1>1 DEF IInv, Progress
<1>3. \A b \in Buffers : NicInfo[b] = NoMemory[b]
  BY <1>2, OrderFacts, ZeroFacts
<1>4. NicInfo \in [Buffers -> Records] /\ NoMemory \in [Buffers -> Records]
  BY ZeroFacts DEF IInv, TypeOK, Records
<1> QED
  BY <1>3, <1>4

LEMMA EndIInv ==
  ASSUME IInv, NEW restored \in BOOLEAN, UnwindEnd(restored) \/ StopControllerEnd(restored)
  PROVE  IInv'
<1>1. phase \in {"unwind", "stop"} /\ next > Len(Order) /\ next' = 1
      /\ UNCHANGED <<heap, bus, OriginalPciAttributes, wild>>
  BY DEF UnwindEnd, StopControllerEnd
<1>2. CASE UnwindEnd(restored) \/ restored
  <2>1. /\ NicInfo' = NoMemory /\ phase' = "none"
        /\ failed \subseteq failed' /\ failed' \subseteq failed \cup {"Restore", "Start"}
        /\ attributes' \in {attributes, OriginalPciAttributes}
        /\ failed' \cap {"Restore", "Start"} = {} => attributes' = OriginalPciAttributes
    BY <1>2 DEF UnwindEnd, StopControllerEnd
  <2>2. failed' \cap {"Unmap", "Start"} = {} => NicInfo = NoMemory
    BY <1>1, <2>1, AllFreed
  <2> QED
    BY <1>1, <2>1, <2>2, DiscardIInv
<1>3. CASE ~UnwindEnd(restored) /\ ~restored
  <2>1. phase' = "stuck" /\ failed' = failed \cup {"Restore"} /\ UNCHANGED <<attributes, NicInfo>>
    BY <1>3 DEF StopControllerEnd
  <2>2. TypeOK'
    BY <1>1, <2>1, OrderFacts DEF IInv, TypeOK
  <2>3. RecordsHeld'
    BY <1>1, <2>1 DEF IInv, RecordsHeld, Filled
  <2>4. NoWildFree' /\ Progress' /\ MappingsApart' /\ NothingLost' /\ AttributesKept'
    BY <1>1, <2>1 DEF IInv, NoWildFree, Progress, MappingsApart, NothingLost, AttributesKept
  <2> QED
    BY <2>2, <2>3, <2>4 DEF IInv
<1> QED
  BY <1>2, <1>3

LEMMA StartFailsIInv ==
  ASSUME IInv, StartFails
  PROVE  IInv'
<1>1. /\ NicInfo' = NoMemory /\ phase' = "none" /\ failed' = failed \cup {"Start"}
      /\ UNCHANGED <<next, heap, bus, attributes, OriginalPciAttributes, wild>>
  BY DEF StartFails, pci
<1>2. next' \in 1 .. 4
  BY <1>1, OrderFacts DEF IInv, TypeOK
<1> QED
  BY <1>1, <1>2, DiscardIInv

LEMMA NextIInv == IInv /\ [Next]_vars => IInv'
<1> SUFFICES ASSUME IInv, [Next]_vars PROVE IInv'
  OBVIOUS
<1>1. CASE EnableAttributes \/ AttributesFail \/ StopController \/ UNCHANGED vars
  BY <1>1, QuietIInv
<1>2. CASE \E a \in Addresses, h \in Handles : AllocateDone(a, h)
  BY <1>2, AllocateDoneIInv
<1>3. CASE AllocateFails
  BY <1>3, AllocateFailsIInv
<1>4. CASE \E a \in Addresses : MapFails(a)
  BY <1>4, MapFailsIInv
<1>5. CASE \E a \in Addresses, h \in Handles, size \in Sizes, unmaps \in BOOLEAN :
             MapPartial(a, h, size, unmaps)
  BY <1>5, MapPartialIInv
<1>6. CASE SkipBuffer \/ UnmapFails
  BY <1>6, SkipIInv
<1>7. CASE FreeCommonBuffer
  BY <1>7, FreeCommonBufferIInv
<1>8. CASE \E restored \in BOOLEAN : UnwindEnd(restored) \/ StopControllerEnd(restored)
  BY <1>8, EndIInv
<1>9. CASE StartFails
  BY <1>9, StartFailsIInv
<1> QED
  BY <1>1, <1>2, <1>3, <1>4, <1>5, <1>6, <1>7, <1>8, <1>9 DEF Next

-----------------------------------------------------------------------------
(* The theorems.                                                           *)

(* The inductive invariant holds always, whichever calls of PciIo fail.    *)
THEOREM IInvariance == Spec => []IInv
<1>1. Init => IInv
  BY InitIInv
<1>2. IInv /\ [Next]_vars => IInv'
  BY NextIInv
<1> QED
  BY <1>1, <1>2, PTL DEF Spec

(* FreeBuffer is never given pages that the driver does not hold, neither  *)
(* on the error exits of IntelgbePciInit and UndiDmaAllocateCommonBuffer   *)
(* nor by StopController.                                                  *)
THEOREM NoWildFreeHolds == Spec => []NoWildFree
<1>1. IInv => NoWildFree
  BY DEF IInv
<1> QED
  BY <1>1, IInvariance, PTL

(* No live bus mapping reaches beyond memory that is held, as long as no   *)
(* partial mapping and no Unmap have both failed.                          *)
THEOREM MappedIsHeldHolds == Spec => []MappedIsHeld
<1>1. IInv => MappedIsHeld
  BY DEF IInv, MappingsApart, MappedIsHeld
<1> QED
  BY <1>1, IInvariance, PTL

(* A failing allocation, mapping or attribute loses no page and no bus     *)
(* mapping: what is held is in a mapping structure.                        *)
THEOREM NothingLostHolds == Spec => []NothingLost
<1>1. IInv => NothingLost
  BY DEF IInv
<1> QED
  BY <1>1, IInvariance, PTL

(* An adapter that is not managed has the PCI attributes of the platform,  *)
(* unless restoring them or a late step of the Start has failed.           *)
THEOREM AttributesRestoredHolds == Spec => []AttributesRestored
<1>1. IInv => AttributesRestored
  BY DEF IInv, AttributesKept, AttributesRestored
<1> QED
  BY <1>1, IInvariance, PTL

(* After IntelgbePciInit each buffer has pages of its own, mapped in full  *)
(* and enough for it.                                                      *)
THEOREM ReadyIsWholeHolds == Spec => []ReadyIsWhole
<1>1. IInv => ReadyIsWhole
  <2> SUFFICES ASSUME IInv, phase = "ready", NEW b \in Buffers
               PROVE  LET m == NicInfo[b]
                      IN /\ m.Size = Requested[b]
                         /\ bus[m.Mapping] = [addr |-> m.UnmappedAddress, size |-> m.Size]
                         /\ m.Size <= heap[m.UnmappedAddress] * PAGE_SIZE
                         /\ \A c \in Buffers \ {b} : NicInfo[c].UnmappedAddress # m.UnmappedAddress
    BY DEF ReadyIsWhole
  <2>1. Filled(b)
    BY DEF IInv, Progress
  <2>2. Requested[b] <= BytesToPages(Requested[b]) * PAGE_SIZE
    BY RequestedFacts, PagesCover
  <2> QED
    BY <2>1, <2>2 DEF IInv, RecordsHeld
<1> QED
  BY <1>1, IInvariance, PTL

(* A mapping structure that names an address names memory that is held and *)
(* mapped for it, also when StopController has given up half way.          *)
THEOREM RecordsLiveHolds == Spec => []RecordsLive
<1>1. IInv => RecordsLive
  <2> SUFFICES ASSUME IInv, NEW b \in Buffers, Filled(b)
               PROVE  /\ heap[NicInfo[b].UnmappedAddress] > 0
                      /\ bus[NicInfo[b].Mapping].addr = NicInfo[b].UnmappedAddress
    BY DEF RecordsLive, Filled
  <2>1. BytesToPages(Requested[b]) > 0
    BY RequestedFacts, PagesCover
  <2>2. /\ heap[NicInfo[b].UnmappedAddress] = BytesToPages(Requested[b])
        /\ bus[NicInfo[b].Mapping] = [addr |-> NicInfo[b].UnmappedAddress, size |-> Requested[b]]
    BY DEF IInv, RecordsHeld
  <2> QED
    BY <2>1, <2>2
<1> QED
  BY <1>1, IInvariance, PTL
=============================================================================
