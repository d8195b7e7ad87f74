------------------------------ MODULE DmaMemory -----------------------------
(***************************************************************************)
(* The DMA memory of one adapter: Dma.c, IntelgbePciInit with its error    *)
(* exits, and what StopController and a failed Start do with the memory.   *)
(* Every call of PciIo (external) may fail; failed remembers what has.     *)
(*                                                                         *)
(* An address is a page-aligned piece of memory; heap says how many pages  *)
(* of it are the driver's.  Memory that was given back can be allocated    *)
(* again.  A bus mapping is known by its handle.                           *)
(***************************************************************************)
EXTENDS Integers, Sequences

CONSTANTS
  Addresses,   \* where AllocateBuffer can find room
  Handles,     \* mapping handles of PciIo
  NULL,        \* no address, no handle
  PAGE_SIZE,   \* bytes of a page
  TX_RING_SIZE, RX_RING_SIZE, RX_BUFFERS_SIZE

ASSUME DmaAssumption ==
  /\ NULL \notin Addresses /\ NULL \notin Handles
  /\ PAGE_SIZE \in Nat \ {0}
  /\ {TX_RING_SIZE, RX_RING_SIZE, RX_BUFFERS_SIZE} \subseteq Nat \ {0}

\* The common buffers in the order in which they are allocated and freed.
Order   == <<"TxRing", "RxRing", "RxBufferMapping">>
Buffers == {"TxRing", "RxRing", "RxBufferMapping"}
Requested == [b \in Buffers |-> CASE b = "TxRing" -> TX_RING_SIZE
                                  [] b = "RxRing" -> RX_RING_SIZE
                                  [] b = "RxBufferMapping" -> RX_BUFFERS_SIZE]

VARIABLES
  phase,       \* "none", "alloc", "unwind", "ready", "stop", "stuck"
  next,        \* place in Order of the next buffer to allocate or free
  NicInfo,     \* the three UNDI_DMA_MAPPINGs of the private data
  heap,        \* pages held at each address
  bus,         \* live bus mappings: what each handle maps
  attributes,  \* PCI attributes: "platform" or "enabled"
  OriginalPciAttributes,
  failed,      \* kinds of failures so far
  wild         \* has FreeBuffer been given pages that are not held?

pci  == <<attributes, OriginalPciAttributes>>
vars == <<phase, next, NicInfo, heap, bus, pci, failed, wild>>

\* A UNDI_DMA_MAPPING as AllocateZeroPool leaves it.
Zero     == [UnmappedAddress |-> NULL, PhysicalAddress |-> NULL, Size |-> 0, Mapping |-> NULL]
NoMemory == [b \in Buffers |-> Zero]
Unmapped == [addr |-> NULL, size |-> 0]

Init ==
  /\ phase = "none" /\ next = 1
  /\ NicInfo = NoMemory
  /\ heap = [a \in Addresses |-> 0]
  /\ bus = [h \in Handles |-> Unmapped]
  /\ attributes = "platform" /\ OriginalPciAttributes = "platform"
  /\ failed = {}
  /\ wild = FALSE

-----------------------------------------------------------------------------
(* PciIo.                                                                  *)

BytesToPages(bytes) == (bytes \div PAGE_SIZE) + (IF bytes % PAGE_SIZE = 0 THEN 0 ELSE 1)

\* The memory once AllocateBuffer has found room for b at a.
Allocated(b, a) == [heap EXCEPT ![a] = BytesToPages(Requested[b])]
IsFree(a, h)    == heap[a] = 0 /\ bus[h] = Unmapped

\* FreeBuffer of the pages of size bytes at a, in the memory mem.
FreeBuffer(mem, a, size) ==
  LET pages == BytesToPages(size)
      held  == a \in Addresses /\ pages <= mem[a]
  IN /\ heap' = IF held THEN [mem EXCEPT ![a] = @ - pages] ELSE mem
     /\ wild' = (wild \/ (pages > 0 /\ ~held))

-----------------------------------------------------------------------------
(* IntelgbePciInit: save and enable the PCI attributes, then               *)
(* UndiDmaAllocateCommonBuffer for each buffer.                            *)

EnableAttributes ==
  /\ phase = "none"
  /\ OriginalPciAttributes' = attributes
  /\ attributes' = "enabled"
  /\ phase' = "alloc" /\ next' = 1
  /\ UNCHANGED <<NicInfo, heap, bus, failed, wild>>

AttributesFail ==
  /\ phase = "none"
  /\ failed' = failed \cup {"Attributes"}
  /\ UNCHANGED <<phase, next, NicInfo, heap, bus, pci, wild>>

ToNextBuffer ==
  IF next = Len(Order) THEN phase' = "ready" /\ next' = 1
                       ELSE phase' = phase /\ next' = next + 1

AllocateDone(a, h) ==
  LET b == Order[next]
  IN /\ phase = "alloc"
     /\ IsFree(a, h)
     /\ heap' = Allocated(b, a)
     /\ bus' = [bus EXCEPT ![h] = [addr |-> a, size |-> Requested[b]]]
     /\ NicInfo' = [NicInfo EXCEPT ![b] = [UnmappedAddress |-> a, PhysicalAddress |-> a,
                                           Size |-> Requested[b], Mapping |-> h]]
     /\ ToNextBuffer
     /\ UNCHANGED <<pci, failed, wild>>

\* OnAllocError, with Size and UnmappedAddress cleared.
ToUnwind(mapping, kinds) ==
  /\ NicInfo' = [NicInfo EXCEPT ![Order[next]] = mapping]
  /\ phase' = "unwind" /\ next' = 1
  /\ failed' = failed \cup kinds
  /\ UNCHANGED pci

\* Mutant: Size keeps what was asked for.
AllocateFailsSized ==
  /\ phase = "alloc"
  /\ FreeBuffer(heap, NicInfo[Order[next]].UnmappedAddress, Requested[Order[next]])
  /\ ToUnwind(Zero, {"Allocate"})
  /\ UNCHANGED bus

\* AllocateBuffer fails.  The routine goes on with Size 0, which
\* UndiDmaMapCommonBuffer refuses, and frees no pages at no address.
AllocateFails ==
  /\ phase = "alloc"
  /\ FreeBuffer(heap, NicInfo[Order[next]].UnmappedAddress, 0)
  /\ ToUnwind(Zero, {"Allocate"})
  /\ UNCHANGED bus

\* Mutant: the pages are left where they are.
MapFailsKeeps(a) ==
  /\ phase = "alloc"
  /\ heap[a] = 0
  /\ heap' = Allocated(Order[next], a)
  /\ ToUnwind(Zero, {"Map"})
  /\ UNCHANGED <<bus, wild>>

\* FREE_BUF_ON_ERROR.
MapFails(a) ==
  /\ phase = "alloc"
  /\ heap[a] = 0
  /\ FreeBuffer(Allocated(Order[next], a), a, Requested[Order[next]])
  /\ ToUnwind(Zero, {"Map"})
  /\ UNCHANGED bus

\* Map gives less than was asked for: UNMAP_ON_ERROR, whose failure is
\* ignored, then as many pages are freed as were mapped.
MapPartial(a, h, size, unmaps) ==
  /\ phase = "alloc"
  /\ IsFree(a, h)
  /\ size < Requested[Order[next]]
  /\ FreeBuffer(Allocated(Order[next], a), a, size)
  /\ IF unmaps
     THEN ToUnwind(Zero, {"Partial"}) /\ UNCHANGED bus
     ELSE /\ ToUnwind([Zero EXCEPT !.PhysicalAddress = a, !.Mapping = h], {"Partial", "Unmap"})
          /\ bus' = [bus EXCEPT ![h] = [addr |-> a, size |-> size]]

-----------------------------------------------------------------------------
(* Freeing: OnAllocError of IntelgbePciInit, and StopController.           *)

\* OnAllocError frees what has a mapping, StopController everything;
\* UndiDmaFreeCommonBuffer refuses what is not filled in.
ToFree(m) ==
  /\ phase = "unwind" => m.Mapping # NULL
  /\ m.Size # 0 /\ m.UnmappedAddress # NULL /\ m.PhysicalAddress # NULL

Freeing == phase \in {"unwind", "stop"} /\ next <= Len(Order)

SkipBuffer ==
  /\ Freeing
  /\ ~ToFree(NicInfo[Order[next]])
  /\ next' = next + 1
  /\ UNCHANGED <<phase, NicInfo, heap, bus, pci, failed, wild>>

FreeCommonBuffer ==
  LET m == NicInfo[Order[next]]
  IN /\ Freeing
     /\ ToFree(m)
     /\ bus' = [bus EXCEPT ![m.Mapping] = Unmapped]
     /\ FreeBuffer(heap, m.UnmappedAddress, m.Size)
     /\ NicInfo' = [NicInfo EXCEPT ![Order[next]] = Zero]
     /\ next' = next + 1
     /\ UNCHANGED <<phase, pci, failed>>

\* Mutant: the pages are freed although the device can still reach them.
UnmapFailsFrees ==
  LET m == NicInfo[Order[next]]
  IN /\ Freeing
     /\ ToFree(m)
     /\ FreeBuffer(heap, m.UnmappedAddress, m.Size)
     /\ next' = next + 1
     /\ failed' = failed \cup {"Unmap"}
     /\ UNCHANGED <<phase, NicInfo, bus, pci>>

\* Unmap fails: the buffer is kept, and the callers do not look.
UnmapFails ==
  /\ Freeing
  /\ ToFree(NicInfo[Order[next]])
  /\ next' = next + 1
  /\ failed' = failed \cup {"Unmap"}
  /\ UNCHANGED <<phase, NicInfo, heap, bus, pci, wild>>

\* Mutant: the error exit does not restore the attributes.
UnwindEndEnabled(restored) ==
  /\ phase = "unwind" /\ next > Len(Order)
  /\ failed' = failed
  /\ NicInfo' = NoMemory
  /\ phase' = "none" /\ next' = 1
  /\ UNCHANGED <<heap, bus, pci, wild>>

\* PciIoError, then IntelgbeUndiDriverStart frees the private data.
UnwindEnd(restored) ==
  /\ phase = "unwind" /\ next > Len(Order)
  /\ attributes' = IF restored THEN OriginalPciAttributes ELSE attributes
  /\ failed' = IF restored THEN failed ELSE failed \cup {"Restore"}
  /\ NicInfo' = NoMemory
  /\ phase' = "none" /\ next' = 1
  /\ UNCHANGED <<heap, bus, OriginalPciAttributes, wild>>

\* IntelgbeFirstTimeInit or a later step of IntelgbeUndiDriverStart fails,
\* and the private data is freed.
StartFails ==
  /\ phase = "ready"
  /\ failed' = failed \cup {"Start"}
  /\ NicInfo' = NoMemory
  /\ phase' = "none"
  /\ UNCHANGED <<next, heap, bus, pci, wild>>

StopController ==
  /\ phase = "ready"
  /\ phase' = "stop" /\ next' = 1
  /\ UNCHANGED <<NicInfo, heap, bus, pci, failed, wild>>

\* The private data is freed, or StopController gives up and keeps it.
StopControllerEnd(restored) ==
  /\ phase = "stop" /\ next > Len(Order)
  /\ next' = 1
  /\ IF restored
     THEN /\ attributes' = OriginalPciAttributes
          /\ NicInfo' = NoMemory
          /\ phase' = "none"
          /\ failed' = failed
     ELSE /\ phase' = "stuck"
          /\ failed' = failed \cup {"Restore"}
          /\ UNCHANGED <<attributes, NicInfo>>
  /\ UNCHANGED <<heap, bus, OriginalPciAttributes, wild>>

-----------------------------------------------------------------------------
Sizes == UNION {1 .. Requested[b] - 1 : b \in Buffers}

Next ==
  \/ EnableAttributes
  \/ AttributesFail
  \/ \E a \in Addresses, h \in Handles : AllocateDone(a, h)
  \/ AllocateFails
  \/ \E a \in Addresses : MapFails(a)
  \/ \E a \in Addresses, h \in Handles, size \in Sizes, unmaps \in BOOLEAN :
       MapPartial(a, h, size, unmaps)
  \/ SkipBuffer
  \/ FreeCommonBuffer
  \/ UnmapFails
  \/ \E restored \in BOOLEAN : UnwindEnd(restored) \/ StopControllerEnd(restored)
  \/ StartFails
  \/ StopController

Spec == Init /\ [][Next]_vars

-----------------------------------------------------------------------------
(* The type invariant.                                                     *)
TypeOK ==
  /\ phase \in {"none", "alloc", "unwind", "ready", "stop", "stuck"}
  /\ next \in 1 .. Len(Order) + 1
  /\ NicInfo \in [Buffers -> [UnmappedAddress : Addresses \cup {NULL},
                              PhysicalAddress : Addresses \cup {NULL},
                              Size : Nat, Mapping : Handles \cup {NULL}]]
  /\ heap \in [Addresses -> Nat]
  /\ bus \in [Handles -> [addr : Addresses \cup {NULL}, size : Nat]]
  /\ attributes \in {"platform", "enabled"}
  /\ OriginalPciAttributes \in {"platform", "enabled"}
  /\ failed \subseteq {"Attributes", "Allocate", "Map", "Partial", "Unmap", "Restore", "Start"}
  /\ wild \in BOOLEAN

(* When IntelgbePciInit has succeeded, each buffer has memory of its own,  *)
(* is mapped in full and fits in its pages: the descriptor rings are       *)
(* zeroed and given to the device in their full size.                      *)
ReadyIsWhole ==
  phase = "ready" =>
    \A b \in Buffers :
      LET m == NicInfo[b]
      IN /\ m.Size = Requested[b]
         /\ bus[m.Mapping] = [addr |-> m.UnmappedAddress, size |-> m.Size]
         /\ m.Size <= heap[m.UnmappedAddress] * PAGE_SIZE
         /\ \A c \in Buffers \ {b} : NicInfo[c].UnmappedAddress # m.UnmappedAddress

(* Whatever fails, FreeBuffer is never given pages that the driver does    *)
(* not hold: neither twice the same, nor those of a failed AllocateBuffer. *)
NoWildFree == ~wild

(* A mapping structure that names an address names memory that is held,    *)
(* and held for this buffer, also when StopController has given up half    *)
(* way and the private data lives on.                                      *)
RecordsLive ==
  \A b \in Buffers :
    LET m == NicInfo[b]
    IN m.UnmappedAddress # NULL =>
         heap[m.UnmappedAddress] > 0 /\ bus[m.Mapping].addr = m.UnmappedAddress

(* The device can reach no memory that was given back, unless the Unmap of *)
(* a partial mapping has failed: UNMAP_ON_ERROR comes before               *)
(* FREE_BUF_ON_ERROR, and UndiDmaFreeCommonBuffer unmaps before it frees.  *)
MappedIsHeld ==
  \/ {"Partial", "Unmap"} \subseteq failed
  \/ \A h \in Handles : bus[h] # Unmapped => bus[h].size <= heap[bus[h].addr] * PAGE_SIZE

(* No page and no mapping is lost by a failing allocation, mapping or      *)
(* attribute: every one held is in a mapping structure.  A partial         *)
(* mapping, a failed Unmap and a Start that fails after IntelgbePciInit do *)
(* lose some.                                                              *)
NothingLost ==
  failed \cap {"Partial", "Unmap", "Start"} = {} =>
    /\ \A a \in Addresses : heap[a] > 0 => \E b \in Buffers : NicInfo[b].UnmappedAddress = a
    /\ \A h \in Handles : bus[h] # Unmapped => \E b \in Buffers : NicInfo[b].Mapping = h

(* A controller that is not managed has the PCI attributes the platform    *)
(* gave it, unless a Start failed after IntelgbePciInit or the attributes  *)
(* could not be restored ("Restore original PCI attributes").              *)
AttributesRestored ==
  phase = "none" /\ failed \cap {"Restore", "Start"} = {} => attributes = "platform"

-----------------------------------------------------------------------------
(* The inductive invariant behind these.  A mapping structure with an      *)
(* address is filled in completely and has its pages and its mapping for   *)
(* itself; one without has no size.                                        *)
Filled(b) == NicInfo[b].UnmappedAddress # NULL

RecordsHeld ==
  \A b \in Buffers :
    LET m == NicInfo[b]
    IN IF Filled(b)
       THEN /\ m.PhysicalAddress = m.UnmappedAddress
            /\ m.Size = Requested[b]
            /\ m.Mapping \in Handles
            /\ heap[m.UnmappedAddress] = BytesToPages(Requested[b])
            /\ bus[m.Mapping] = [addr |-> m.UnmappedAddress, size |-> Requested[b]]
            /\ \A c \in Buffers \ {b} : NicInfo[c].UnmappedAddress # m.UnmappedAddress
       ELSE m.Size = 0 /\ ("Unmap" \notin failed => m = Zero)

(* How far allocation and freeing have come.                               *)
Progress ==
  /\ phase = "none" => NicInfo = NoMemory
  /\ phase = "alloc" => /\ next <= Len(Order)
                        /\ \A i \in 1 .. next - 1 : Filled(Order[i])
                        /\ \A i \in next .. Len(Order) : NicInfo[Order[i]] = Zero
  /\ phase = "ready" => \A b \in Buffers : Filled(b)
  /\ phase \in {"unwind", "stop"} /\ "Unmap" \notin failed =>
       \A i \in 1 .. next - 1 : NicInfo[Order[i]] = Zero

(* Live mappings are of memory that is held, no two of the same memory.    *)
MappingsApart ==
  \/ {"Partial", "Unmap"} \subseteq failed
  \/ \A h \in Handles :
       bus[h] # Unmapped =>
         /\ bus[h].addr \in Addresses
         /\ heap[bus[h].addr] > 0
         /\ bus[h].size <= heap[bus[h].addr] * PAGE_SIZE
         /\ \A g \in Handles \ {h} : bus[g].addr # bus[h].addr

AttributesKept ==
  failed \cap {"Restore", "Start"} = {} =>
    /\ OriginalPciAttributes = "platform"
    /\ phase = "none" => attributes = "platform"

IInv == /\ TypeOK /\ NoWildFree /\ RecordsHeld /\ Progress
        /\ MappingsApart /\ NothingLost /\ AttributesKept

-----------------------------------------------------------------------------
(* An allocation that fails to map the whole area gives everything back    *)
(* ("EFI_OUT_OF_RESOURCES  Failed to map whole requested area").           *)
PartialLosesNothing ==
  phase = "none" /\ failed = {"Partial"} => \A a \in Addresses : heap[a] = 0

(* A Start that fails leaves the controller as it found it, as             *)
(* IntelgbePciInit does on errors of its own.                              *)
FailedStartLosesNothing ==
  phase = "none" /\ failed = {"Start"} =>
    attributes = "platform" /\ \A a \in Addresses : heap[a] = 0
=============================================================================
