------------------------------- MODULE TxRing -------------------------------
(***************************************************************************)
(* The transmit descriptor ring of the driver: IntelgbeTransmit and        *)
(* IntelgbeFreeTxBuffers (Intelgbe.c) on one side, the transmit DMA engine *)
(* of the MAC (external) on the other, interleaved.                        *)
(*                                                                         *)
(* A frame buffer is a member of Buffers and stands for its address; the   *)
(* caller's ownership of it is the one the comment of IntelgbeUndiTransmit *)
(* (Decode.c) describes.  Descriptor indices keep the code's arithmetic.   *)
(***************************************************************************)
EXTENDS Integers, Sequences, FiniteSets

CONSTANTS
  DEFAULT_TX_DESCRIPTORS,  \* entries of the ring (512 in Intelgbe.h)
  Buffers,                 \* frame buffers of the caller
  NoBuf,                   \* the null address
  NoEntry,                 \* the DMA engine is working on no descriptor
  MaxFrags,                \* largest FragCnt of a fragmented frame, 0: none
  MapMayFail               \* may EFI_PCI_IO_PROTOCOL.Map fail?

(* The ring size is a power of two: IntelgbeFreeTxBuffers wraps with       *)
(* & (DEFAULT_TX_DESCRIPTORS - 1), IntelgbeTransmit with a comparison.     *)
ASSUME RingAssumption ==
  /\ DEFAULT_TX_DESCRIPTORS \in Nat
  /\ DEFAULT_TX_DESCRIPTORS > 1

ASSUME PowerOfTwoAssumption == \E k \in 1..16 : DEFAULT_TX_DESCRIPTORS = 2^k

ASSUME TxConstantsAssumption ==
  /\ NoBuf \notin Buffers
  /\ NoEntry \notin Nat
  /\ MaxFrags \in Nat
  /\ MapMayFail \in BOOLEAN

N == DEFAULT_TX_DESCRIPTORS
Entries == 0 .. N - 1

VARIABLES
  cur_tx,            \* next descriptor to fill
  dirty_tx,          \* oldest descriptor not yet reclaimed
  tx_desc,           \* the descriptors, shared with the DMA engine
  TxBufferMappings,  \* per entry: the caller's address and its mapping
  liveMaps,          \* buffers with a live PciIo mapping
  tx,                \* the transmit call in progress
  tx_tail_addr,      \* tail pointer register of DMA channel 0
  hwCur,             \* descriptor the DMA engine looks at next
  hwBusy,            \* descriptor whose buffer it is reading, or NoEntry
  hwBuf,             \* that buffer, fetched with the descriptor, or NoBuf
  callerOwns,        \* buffers in the caller's hands
  onWire             \* buffers read to the end since they were submitted

ringVars == <<cur_tx, dirty_tx, tx_desc, TxBufferMappings, liveMaps, tx>>
hwVars   == <<tx_tail_addr, hwCur, hwBusy, hwBuf>>
vars     == <<ringVars, hwVars, callerOwns, onWire>>

Desc    == [own : BOOLEAN, fd : BOOLEAN, ld : BOOLEAN, addr : Buffers \cup {NoBuf}]
Mapping == [UnmappedAddress : Buffers \cup {NoBuf}, mapped : BOOLEAN]

Call    == [step : {"idle", "frag", "first", "tail"}, first : Entries,
            frags : Seq(Buffers), i : Nat]

ZeroDesc    == [own |-> FALSE, fd |-> FALSE, ld |-> FALSE, addr |-> NoBuf]
ZeroMapping == [UnmappedAddress |-> NoBuf, mapped |-> FALSE]
Idle        == [step |-> "idle", first |-> 0, frags |-> <<>>, i |-> 0]

-----------------------------------------------------------------------------
(* Index arithmetic.                                                       *)

\* Mutant: the wrap comes one descriptor late.
NextEntryLate(e) == IF e + 1 > N THEN 0 ELSE e + 1

\* cur_tx++ with its wrap; (entry + 1) & (N - 1) for a power of two.
NextEntry(e) == IF e + 1 >= N THEN 0 ELSE e + 1

\* k < N steps of the reclaim loop.
Advance(e, k) == IF e + k >= N THEN e + k - N ELSE e + k

\* How far e lies past dirty_tx.
Offset(e) == IF e >= dirty_tx THEN e - dirty_tx ELSE e - dirty_tx + N

\* Mutant: the slot kept empty between cur_tx and dirty_tx is given away.
AvailNoGap == IF dirty_tx > cur_tx THEN dirty_tx - cur_tx
                                   ELSE N - cur_tx + dirty_tx

\* Free descriptors as IntelgbeTransmit counts them.
Avail == IF dirty_tx > cur_tx THEN dirty_tx - cur_tx - 1
                              ELSE N - cur_tx + dirty_tx - 1

Outstanding == Offset(cur_tx)

-----------------------------------------------------------------------------
(* The state IntelgbeFirstTimeInit leaves: zeroed private data, cur_tx     *)
(* reset, the ring cleared, list and tail pointer at entry 0.              *)
Init ==
  /\ cur_tx = 0
  /\ dirty_tx = 0
  /\ tx_desc = [e \in Entries |-> ZeroDesc]
  /\ TxBufferMappings = [e \in Entries |-> ZeroMapping]
  /\ liveMaps = {}
  /\ tx = Idle
  /\ tx_tail_addr = 0
  /\ hwCur = 0
  /\ hwBusy = NoEntry
  /\ hwBuf = NoBuf
  /\ callerOwns = Buffers
  /\ onWire = {}

-----------------------------------------------------------------------------
(* IntelgbeTransmit.  A call is cut where the DMA engine can see a         *)
(* difference: at each descriptor it is given, and at the tail pointer.    *)

\* A whole frame: the mapping is recorded, its failure is only logged, and
\* the descriptor goes to the hardware either way.
TransmitLinear(b) ==
  /\ tx.step = "idle"
  /\ b \in callerOwns
  /\ Avail >= 1
  /\ \E ok \in BOOLEAN :
       /\ ok \/ MapMayFail
       /\ TxBufferMappings' = [TxBufferMappings EXCEPT ![cur_tx] =
                                 [UnmappedAddress |-> b, mapped |-> ok]]
       /\ liveMaps' = IF ok THEN liveMaps \cup {b} ELSE liveMaps
       /\ tx_desc' = [tx_desc EXCEPT ![cur_tx] =
                        [own |-> TRUE, fd |-> TRUE, ld |-> TRUE,
                         addr |-> IF ok THEN b ELSE NoBuf]]
  /\ cur_tx' = NextEntry(cur_tx)
  /\ tx' = [Idle EXCEPT !.step = "tail"]
  /\ callerOwns' = callerOwns \ {b}
  /\ onWire' = onWire \ {b}
  /\ UNCHANGED <<dirty_tx, hwVars>>

FragLists == UNION {[1..n -> Buffers] : n \in 1..MaxFrags}
Distinct(f) == \A i, j \in DOMAIN f : f[i] = f[j] => i = j

\* A fragmented frame: room for all fragments, and the first descriptor
\* is set aside, to be filled last.
TransmitFragmented(f) ==
  /\ tx.step = "idle"
  /\ Distinct(f)
  /\ \A i \in DOMAIN f : f[i] \in callerOwns
  /\ Avail >= Len(f)
  /\ cur_tx' = NextEntry(cur_tx)
  /\ tx' = [step |-> IF Len(f) > 1 THEN "frag" ELSE "first",
            first |-> cur_tx, frags |-> f, i |-> 2]
  /\ callerOwns' = callerOwns \ {f[i] : i \in DOMAIN f}
  /\ onWire' = onWire \ {f[i] : i \in DOMAIN f}
  /\ UNCHANGED <<dirty_tx, tx_desc, TxBufferMappings, liveMaps, hwVars>>

\* IntelgbeMapMem hands out the address itself; the FD and LD bits are set
\* in a local that is then overwritten from the descriptor.
FragDesc(b) == [own |-> TRUE, fd |-> FALSE, ld |-> FALSE, addr |-> b]

\* Mutant: the fragment is written to the descriptor set aside (desc not moved).
FillFragmentInPlace ==
  /\ tx.step = "frag"
  /\ tx_desc' = [tx_desc EXCEPT ![tx.first] = FragDesc(tx.frags[tx.i])]
  /\ cur_tx' = NextEntry(cur_tx)
  /\ tx' = [tx EXCEPT !.i = @ + 1,
                      !.step = IF tx.i = Len(tx.frags) THEN "first" ELSE "frag"]
  /\ UNCHANGED <<dirty_tx, TxBufferMappings, liveMaps, hwVars, callerOwns, onWire>>

FillFragment ==
  /\ tx.step = "frag"
  /\ tx_desc' = [tx_desc EXCEPT ![cur_tx] = FragDesc(tx.frags[tx.i])]
  /\ cur_tx' = NextEntry(cur_tx)
  /\ tx' = [tx EXCEPT !.i = @ + 1,
                      !.step = IF tx.i = Len(tx.frags) THEN "first" ELSE "frag"]
  /\ UNCHANGED <<dirty_tx, TxBufferMappings, liveMaps, hwVars, callerOwns, onWire>>

FillFirst ==
  /\ tx.step = "first"
  /\ tx_desc' = [tx_desc EXCEPT ![tx.first] = FragDesc(tx.frags[1])]
  /\ tx' = [Idle EXCEPT !.step = "tail"]
  /\ UNCHANGED <<cur_tx, dirty_tx, TxBufferMappings, liveMaps, hwVars, callerOwns, onWire>>

\* Mutant: the transmit call ends without moving the tail pointer.
WriteTailKeeps ==
  /\ tx.step = "tail"
  /\ tx' = Idle
  /\ UNCHANGED <<cur_tx, dirty_tx, tx_desc, TxBufferMappings, liveMaps,
                 hwVars, callerOwns, onWire>>

WriteTail ==
  /\ tx.step = "tail"
  /\ tx_tail_addr' = cur_tx
  /\ tx' = Idle
  /\ UNCHANGED <<cur_tx, dirty_tx, tx_desc, TxBufferMappings, liveMaps,
                 hwCur, hwBusy, hwBuf, callerOwns, onWire>>

-----------------------------------------------------------------------------
(* IntelgbeFreeTxBuffers: reclaim from dirty_tx on, up to NumEntries, and  *)
(* stop at a busy descriptor or at one with no recorded address.  The DMA  *)
(* engine only ever clears own bits, so the loop is one step.              *)

\* Mutant: the own bit is not looked at.
ReclaimableBusy(k) ==
  /\ k < Outstanding
  /\ TxBufferMappings[Advance(dirty_tx, k)].UnmappedAddress # NoBuf

Reclaimable(k) ==
  /\ k < Outstanding
  /\ ~tx_desc[Advance(dirty_tx, k)].own
  /\ TxBufferMappings[Advance(dirty_tx, k)].UnmappedAddress # NoBuf

\* Mutant: the mapping of a reclaimed entry is not cleared.
FreeTxBuffersKeeps(NumEntries) ==
  \E count \in 1 .. N - 1 :
    LET freed == {Advance(dirty_tx, k) : k \in 0 .. count - 1}
        bufs  == {TxBufferMappings[e].UnmappedAddress : e \in freed}
    IN /\ tx.step = "idle"
       /\ count <= NumEntries
       /\ \A k \in 0 .. count - 1 : Reclaimable(k)
       /\ count = NumEntries \/ ~Reclaimable(count)
       /\ dirty_tx' = Advance(dirty_tx, count)
       /\ tx_desc' = [e \in Entries |->
            IF e \in freed THEN ZeroDesc ELSE tx_desc[e]]
       /\ liveMaps' = liveMaps \ bufs
       /\ callerOwns' = callerOwns \cup bufs
       /\ UNCHANGED <<cur_tx, TxBufferMappings, tx, hwVars, onWire>>

FreeTxBuffers(NumEntries) ==
  \E count \in 1 .. N - 1 :
    LET freed == {Advance(dirty_tx, k) : k \in 0 .. count - 1}
        bufs  == {TxBufferMappings[e].UnmappedAddress : e \in freed}
    IN /\ tx.step = "idle"
       /\ count <= NumEntries
       /\ \A k \in 0 .. count - 1 : Reclaimable(k)
       /\ count = NumEntries \/ ~Reclaimable(count)
       /\ dirty_tx' = Advance(dirty_tx, count)
       /\ TxBufferMappings' = [e \in Entries |->
            IF e \in freed THEN ZeroMapping ELSE TxBufferMappings[e]]
       /\ tx_desc' = [e \in Entries |->
            IF e \in freed THEN ZeroDesc ELSE tx_desc[e]]
       /\ liveMaps' = liveMaps \ bufs
       /\ callerOwns' = callerOwns \cup bufs
       /\ UNCHANGED <<cur_tx, tx, hwVars, onWire>>

-----------------------------------------------------------------------------
(* The transmit DMA engine, external: it takes the descriptor it is at     *)
(* when that descriptor is its own, reads the buffer, and writes the       *)
(* descriptor back with own cleared.  It may run ahead of the tail         *)
(* pointer, and has to run when the tail pointer is past it.               *)

HwFetch ==
  /\ hwBusy = NoEntry
  /\ tx_desc[hwCur].own
  /\ hwBusy' = hwCur
  /\ hwBuf' = tx_desc[hwCur].addr
  /\ UNCHANGED <<ringVars, tx_tail_addr, hwCur, callerOwns, onWire>>

HwWriteBack ==
  /\ hwBusy # NoEntry
  /\ tx_desc' = [tx_desc EXCEPT ![hwBusy].own = FALSE]
  /\ onWire' = onWire \cup ({hwBuf} \ {NoBuf})
  /\ hwCur' = NextEntry(hwCur)
  /\ hwBusy' = NoEntry
  /\ hwBuf' = NoBuf
  /\ UNCHANGED <<cur_tx, dirty_tx, TxBufferMappings, liveMaps, tx,
                 tx_tail_addr, callerOwns>>

-----------------------------------------------------------------------------
DriverStep == FillFragment \/ FillFirst \/ WriteTail

Transmit ==
  \/ \E b \in Buffers : TransmitLinear(b)
  \/ \E f \in FragLists : TransmitFragmented(f)

Free == \E NumEntries \in 1 .. N : FreeTxBuffers(NumEntries)

Next == Transmit \/ DriverStep \/ Free \/ HwFetch \/ HwWriteBack

Spec == Init /\ [][Next]_vars

(* A call runs to its end; the engine serves what lies before the tail     *)
(* pointer and finishes what it started; the caller keeps polling          *)
(* GetStatus.  Nobody has to transmit.                                     *)
Fairness ==
  /\ WF_vars(DriverStep)
  /\ WF_vars(hwCur # tx_tail_addr /\ HwFetch)
  /\ WF_vars(HwWriteBack)
  /\ WF_vars(Free)

FairSpec == Spec /\ Fairness
-----------------------------------------------------------------------------
(* The type invariant.                                                     *)
TypeOK ==
  /\ cur_tx \in Entries
  /\ dirty_tx \in Entries
  /\ tx_desc \in [Entries -> Desc]
  /\ TxBufferMappings \in [Entries -> Mapping]
  /\ liveMaps \in SUBSET Buffers
  /\ tx \in Call
  /\ tx_tail_addr \in Entries
  /\ hwCur \in Entries
  /\ hwBusy \in Entries \cup {NoEntry}
  /\ hwBuf \in Buffers \cup {NoBuf}
  /\ callerOwns \in SUBSET Buffers
  /\ onWire \in SUBSET Buffers

\* Entry e lies between dirty_tx and cur_tx.
InWindow(e) == Offset(e) < Outstanding

Filling == tx.step \in {"frag", "first"}

(* The ring keeps its shape whatever the interleaving of IntelgbeTransmit, *)
(* IntelgbeFreeTxBuffers and the DMA engine: the engine stands between     *)
(* dirty_tx and cur_tx, it owns exactly the descriptors from its place to  *)
(* cur_tx but the one set aside for the first fragment, and what lies      *)
(* outside the window carries no caller's address.                         *)
HwInWindow ==
  /\ Offset(hwCur) <= Outstanding
  /\ hwBusy # NoEntry => /\ hwBusy = hwCur
                         /\ tx_desc[hwCur].own
                         /\ hwBuf = tx_desc[hwCur].addr
  /\ hwBusy = NoEntry => hwBuf = NoBuf

OwnIffPending ==
  \A e \in Entries :
    tx_desc[e].own <=> /\ InWindow(e)
                       /\ Offset(hwCur) <= Offset(e)
                       /\ ~(Filling /\ e = tx.first)

ClearOutside ==
  \A e \in Entries :
    ~InWindow(e) => /\ tx_desc[e].addr = NoBuf
                    /\ TxBufferMappings[e].UnmappedAddress = NoBuf

RingShape == HwInWindow /\ OwnIffPending /\ ClearOutside

(* No buffer is in two places of the ring, and none that is in the ring is *)
(* in the caller's hands: each buffer accepted by IntelgbeTransmit is      *)
(* returned at most once by IntelgbeFreeTxBuffers.                         *)
NotReturned ==
  \A e \in Entries : /\ tx_desc[e].addr \notin callerOwns
                     /\ TxBufferMappings[e].UnmappedAddress \notin callerOwns

OneEntryPerBuffer ==
  \A e, f \in Entries :
    /\ TxBufferMappings[e].UnmappedAddress # NoBuf
    /\ TxBufferMappings[e].UnmappedAddress \in
         {TxBufferMappings[f].UnmappedAddress, tx_desc[f].addr}
    => e = f

Ownership == NotReturned /\ OneEntryPerBuffer

(* The DMA engine never reads a buffer that is in the caller's hands:      *)
(* IntelgbeFreeTxBuffers returns an address only after the engine is done  *)
(* with its descriptor.                                                    *)
NoDmaOnCallerBuffer == hwBuf \notin callerOwns

(* The buffer the DMA engine is reading has a live PciIo mapping: unmap    *)
(* and reclaim of a descriptor never overtake the engine.                  *)
HwReadsMapped == hwBusy # NoEntry => hwBuf \in liveMaps

(* Only a buffer the hardware has read to its end is handed back: "Free TX *)
(* buffers that have been transmitted by the hardware"                     *)
(* (IntelgbeFreeTxBuffers).                                                *)
ReturnedWereSent ==
  [][\A b \in Buffers : b \in callerOwns' \ callerOwns => b \in onWire]_vars

(* A fragmented frame reaches the engine whole: while the driver is still  *)
(* filling its descriptors, the engine does not get past the first of      *)
(* them, and there is room for the fragments still to come.                *)
FrameHeldBack ==
  Filling => /\ InWindow(tx.first)
             /\ Offset(hwCur) <= Offset(tx.first)
             /\ tx.step = "frag" => Outstanding + (Len(tx.frags) - tx.i + 1) < N

(* The fragments of the frame being filled are neither in the caller's     *)
(* hands nor recorded for another entry.                                   *)
FragsHeld ==
  Filling =>
    /\ Len(tx.frags) >= 1
    /\ tx.i >= 2
    /\ tx.step = "frag" => tx.i <= Len(tx.frags)
    /\ \A j \in DOMAIN tx.frags :
         /\ tx.frags[j] \notin callerOwns
         /\ \A e \in Entries : TxBufferMappings[e].UnmappedAddress # tx.frags[j]

(* The inductive invariant of the ring.                                    *)
IInv == TypeOK /\ RingShape /\ Ownership /\ FrameHeldBack /\ FragsHeld

-----------------------------------------------------------------------------
(* Whole frames: the refinement to TxQueue.                                *)

\* The buffers between dirty_tx and cur_tx, oldest first.
Queue == [i \in 1 .. Outstanding |->
            TxBufferMappings[Advance(dirty_tx, i - 1)].UnmappedAddress]

Q == INSTANCE TxQueue WITH Capacity <- N - 1,
                           queue <- Queue,
                           nsent <- Offset(hwCur)

(* The ring implements the queue of TxQueue: whole frames leave and their  *)
(* buffers return in the order IntelgbeTransmit accepted them.             *)
ImplementsTxQueue == Q!Spec

(* With whole frames whose mapping succeeds, a descriptor of the engine's  *)
(* names the buffer recorded for it, which is mapped, and an entry the     *)
(* engine is past holds a buffer that was read to its end.                 *)
PendingMapped ==
  \A e \in Entries :
    tx_desc[e].own => /\ tx_desc[e].addr = TxBufferMappings[e].UnmappedAddress
                      /\ tx_desc[e].addr # NoBuf
                      /\ tx_desc[e].addr \in liveMaps

SentWereRead ==
  \A e \in Entries :
    InWindow(e) /\ Offset(e) < Offset(hwCur) =>
      TxBufferMappings[e].UnmappedAddress \in onWire

WholeIInv == IInv /\ ~Filling /\ PendingMapped /\ SentWereRead

-----------------------------------------------------------------------------
(* Every buffer the driver accepts is in the end returned, as long as the  *)
(* caller polls the status and the hardware runs: the cleanup promised by  *)
(* the comment of IntelgbeTransmit.                                        *)
EveryBufferReturns ==
  \A b \in Buffers : (b \notin callerOwns) ~> (b \in callerOwns)

(* What the comment of IntelgbeTransmit promises for PXE_STATCODE_SUCCESS, *)
(* "If the frame goes out": a descriptor given to the hardware names a     *)
(* buffer.                                                                 *)
AcceptedFrameHasAddress ==
  \A e \in Entries : tx_desc[e].own => tx_desc[e].addr # NoBuf

(* A frame handed to the hardware ends in a descriptor marked last, as     *)
(* "(i + 1) == TxFrags->FragCnt ... tdes3 |= BIT(28)" means it to: "Takes  *)
(* either one fragment or many and places them onto the wire"              *)
(* (IntelgbeTransmit).                                                     *)
FrameHasEnd == tx.step = "tail" => tx_desc[Advance(cur_tx, N - 1)].ld
=============================================================================
