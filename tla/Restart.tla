------------------------------ MODULE Restart -------------------------------
(***************************************************************************)
(* Both rings of one adapter across the driver-stop protocol.  StartDriver *)
(* (StartStop.c) initialises the device again while buffers of the caller  *)
(* are in the transmit ring and frames in the receive ring; the device     *)
(* starts over at entry 0 of each, the driver's own indices stay.          *)
(*                                                                         *)
(* Commands are serialised, so one call at most is inside Transmit,        *)
(* GetStatus or Receive; StartDriver falls between two of them.  The       *)
(* receive ring is RxRing's own state, the transmit ring an instance T.    *)
(***************************************************************************)
EXTENDS RxRing, TLC

CONSTANTS
  DEFAULT_TX_DESCRIPTORS, Buffers, NoBuf, MaxFrags, MapMayFail,  \* of TxRing
  MaxRestarts    \* bound on the calls of StartDriver

ASSUME RestartAssumption ==
  /\ MaxRestarts \in Nat
  /\ DEFAULT_TX_DESCRIPTORS \in Nat /\ DEFAULT_TX_DESCRIPTORS > 1

ASSUME TxDataAssumption ==
  NoBuf \notin Buffers /\ MaxFrags \in Nat /\ MapMayFail \in BOOLEAN

VARIABLES
  cur_tx, dirty_tx, tx_desc, TxBufferMappings, liveMaps, tx, tx_tail_addr,
  hwCur, hwBusy, hwBuf, callerOwns, onWire,
  restarts       \* calls of StartDriver so far

T == INSTANCE TxRing

txVars == <<cur_tx, dirty_tx, tx_desc, TxBufferMappings, liveMaps, tx, tx_tail_addr,
            hwCur, hwBusy, hwBuf, callerOwns, onWire>>
vars   == <<txVars, rvars, restarts>>

Init == T!Init /\ RxInit /\ restarts = 0

-----------------------------------------------------------------------------
\* Mutant: the descriptors are cleared under an engine that still reads.
DmaInitTxRunning ==
  /\ tx_desc' = [e \in T!Entries |-> T!ZeroDesc]
  /\ tx_tail_addr' = 0
  /\ hwCur' = 0
  /\ UNCHANGED <<cur_tx, dirty_tx, TxBufferMappings, liveMaps, tx, hwBusy, hwBuf, callerOwns, onWire>>

\* intelgbe_dma_init: list address and tail pointer go back to entry 0, the
\* channel is stopped and the descriptors are cleared; cur_tx, dirty_tx and
\* the mappings are left as they are.
DmaInitTx ==
  /\ tx_desc' = [e \in T!Entries |-> T!ZeroDesc]
  /\ tx_tail_addr' = 0
  /\ hwCur' = 0
  /\ hwBusy' = NoEntry
  /\ hwBuf' = NoBuf
  /\ UNCHANGED <<cur_tx, dirty_tx, TxBufferMappings, liveMaps, tx, callerOwns, onWire>>

\* Its receive half, with intelgbe_dma_rx_desc_init; cur_rx is left.
DmaInitRx ==
  /\ rx_desc' = [e \in Entries |-> [own |-> TRUE, status |-> "none"]]
  /\ rx_tail_addr' = N
  /\ tail_ptr' = [tail_ptr EXCEPT ![Chan] = N]
  /\ hwRx' = 0
  /\ hwRxBusy' = NoEntry
  /\ UNCHANGED <<cur_rx, rx_buff, rx, db>>

StartDriver ==
  /\ tx.step = "idle" /\ rx.step = "idle"
  /\ restarts < MaxRestarts
  /\ restarts' = restarts + 1
  /\ DmaInitTx
  /\ DmaInitRx

-----------------------------------------------------------------------------
TxOnly == UNCHANGED <<rvars, restarts>>
RxOnly == UNCHANGED <<txVars, restarts>>

Transmit    == rx.step = "idle" /\ T!Transmit /\ TxOnly
DriverStep  == T!DriverStep /\ TxOnly
Status      == rx.step = "idle" /\ T!Free /\ TxOnly
ReceiveCall == tx.step = "idle" /\ Receive /\ RxOnly
TxFetch     == T!HwFetch /\ TxOnly
TxWriteBack == T!HwWriteBack /\ TxOnly
RxEngine    == HwRx /\ RxOnly

Next == \/ Transmit \/ DriverStep \/ Status
        \/ ReceiveCall
        \/ TxFetch \/ TxWriteBack \/ RxEngine
        \/ StartDriver

Spec == Init /\ [][Next]_vars

(* A call runs to its end, the transmit engine serves what lies before the *)
(* tail pointer, and the caller asks for the status and for frames again   *)
(* and again.                                                              *)
FairSpec ==
  /\ Spec
  /\ WF_vars(DriverStep)
  /\ WF_vars(hwCur # tx_tail_addr /\ TxFetch)
  /\ WF_vars(TxWriteBack)
  /\ SF_vars(Status)
  /\ SF_vars(ReceiveCall)

Symmetry == Permutations(Buffers)

-----------------------------------------------------------------------------
(* Across restarts, no buffer is in two places of the transmit ring or in  *)
(* the ring and in the caller's hands: IntelgbeFreeTxBuffers returns each  *)
(* buffer once, whatever intelgbe_dma_init cleared under it.               *)
OwnershipKept == T!Ownership

(* What the transmit engine reads, wherever a restart has put it, is a     *)
(* buffer that is mapped: the driver's stale indices never lead it to one  *)
(* that has gone back to the caller.                                       *)
EngineReadsMapped == T!HwReadsMapped

(* The receive engine, back at entry 0 while cur_rx is not, never writes   *)
(* the buffer IntelgbeReceive is copying from.                             *)
CopyKept == CopyUndisturbed

(* What is left of the ring's shape after a restart: the engine need not   *)
(* stand between dirty_tx and cur_tx any more, but the descriptors it owns *)
(* lie there, and the one it is at work on is among them.                  *)
EngineOwnsWindow ==
  /\ \A e \in T!Entries :
       tx_desc[e].own => T!InWindow(e) /\ ~(T!Filling /\ e = tx.first)
  /\ hwBusy # NoEntry => /\ hwBusy = hwCur
                         /\ tx_desc[hwCur].own
                         /\ hwBuf = tx_desc[hwCur].addr
  /\ hwBusy = NoEntry => hwBuf = NoBuf

(* There is room for the fragments still to come, wherever the engine is.  *)
RoomForFrame ==
  T!Filling => /\ T!InWindow(tx.first)
               /\ tx.step = "frag" =>
                    T!Outstanding + (Len(tx.frags) - tx.i + 1) < T!N

(* The inductive invariant of both rings across restarts.                  *)
TxIInv == /\ T!TypeOK /\ T!Ownership /\ T!FragsHeld
          /\ EngineOwnsWindow /\ RoomForFrame
IInv   == TxIInv /\ RxIInv

(* "Free TX buffers that have been transmitted by the hardware"            *)
(* (IntelgbeFreeTxBuffers).  A restart breaks it: buffers whose            *)
(* descriptors were cleared count as transmitted.                          *)
ReturnedWereSent == T!ReturnedWereSent

(* "EFI_SUCCESS   If driver has restarted successfully" (StartDriver):     *)
(* buffers handed over after a restart come back too.  They do not when    *)
(* cur_tx was not at 0.                                                    *)
EveryBufferReturns == T!EveryBufferReturns

(* "When the network adapter has received a frame, this command is used to *)
(* copy the frame into the driver/application storage location"            *)
(* (IntelgbeUndiReceive).  A restart with cur_rx not at 0 breaks it.       *)
StoredFrameIsReceived == FilledIsRecycled
=============================================================================
