------------------------------- MODULE RxRing -------------------------------
(***************************************************************************)
(* The receive descriptor ring: IntelgbeReceive (Intelgbe.c) on one side,  *)
(* the receive DMA engine of channel rx_queue->chan (external) on the      *)
(* other.  A call of IntelgbeReceive is cut where the engine's writes can  *)
(* fall between its accesses: the look at the descriptor, the copy, the    *)
(* return of the descriptor.                                               *)
(***************************************************************************)
EXTENDS Integers, Sequences, FiniteSets

CONSTANTS
  DEFAULT_RX_DESCRIPTORS,  \* entries of the ring (512 in Intelgbe.h)
  Frames,                  \* frames on the wire: [id, dest, len]
  NoFrame,                 \* an empty buffer
  NoEntry,                 \* no descriptor
  BufferLens               \* PXE_CPB_RECEIVE.BufferLen of the callers

ASSUME RxRingAssumption ==
  /\ DEFAULT_RX_DESCRIPTORS \in Nat
  /\ DEFAULT_RX_DESCRIPTORS > 1
  /\ NoEntry \notin Nat
  /\ NoFrame \notin Frames

ASSUME RxDataAssumption ==
  /\ \A f \in Frames : f.len \in Nat /\ f.len <= 32767
  /\ BufferLens \subseteq Nat

N == DEFAULT_RX_DESCRIPTORS
Entries == 0 .. N - 1
Chan == 1                  \* rx_queue[0].chan

VARIABLES
  cur_rx,        \* next descriptor IntelgbeReceive looks at
  rx_desc,       \* the descriptors: own bit and receive status
  rx_buff,       \* the frame in each receive buffer
  rx_tail_addr,  \* the driver's record of the tail pointer
  tail_ptr,      \* the tail pointer register of each DMA channel
  hwRx,          \* descriptor the DMA engine looks at next
  hwRxBusy,      \* descriptor whose buffer it is writing, or NoEntry
  rx,            \* the IntelgbeReceive call in progress
  db             \* what the last call left: status code, frame, length, type

hwVars  == <<hwRx, hwRxBusy>>
tailVars == <<rx_tail_addr, tail_ptr>>
rvars   == <<cur_rx, rx_desc, rx_buff, tailVars, hwVars, rx, db>>

Statuses == {"none", "ok", "error"}
Types    == {"none", "unicast", "broadcast", "multicast", "promiscuous"}
Idle     == [step |-> "idle", entry |-> 0, ok |-> FALSE, BufferLen |-> 0]

\* The data block of a call before anything is written to it.
NoData   == [StatCode |-> "none", frame |-> NoFrame, FrameLen |-> 0, Type |-> "none"]

\* The tail pointer of an entry; N is the end of the ring.
Tails == 0 .. N

NextEntry(e) == IF e + 1 >= N THEN 0 ELSE e + 1

RxInit ==
  /\ cur_rx = 0
  /\ rx_desc = [e \in Entries |-> [own |-> TRUE, status |-> "none"]]
  /\ rx_buff = [e \in Entries |-> NoFrame]
  /\ rx_tail_addr = N
  /\ tail_ptr = [c \in {0, Chan} |-> IF c = Chan THEN N ELSE 0]
  /\ hwRx = 0
  /\ hwRxBusy = NoEntry
  /\ rx = Idle
  /\ db = NoData

-----------------------------------------------------------------------------
(* IntelgbeReceive.                                                        *)

\* The descriptor still belongs to the engine: PXE_STATCODE_NO_DATA.
ReceiveNoData ==
  /\ rx.step = "idle"
  /\ rx_desc[cur_rx].own
  /\ db' = [NoData EXCEPT !.StatCode = "NO_DATA"]
  /\ UNCHANGED <<cur_rx, rx_desc, rx_buff, tailVars, hwVars, rx>>

\* Mutant: the last descriptor wraps to 1.
ReceiveCheckSkips(BufferLen) ==
  /\ rx.step = "idle"
  /\ ~rx_desc[cur_rx].own
  /\ rx' = [step |-> "copy", entry |-> cur_rx,
            ok |-> rx_desc[cur_rx].status = "ok", BufferLen |-> BufferLen]
  /\ cur_rx' = IF cur_rx + 1 >= N THEN 1 ELSE cur_rx + 1
  /\ db' = NoData
  /\ UNCHANGED <<rx_desc, rx_buff, tailVars, hwVars>>

\* Mutant: the descriptor is given back before its frame is copied.
ReceiveCheckReturns(BufferLen) ==
  /\ rx.step = "idle"
  /\ ~rx_desc[cur_rx].own
  /\ rx' = [step |-> "copy", entry |-> cur_rx,
            ok |-> rx_desc[cur_rx].status = "ok", BufferLen |-> BufferLen]
  /\ rx_desc' = [rx_desc EXCEPT ![cur_rx].own = TRUE]
  /\ cur_rx' = NextEntry(cur_rx)
  /\ db' = NoData
  /\ UNCHANGED <<rx_buff, tailVars, hwVars>>

\* Its own bit is clear: the status is judged and cur_rx moves on.
ReceiveCheck(BufferLen) ==
  /\ rx.step = "idle"
  /\ ~rx_desc[cur_rx].own
  /\ rx' = [step |-> "copy", entry |-> cur_rx,
            ok |-> rx_desc[cur_rx].status = "ok", BufferLen |-> BufferLen]
  /\ cur_rx' = NextEntry(cur_rx)
  /\ db' = NoData
  /\ UNCHANGED <<rx_desc, rx_buff, tailVars, hwVars>>

\* (INT16) BufferLen.
Int16(x) == LET y == x % 65536 IN IF y >= 32768 THEN y - 65536 ELSE y

\* Mutant: the frame's length is not cut to the buffer.
CopyLengthUncut(frame_len, BufferLen) == frame_len

\* "if (frame_len > (INT16) BufferLen) frame_len = (UINT16) BufferLen".
CopyLength(frame_len, BufferLen) ==
  IF frame_len > Int16(BufferLen) THEN BufferLen % 65536 ELSE frame_len

PacketType(f) ==
  CASE f.dest = "perm_addr" -> "unicast"
    [] f.dest = "broadcast" -> "broadcast"
    [] f.dest = "group"     -> "multicast"
    [] OTHER                -> "promiscuous"

\* A good frame is copied and described; a bad one is passed over.
ReceiveCopy ==
  /\ rx.step = "copy"
  /\ LET f == rx_buff[rx.entry] IN
       db' = IF rx.ok
             THEN [db EXCEPT !.frame = f,
                             !.FrameLen = CopyLength(f.len, rx.BufferLen),
                             !.Type = PacketType(f)]
             ELSE db
  /\ rx' = [rx EXCEPT !.step = "recycle"]
  /\ UNCHANGED <<cur_rx, rx_desc, rx_buff, tailVars, hwVars>>

\* Mutant: a descriptor with a bad frame is not given back.
ReceiveRecycleGood ==
  /\ rx.step = "recycle"
  /\ rx_desc' = [rx_desc EXCEPT ![rx.entry] = [own |-> rx.ok, status |-> "none"]]
  /\ rx_tail_addr' = rx.entry
  /\ tail_ptr' = [tail_ptr EXCEPT ![0] = rx.entry]
  /\ db' = [db EXCEPT !.StatCode = "SUCCESS"]
  /\ rx' = Idle
  /\ UNCHANGED <<cur_rx, rx_buff, hwVars>>

\* The descriptor goes back to the engine, the tail pointer register of
\* channel 0 is written, and the call succeeds.
ReceiveRecycle ==
  /\ rx.step = "recycle"
  /\ rx_desc' = [rx_desc EXCEPT ![rx.entry] = [own |-> TRUE, status |-> "none"]]
  /\ rx_tail_addr' = rx.entry
  /\ tail_ptr' = [tail_ptr EXCEPT ![0] = rx.entry]
  /\ db' = [db EXCEPT !.StatCode = "SUCCESS"]
  /\ rx' = Idle
  /\ UNCHANGED <<cur_rx, rx_buff, hwVars>>

-----------------------------------------------------------------------------
(* The receive DMA engine, external: it takes the descriptor it is at when *)
(* it owns it, writes the frame to its buffer, and hands it over with the  *)
(* status.  A frame that finds no descriptor is lost.                      *)

HwRxFetch ==
  /\ hwRxBusy = NoEntry
  /\ rx_desc[hwRx].own
  /\ hwRxBusy' = hwRx
  /\ UNCHANGED <<cur_rx, rx_desc, rx_buff, tailVars, hwRx, rx, db>>

HwRxStore(f, status) ==
  /\ hwRxBusy # NoEntry
  /\ rx_buff' = [rx_buff EXCEPT ![hwRxBusy] = f]
  /\ rx_desc' = [rx_desc EXCEPT ![hwRxBusy] = [own |-> FALSE, status |-> status]]
  /\ hwRx' = NextEntry(hwRx)
  /\ hwRxBusy' = NoEntry
  /\ UNCHANGED <<cur_rx, tailVars, rx, db>>

-----------------------------------------------------------------------------
Receive == \/ ReceiveNoData
           \/ \E BufferLen \in BufferLens : ReceiveCheck(BufferLen)
           \/ ReceiveCopy
           \/ ReceiveRecycle

HwRx == \/ HwRxFetch
        \/ \E f \in Frames, status \in {"ok", "error"} : HwRxStore(f, status)

RxNext == Receive \/ HwRx

RxSpec == RxInit /\ [][RxNext]_rvars

(* The caller keeps polling, and a call runs to its end.                   *)
RxFairSpec == RxSpec /\ WF_rvars(Receive)

-----------------------------------------------------------------------------
(* The type invariant.                                                     *)
TypeOK ==
  /\ cur_rx \in Entries
  /\ rx_desc \in [Entries -> [own : BOOLEAN, status : Statuses]]
  /\ rx_buff \in [Entries -> Frames \cup {NoFrame}]
  /\ rx_tail_addr \in Tails
  /\ tail_ptr \in [{0, Chan} -> Tails]
  /\ hwRx \in Entries
  /\ hwRxBusy \in Entries \cup {NoEntry}
  /\ rx \in [step : {"idle", "copy", "recycle"}, entry : Entries, ok : BOOLEAN,
             BufferLen : Nat]
  /\ db \in [StatCode : {"none", "NO_DATA", "SUCCESS"}, frame : Frames \cup {NoFrame},
             FrameLen : Nat, Type : Types]

\* Entry k places after cur_rx.
Ahead(k) == IF cur_rx + k >= N THEN cur_rx + k - N ELSE cur_rx + k

InCall == rx.step # "idle"

\* Entries filled and not yet taken by a call: how far the engine is ahead
\* of cur_rx.  Where the two meet the ring is empty or full.
Filled == CASE hwRx > cur_rx -> hwRx - cur_rx
            [] hwRx < cur_rx -> hwRx - cur_rx + N
            [] OTHER         -> IF rx_desc[cur_rx].own THEN 0 ELSE N

(* IntelgbeReceive and the engine agree on the ring: the descriptors that  *)
(* are the driver's are the ones from cur_rx up to the engine and the one  *)
(* of the call in progress, which lies just before cur_rx.                 *)
RingAgreement ==
  /\ \A k \in 0 .. N - 1 :
       rx_desc[Ahead(k)].own <=> k >= Filled /\ ~(InCall /\ Ahead(k) = rx.entry)
  /\ InCall => Filled < N /\ NextEntry(rx.entry) = cur_rx
  /\ hwRxBusy # NoEntry => hwRxBusy = hwRx

(* The engine never writes the buffer a call is copying from.              *)
CopyUndisturbed == InCall => hwRxBusy # rx.entry

(* However large the frame, IntelgbeReceive writes no more bytes than the  *)
(* caller's buffer holds ("adjust the amount to copy if the buffer is      *)
(* smaller than the packet").                                              *)
CopyFits == rx.step = "recycle" /\ rx.ok => db.FrameLen <= rx.BufferLen

(* What the engine has filled holds a frame, its descriptor stays with the *)
(* driver until the call gives it back, and the engine writes only where   *)
(* it owns the descriptor.                                                 *)
BuffersFilled ==
  /\ hwRxBusy # NoEntry => rx_desc[hwRxBusy].own
  /\ InCall => ~rx_desc[rx.entry].own
  /\ \A e \in Entries : rx_desc[e].status = "ok" => rx_buff[e] \in Frames
  /\ rx.step = "copy" /\ rx.ok => rx_buff[rx.entry] \in Frames

(* The inductive invariant of the receive path.                            *)
RxIInv == TypeOK /\ BuffersFilled /\ CopyFits

(* What a call in progress has found out still holds at its copy.          *)
CheckHolds ==
  rx.step = "copy" => /\ rx.ok = (rx_desc[rx.entry].status = "ok")
                      /\ db.frame = NoFrame

(* The inductive invariant that ties the ring to the queue of RxQueue.     *)
RingInv == RxIInv /\ RingAgreement /\ CheckHolds

(* The length reported is the frame's, or the buffer's when the buffer is  *)
(* the smaller: the same comment, read the other way round.                *)
FrameLenExact ==
  rx.step = "recycle" /\ rx.ok =>
    db.FrameLen = IF db.frame.len <= rx.BufferLen THEN db.frame.len ELSE rx.BufferLen

(* "PXE_STATCODE_SUCCESS If we passed the goods to the protocol."          *)
SuccessHasFrame == db.StatCode = "SUCCESS" /\ rx.step = "idle" => db.frame # NoFrame

(* The register of the ring's channel follows the driver's record of the   *)
(* tail pointer, as the "RX descriptor ring tail pointer" of the comments. *)
TailReachesRing == tail_ptr[Chan] = rx_tail_addr

(* The frames the ring holds, oldest first: the one a call is about to     *)
(* copy, then the filled entries.                                          *)
Copying == IF rx.step = "copy" THEN 1 ELSE 0

Held(i) == IF i = 0 THEN rx.entry ELSE Ahead(i - 1)

Item(e) == [frame |-> rx_buff[e], good |-> rx_desc[e].status = "ok"]

Queue == [i \in 1 .. Filled + Copying |-> Item(Held(i - Copying))]

Q == INSTANCE RxQueue WITH Capacity <- N, queue <- Queue, delivered <- db.frame

(* The ring implements the queue of RxQueue: IntelgbeReceive loses,        *)
(* repeats and reorders no frame, and delivers none that came with errors. *)
ImplementsRxQueue == Q!Spec

(* A filled descriptor goes back to the engine as long as the caller polls.*)
FilledIsRecycled == \A e \in Entries : ~rx_desc[e].own ~> rx_desc[e].own
=============================================================================
