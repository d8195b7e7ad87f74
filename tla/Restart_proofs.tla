--------------------------- MODULE Restart_proofs ---------------------------
(***************************************************************************)
(* The two rings across restarts, and the receive ring by itself, for      *)
(* every ring size, every set of buffers and frames and any number of      *)
(* restarts.                                                               *)
(***************************************************************************)
EXTENDS Restart, SequenceTheorems, TLAPS

-----------------------------------------------------------------------------
(* The receive path.                                                       *)

(* The cut of IntelgbeReceive, whatever the low 16 bits of BufferLen are:  *)
(* the copy is no longer than the buffer, and no longer than 16 bits tell. *)
LEMMA CopyLengthFits ==
  ASSUME NEW len \in Nat, NEW BufferLen \in Nat
  PROVE  /\ CopyLength(len, BufferLen) \in Nat
         /\ CopyLength(len, BufferLen) <= BufferLen
<1> DEFINE low == BufferLen % 65536
<1>1. low \in 0 .. 65535 /\ low <= BufferLen
  BY SMT
<1>2. Int16(BufferLen) \in Int /\ Int16(BufferLen) <= low
  BY <1>1 DEF Int16
<1>3. CopyLength(len, BufferLen) =
        IF len > Int16(BufferLen) THEN low ELSE len
  BY DEF CopyLength
<1> HIDE DEF low
<1> QED
  BY <1>1, <1>2, <1>3

(* The size of the receive ring, its first entry and its next ones.        *)
LEMMA RxEntries ==
  /\ N \in Nat /\ N > 1 /\ 0 \in Entries
  /\ Entries \subseteq Tails /\ N \in Tails /\ 0 \in Tails
  /\ \A e \in Entries : NextEntry(e) \in Entries
<1>1. N \in Nat /\ N > 1
  BY RestartAssumption, RxRingAssumption DEF N
<1> QED
  BY <1>1 DEF Entries, Tails, NextEntry

LEMMA RxInitIInv == RxInit => RxIInv
<1> SUFFICES ASSUME RxInit PROVE RxIInv
  OBVIOUS
<1>1. 0 \in Entries
  BY RxEntries
<1>2. TypeOK
  <2>1. N \in Tails /\ 0 \in Tails
    BY RxEntries
  <2>2. tail_ptr \in [{0, Chan} -> Tails]
    BY <2>1 DEF RxInit
  <2>3. rx_desc \in [Entries -> [own : BOOLEAN, status : Statuses]]
    BY DEF RxInit, Statuses
  <2>4. Idle \in [step : {"idle", "copy", "recycle"}, entry : Entries, ok : BOOLEAN,
             BufferLen : Nat]
    BY <1>1 DEF Idle
  <2>5. NoData \in [StatCode : {"none", "NO_DATA", "SUCCESS"}, frame : Frames \cup {NoFrame},
             FrameLen : Nat, Type : Types]
    BY DEF NoData, Types
  <2> QED
    BY <1>1, <2>1, <2>2, <2>3, <2>4, <2>5 DEF RxInit, TypeOK
<1>3. BuffersFilled
  BY DEF RxInit, BuffersFilled, InCall, Idle
<1>4. CopyFits
  BY DEF RxInit, CopyFits, Idle
<1> QED
  BY <1>2, <1>3, <1>4 DEF RxIInv

LEMMA RxStep ==
  ASSUME RxIInv, [RxNext]_(rvars)
  PROVE  RxIInv'
<1> DEFINE Calls == [step : {"idle", "copy", "recycle"}, entry : Entries,
                     ok : BOOLEAN, BufferLen : Nat]
           Datas == [StatCode : {"none", "NO_DATA", "SUCCESS"},
                     frame : Frames \cup {NoFrame}, FrameLen : Nat, Type : Types]
<1>t. TypeOK /\ BuffersFilled /\ CopyFits
  BY DEF RxIInv
<1>d. NoData \in Datas
  BY DEF NoData, Types
<1>i. Idle \in Calls
  BY RxEntries DEF Idle
<1>1. CASE ReceiveNoData
  <2>1. db' \in Datas
    BY <1>1, <1>d DEF ReceiveNoData
  <2> QED
    BY <1>1, <1>t, <2>1 DEF ReceiveNoData, RxIInv, TypeOK, BuffersFilled, CopyFits,
         InCall, hwVars, tailVars
<1>2. ASSUME NEW BufferLen \in BufferLens, ReceiveCheck(BufferLen)
      PROVE  RxIInv'
  <2>1. rx' \in Calls
    <3>1. BufferLen \in Nat
      BY RxDataAssumption
    <3>2. rx' = [step |-> "copy", entry |-> cur_rx,
                 ok |-> rx_desc[cur_rx].status = "ok", BufferLen |-> BufferLen]
      BY <1>2 DEF ReceiveCheck
    <3> QED
      BY <1>t, <3>1, <3>2 DEF TypeOK
  <2>2. TypeOK'
    BY <1>2, <1>t, <1>d, <2>1, RxEntries DEF ReceiveCheck, TypeOK, hwVars, tailVars
  <2>3. BuffersFilled' /\ CopyFits'
    BY <1>2, <1>t DEF ReceiveCheck, TypeOK, BuffersFilled, CopyFits, InCall,
         hwVars, tailVars
  <2> QED
    BY <2>2, <2>3 DEF RxIInv
<1>3. CASE ReceiveCopy
  <2> DEFINE f == rx_buff[rx.entry]
  <2>1. rx' \in Calls /\ rx'.BufferLen = rx.BufferLen /\ rx'.entry = rx.entry
                       /\ rx'.ok = rx.ok /\ rx'.step = "recycle"
    BY <1>3, <1>t DEF ReceiveCopy, TypeOK
  <2>2. rx.ok => /\ f \in Frames
                 /\ CopyLength(f.len, rx.BufferLen) \in Nat
                 /\ CopyLength(f.len, rx.BufferLen) <= rx.BufferLen
    <3> SUFFICES ASSUME rx.ok
                 PROVE  /\ f \in Frames
                        /\ CopyLength(f.len, rx.BufferLen) \in Nat
                        /\ CopyLength(f.len, rx.BufferLen) <= rx.BufferLen
      OBVIOUS
    <3>1. f \in Frames
      BY <1>3, <1>t DEF ReceiveCopy, BuffersFilled
    <3>2. f.len \in Nat
      BY <3>1, RxDataAssumption
    <3>3. rx.BufferLen \in Nat
      BY <1>t DEF TypeOK
    <3> HIDE DEF f
    <3> QED
      BY <3>1, <3>2, <3>3, CopyLengthFits
  <2>3. PacketType(f) \in Types
    BY DEF PacketType, Types
  <2>4. db' \in Datas /\ (rx.ok => db'.FrameLen <= rx.BufferLen)
    BY <1>3, <1>t, <2>2, <2>3 DEF ReceiveCopy, TypeOK
  <2>5. TypeOK'
    BY <1>3, <1>t, <2>1, <2>4 DEF ReceiveCopy, TypeOK, hwVars, tailVars
  <2>6. BuffersFilled' /\ CopyFits'
    BY <1>3, <1>t, <2>1, <2>4 DEF ReceiveCopy, BuffersFilled, CopyFits, InCall,
         hwVars, tailVars
  <2> QED
    BY <2>5, <2>6 DEF RxIInv
<1>4. CASE ReceiveRecycle
  <2>1. rx_desc' \in [Entries -> [own : BOOLEAN, status : Statuses]]
    BY <1>4, <1>t DEF ReceiveRecycle, TypeOK, Statuses
  <2>2. db' \in Datas
    BY <1>4, <1>t DEF ReceiveRecycle, TypeOK
  <2>3. rx_tail_addr' \in Tails /\ tail_ptr' \in [{0, Chan} -> Tails]
    BY <1>4, <1>t, RxEntries DEF ReceiveRecycle, TypeOK
  <2>4. TypeOK'
    BY <1>4, <1>t, <1>i, <2>1, <2>2, <2>3 DEF ReceiveRecycle, TypeOK, hwVars
  <2>5. BuffersFilled' /\ CopyFits'
    BY <1>4, <1>t DEF ReceiveRecycle, TypeOK, BuffersFilled, CopyFits, InCall,
         Idle, hwVars
  <2> QED
    BY <2>4, <2>5 DEF RxIInv
<1>5. CASE HwRxFetch
  BY <1>5, <1>t DEF HwRxFetch, RxIInv, TypeOK, BuffersFilled, CopyFits, InCall,
       tailVars
<1>6. ASSUME NEW f \in Frames, NEW status \in {"ok", "error"}, HwRxStore(f, status)
      PROVE  RxIInv'
  <2>1. rx_desc' \in [Entries -> [own : BOOLEAN, status : Statuses]]
    BY <1>6, <1>t DEF HwRxStore, TypeOK, Statuses
  <2>2. TypeOK'
    BY <1>6, <1>t, <2>1, RxEntries DEF HwRxStore, TypeOK, tailVars
  <2>3. BuffersFilled' /\ CopyFits'
    BY <1>6, <1>t DEF HwRxStore, TypeOK, BuffersFilled, CopyFits, InCall,
         tailVars
  <2> QED
    BY <2>2, <2>3 DEF RxIInv
<1>7. CASE UNCHANGED rvars
  BY <1>7, <1>t DEF rvars, RxIInv, TypeOK, BuffersFilled, CopyFits, InCall,
       hwVars, tailVars
<1> QED
  BY <1>1, <1>2, <1>3, <1>4, <1>5, <1>6, <1>7 DEF RxNext, Receive, HwRx

-----------------------------------------------------------------------------
(* The transmit path.                                                      *)

(* The size of the transmit ring and its first entry.                      *)
LEMMA TxEntries == T!N \in Nat /\ T!N > 1 /\ 0 \in T!Entries
<1>1. T!N \in Nat /\ T!N > 1
  BY RestartAssumption, RxRingAssumption DEF T!N
<1> QED
  BY <1>1 DEF T!Entries

(* Advancing an entry by one keeps it an entry and, unless it is the last  *)
(* one before dirty_tx, moves it one further from dirty_tx.                *)
LEMMA TxOffsetOfNext ==
  ASSUME NEW e \in T!Entries, dirty_tx \in T!Entries
  PROVE  /\ T!NextEntry(e) \in T!Entries
         /\ T!Offset(e) \in T!Entries
         /\ T!Offset(e) < T!N - 1 => T!Offset(T!NextEntry(e)) = T!Offset(e) + 1
BY TxEntries DEF T!NextEntry, T!Offset, T!Entries

(* Two entries at the same distance from dirty_tx are the same entry.      *)
LEMMA TxOffsetInjective ==
  ASSUME NEW e \in T!Entries, NEW f \in T!Entries, dirty_tx \in T!Entries,
         T!Offset(e) = T!Offset(f)
  PROVE  e = f
BY TxEntries DEF T!Offset, T!Entries

(* With Avail >= k the window can grow by k entries.                       *)
LEMMA TxAvailIsRoom ==
  ASSUME cur_tx \in T!Entries, dirty_tx \in T!Entries
  PROVE  T!Avail = T!N - 1 - T!Outstanding
BY TxEntries DEF T!Avail, T!Outstanding, T!Offset, T!Entries

(* Advance and Offset are inverse to each other.                           *)
LEMMA TxAdvanceOffset ==
  ASSUME dirty_tx \in T!Entries, NEW k \in T!Entries
  PROVE  T!Advance(dirty_tx, k) \in T!Entries /\ T!Offset(T!Advance(dirty_tx, k)) = k
BY TxEntries DEF T!Advance, T!Offset, T!Entries

(* Moving dirty_tx forward by count moves every entry that much nearer.    *)
LEMMA TxOffsetAfterReclaim ==
  ASSUME dirty_tx \in T!Entries, NEW count \in T!Entries, NEW e \in T!Entries,
         dirty_tx' = T!Advance(dirty_tx, count)
  PROVE  LET o == IF e >= dirty_tx' THEN e - dirty_tx' ELSE e - dirty_tx' + T!N
         IN o = IF T!Offset(e) >= count THEN T!Offset(e) - count ELSE T!Offset(e) - count + T!N
BY TxEntries DEF T!Advance, T!Offset, T!Entries

(* When cur_tx moves on to its next entry and dirty_tx stays, the window   *)
(* grows by the entry left, which was not in it.                           *)
LEMMA TxWindowGrows ==
  ASSUME cur_tx \in T!Entries, dirty_tx \in T!Entries, T!Outstanding < T!N - 1,
         cur_tx' = T!NextEntry(cur_tx), dirty_tx' = dirty_tx
  PROVE  /\ cur_tx' \in T!Entries
         /\ T!Outstanding \in T!Entries
         /\ T!Outstanding' = T!Outstanding + 1
         /\ \A e \in T!Entries : T!InWindow(e)' <=> T!InWindow(e) \/ e = cur_tx
         /\ ~T!InWindow(cur_tx)
<1>1. cur_tx' \in T!Entries /\ T!Outstanding \in T!Entries
  BY TxOffsetOfNext DEF T!Outstanding
<1>2. T!Outstanding' = T!Outstanding + 1 /\ \A e \in T!Entries : T!Offset(e)' = T!Offset(e)
  BY TxOffsetOfNext DEF T!Outstanding, T!Offset
<1>3. ASSUME NEW e \in T!Entries
      PROVE  T!InWindow(e)' <=> T!InWindow(e) \/ e = cur_tx
  <2>1. T!Offset(e) \in Int /\ T!Outstanding \in Int
    BY TxEntries, TxOffsetOfNext, <1>1 DEF T!Entries
  <2>2. T!Offset(e) = T!Outstanding <=> e = cur_tx
    BY TxOffsetInjective DEF T!Outstanding
  <2> QED
    BY <1>2, <2>1, <2>2 DEF T!InWindow
<1>4. ~T!InWindow(cur_tx)
  BY <1>1, TxEntries DEF T!InWindow, T!Outstanding, T!Entries
<1> QED
  BY <1>1, <1>2, <1>3, <1>4

LEMMA TxIdleIsCall == T!Idle \in T!Call /\ [T!Idle EXCEPT !.step = "tail"] \in T!Call
<1>1. T!Idle \in T!Call
  BY TxEntries DEF T!Idle, T!Call
<1> QED
  BY <1>1 DEF T!Call

LEMMA TxInit == T!Init => TxIInv
<1> SUFFICES ASSUME T!Init PROVE TxIInv
  OBVIOUS
<1>1. T!TypeOK
  <2>2. T!ZeroDesc \in T!Desc /\ T!ZeroMapping \in T!Mapping
    BY DEF T!ZeroDesc, T!ZeroMapping, T!Desc, T!Mapping
  <2> QED
    BY TxEntries, <2>2, TxIdleIsCall DEF T!Init, T!TypeOK
<1>2. EngineOwnsWindow /\ RoomForFrame /\ T!FragsHeld
  BY DEF T!Init, EngineOwnsWindow, RoomForFrame, T!FragsHeld, T!Filling, T!Idle, T!ZeroDesc
<1>3. T!Ownership
  BY TxDataAssumption DEF T!Init, T!Ownership, T!NotReturned, T!OneEntryPerBuffer, T!ZeroDesc, T!ZeroMapping
<1> QED
  BY <1>1, <1>2, <1>3 DEF TxIInv

LEMMA TransmitLinearTxIInv ==
  ASSUME TxIInv, NEW b \in Buffers, T!TransmitLinear(b)
  PROVE  TxIInv'
<1>t. T!TypeOK
  BY DEF TxIInv
<1>a. cur_tx \in T!Entries /\ dirty_tx \in T!Entries /\ hwCur \in T!Entries
  BY <1>t DEF T!TypeOK
<1>b. T!Outstanding < T!N - 1
  <2>1. T!Outstanding \in T!Entries
    BY <1>a, TxOffsetOfNext DEF T!Outstanding
  <2> QED
    BY <1>a, <2>1, TxAvailIsRoom, TxEntries DEF T!TransmitLinear, T!Entries
<1>c. /\ cur_tx' = T!NextEntry(cur_tx)
      /\ UNCHANGED <<dirty_tx, tx_tail_addr, hwCur, hwBusy, hwBuf>>
  BY DEF T!TransmitLinear, T!hwVars
<1>d. /\ cur_tx' \in T!Entries /\ ~T!InWindow(cur_tx)
      /\ \A e \in T!Entries : T!InWindow(e)' <=> T!InWindow(e) \/ e = cur_tx
  BY <1>a, <1>b, <1>c, TxWindowGrows
<1>e. PICK ok \in BOOLEAN :
       /\ TxBufferMappings' = [TxBufferMappings EXCEPT ![cur_tx] =
                                 [UnmappedAddress |-> b, mapped |-> ok]]
       /\ liveMaps' = IF ok THEN liveMaps \cup {b} ELSE liveMaps
       /\ tx_desc' = [tx_desc EXCEPT ![cur_tx] =
                        [own |-> TRUE, fd |-> TRUE, ld |-> TRUE,
                         addr |-> IF ok THEN b ELSE NoBuf]]
  BY DEF T!TransmitLinear
<1>f. b \in callerOwns /\ callerOwns' = callerOwns \ {b} /\ ~T!Filling /\ ~T!Filling'
  BY DEF T!TransmitLinear, T!Filling, T!Idle
<1>1. T!TypeOK'
  <2>1. tx_desc' \in [T!Entries -> T!Desc]
    BY <1>t, <1>e DEF T!TypeOK, T!Desc
  <2>2. TxBufferMappings' \in [T!Entries -> T!Mapping]
    BY <1>t, <1>e DEF T!TypeOK, T!Mapping
  <2>3. tx' \in T!Call
    BY TxIdleIsCall DEF T!TransmitLinear
  <2> QED
    BY <1>t, <1>c, <1>d, <1>e, <2>1, <2>2, <2>3 DEF T!TypeOK, T!TransmitLinear
<1>2. EngineOwnsWindow'
  <2>1. tx_desc[hwCur].own => tx_desc'[hwCur] = tx_desc[hwCur]
    BY <1>t, <1>a, <1>d, <1>e DEF TxIInv, EngineOwnsWindow, T!TypeOK
  <2>2. \A e \in T!Entries : e # cur_tx => tx_desc'[e] = tx_desc[e]
    BY <1>t, <1>e DEF T!TypeOK
  <2> QED
    BY <1>a, <1>c, <1>d, <1>f, <2>1, <2>2 DEF TxIInv, EngineOwnsWindow
<1>3. T!Ownership'
  BY <1>t, <1>a, <1>e, <1>f, TxDataAssumption
  DEF TxIInv, T!Ownership, T!NotReturned, T!OneEntryPerBuffer, T!TypeOK, T!Desc, T!Mapping
<1>4. RoomForFrame' /\ T!FragsHeld'
  BY <1>f DEF RoomForFrame, T!FragsHeld
<1> QED
  BY <1>1, <1>2, <1>3, <1>4 DEF TxIInv

LEMMA TransmitFragmentedTxIInv ==
  ASSUME TxIInv, NEW f \in T!FragLists, T!TransmitFragmented(f)
  PROVE  TxIInv'
<1>t. T!TypeOK
  BY DEF TxIInv
<1>a. cur_tx \in T!Entries /\ dirty_tx \in T!Entries /\ hwCur \in T!Entries
  BY <1>t DEF T!TypeOK
<1>b. f \in Seq(Buffers) /\ Len(f) >= 1 /\ Len(f) \in Nat /\ DOMAIN f = 1 .. Len(f)
  <2>1. PICK n \in 1 .. MaxFrags : f \in [1..n -> Buffers]
    BY DEF T!FragLists
  <2>2. n \in Nat /\ n >= 1
    BY TxDataAssumption
  <2>3. f \in Seq(Buffers) /\ Len(f) = n
    BY <2>1, <2>2
  <2> QED
    BY <2>1, <2>2, <2>3
<1>c. T!Outstanding \in T!Entries /\ T!Outstanding + Len(f) <= T!N - 1 /\ T!Outstanding < T!N - 1
  <2>1. T!Outstanding \in T!Entries
    BY <1>a, TxOffsetOfNext DEF T!Outstanding
  <2>2. T!N - 1 - T!Outstanding >= Len(f)
    BY <1>a, TxAvailIsRoom DEF T!TransmitFragmented
  <2> QED
    BY <1>b, <2>1, <2>2, TxEntries DEF T!Entries
<1>f. /\ cur_tx' = T!NextEntry(cur_tx)
      /\ tx' = [step |-> IF Len(f) > 1 THEN "frag" ELSE "first",
                first |-> cur_tx, frags |-> f, i |-> 2]
      /\ callerOwns' \subseteq callerOwns
      /\ \A i \in DOMAIN f : f[i] \in callerOwns /\ f[i] \notin callerOwns'
      /\ UNCHANGED <<dirty_tx, tx_desc, TxBufferMappings, liveMaps,
                     tx_tail_addr, hwCur, hwBusy, hwBuf>>
      /\ ~T!Filling
  BY DEF T!TransmitFragmented, T!hwVars, T!Filling
<1>d. /\ cur_tx' \in T!Entries /\ ~T!InWindow(cur_tx)
      /\ T!Outstanding' = T!Outstanding + 1
      /\ \A e \in T!Entries : T!InWindow(e)' <=> T!InWindow(e) \/ e = cur_tx
  BY <1>a, <1>c, <1>f, TxWindowGrows
<1>g. T!Filling' /\ tx'.first = cur_tx /\ tx'.frags = f /\ tx'.i = 2
  BY <1>f DEF T!Filling
<1>1. T!TypeOK'
  <2>1. tx' \in T!Call
    BY <1>a, <1>b, <1>f DEF T!Call
  <2>2. callerOwns' \in SUBSET Buffers /\ onWire' \in SUBSET Buffers
    BY <1>t DEF T!TransmitFragmented, T!TypeOK
  <2> QED
    BY <1>t, <1>d, <1>f, <2>1, <2>2 DEF T!TypeOK
<1>2. EngineOwnsWindow'
  BY <1>a, <1>d, <1>f, <1>g DEF TxIInv, EngineOwnsWindow
<1>3. T!Ownership'
  BY <1>f DEF TxIInv, T!Ownership, T!NotReturned, T!OneEntryPerBuffer
<1>4. RoomForFrame'
  <2>1. T!InWindow(tx.first)'
    <3>1. T!InWindow(tx.first)' <=> T!Offset(cur_tx) < T!Outstanding'
      BY <1>f, <1>g DEF T!InWindow, T!Offset
    <3> QED
      BY <1>c, <1>d, <3>1, TxEntries DEF T!Outstanding, T!Entries
  <2>2. T!Outstanding + 1 + (Len(f) - 2 + 1) < T!N
    BY <1>b, <1>c, TxEntries DEF T!Entries
  <2> QED
    BY <1>d, <1>g, <2>1, <2>2 DEF RoomForFrame
<1>5. T!FragsHeld'
  <2>1. \A j \in DOMAIN f : \A e \in T!Entries : TxBufferMappings[e].UnmappedAddress # f[j]
    BY <1>f DEF TxIInv, T!Ownership, T!NotReturned
  <2> QED
    BY <1>b, <1>f, <1>g, <2>1 DEF T!FragsHeld
<1> QED
  BY <1>1, <1>2, <1>3, <1>4, <1>5 DEF TxIInv

LEMMA FillFragmentTxIInv ==
  ASSUME TxIInv, T!FillFragment
  PROVE  TxIInv'
<1> DEFINE b == tx.frags[tx.i]
<1>t. T!TypeOK
  BY DEF TxIInv
<1>a. cur_tx \in T!Entries /\ dirty_tx \in T!Entries /\ hwCur \in T!Entries /\ tx.first \in T!Entries
  BY <1>t DEF T!TypeOK, T!Call
<1>b. /\ T!Filling /\ tx.frags \in Seq(Buffers) /\ tx.i \in DOMAIN tx.frags /\ tx.i \in Nat
      /\ Len(tx.frags) \in Nat /\ tx.i <= Len(tx.frags) /\ b \in Buffers
  <2>1. T!Filling /\ tx.frags \in Seq(Buffers) /\ tx.i \in Nat
    BY <1>t DEF T!FillFragment, T!Filling, T!TypeOK, T!Call
  <2>2. tx.i \in 1 .. Len(tx.frags)
    BY <2>1 DEF TxIInv, T!FragsHeld, T!FillFragment
  <2> QED
    BY <2>1, <2>2
<1>c. T!Outstanding + (Len(tx.frags) - tx.i + 1) < T!N /\ T!Outstanding < T!N - 1
      /\ T!Outstanding \in T!Entries
  <2>1. T!Outstanding + (Len(tx.frags) - tx.i + 1) < T!N
    BY <1>b DEF TxIInv, RoomForFrame, T!FillFragment
  <2>2. T!Outstanding \in T!Entries
    BY <1>a, TxOffsetOfNext DEF T!Outstanding
  <2> QED
    BY <1>b, <2>1, <2>2, TxEntries DEF T!Entries
<1>g. /\ tx_desc' = [tx_desc EXCEPT ![cur_tx] = T!FragDesc(b)]
      /\ cur_tx' = T!NextEntry(cur_tx)
      /\ UNCHANGED <<dirty_tx, TxBufferMappings, liveMaps, tx_tail_addr, hwCur, hwBusy, hwBuf,
                     callerOwns, onWire>>
  BY DEF T!FillFragment, T!hwVars
<1>d. /\ cur_tx' \in T!Entries /\ ~T!InWindow(cur_tx)
      /\ T!Outstanding' = T!Outstanding + 1
      /\ \A e \in T!Entries : T!InWindow(e)' <=> T!InWindow(e) \/ e = cur_tx
  BY <1>a, <1>c, <1>g, TxWindowGrows
<1>f. /\ tx' \in T!Call /\ T!Filling' /\ tx'.first = tx.first /\ tx'.frags = tx.frags
      /\ tx'.i = tx.i + 1
      /\ tx'.step = "frag" => tx.i # Len(tx.frags)
  <2>1. tx \in T!Call /\ tx.step = "frag" /\ tx.i + 1 \in Nat
    BY <1>t, <1>b DEF T!TypeOK, T!FillFragment
  <2>2. tx' = [tx EXCEPT !.i = tx.i + 1,
                         !.step = IF tx.i = Len(tx.frags) THEN "first" ELSE "frag"]
    BY DEF T!FillFragment
  <2>3. /\ tx'.first = tx.first /\ tx'.frags = tx.frags /\ tx'.i = tx.i + 1
        /\ tx'.step = IF tx.i = Len(tx.frags) THEN "first" ELSE "frag"
    BY <2>1, <2>2 DEF T!Call
  <2>4. tx' \in T!Call
    BY <2>1, <2>2 DEF T!Call
  <2> QED
    BY <2>3, <2>4 DEF T!Filling
<1>h. T!InWindow(tx.first) /\ tx.first # cur_tx
  BY <1>b, <1>d DEF TxIInv, RoomForFrame
<1>1. T!TypeOK'
  <2>1. tx_desc' \in [T!Entries -> T!Desc]
    BY <1>t, <1>b, <1>g DEF T!TypeOK, T!Desc, T!FragDesc
  <2> QED
    BY <1>t, <1>d, <1>f, <1>g, <2>1 DEF T!TypeOK
<1>2. EngineOwnsWindow'
  <2>1. tx_desc[hwCur].own => tx_desc'[hwCur] = tx_desc[hwCur]
    BY <1>t, <1>a, <1>d, <1>g DEF TxIInv, EngineOwnsWindow, T!TypeOK
  <2>2. \A e \in T!Entries : e # cur_tx => tx_desc'[e] = tx_desc[e]
    BY <1>t, <1>g DEF T!TypeOK
  <2> QED
    BY <1>a, <1>b, <1>d, <1>f, <1>g, <1>h, <2>1, <2>2 DEF TxIInv, EngineOwnsWindow
<1>3. T!Ownership'
  <2>1. b \notin callerOwns /\ \A e \in T!Entries : TxBufferMappings[e].UnmappedAddress # b
    BY <1>b DEF TxIInv, T!FragsHeld
  <2>2. \A e \in T!Entries : tx_desc'[e].addr \in {tx_desc[e].addr, b}
    BY <1>t, <1>a, <1>g DEF T!TypeOK, T!Desc, T!FragDesc
  <2> QED
    BY <1>g, <2>1, <2>2 DEF TxIInv, T!Ownership, T!NotReturned, T!OneEntryPerBuffer
<1>4. RoomForFrame'
  <2>1. T!InWindow(tx.first)'
    <3>1. T!InWindow(tx.first)' <=> T!Offset(tx.first) < T!Outstanding'
      BY <1>f, <1>g DEF T!InWindow, T!Offset
    <3>2. T!Offset(tx.first) \in T!Entries
      BY <1>a, TxOffsetOfNext
    <3> QED
      BY <1>c, <1>d, <1>h, <3>1, <3>2, TxEntries DEF T!InWindow, T!Entries
  <2>2. (tx.step = "frag" => T!Outstanding + (Len(tx.frags) - tx.i + 1) < T!N)'
    <3>0. T!Outstanding \in Int /\ Len(tx.frags) \in Int /\ tx.i \in Int /\ T!N \in Int
      BY <1>b, <1>c, TxEntries DEF T!Entries
    <3>1. T!Outstanding + 1 + (Len(tx.frags) - (tx.i + 1) + 1) < T!N
      BY <1>c, <3>0
    <3> QED
      BY <1>d, <1>f, <3>1
  <2> QED
    BY <2>1, <2>2 DEF RoomForFrame
<1>5. T!FragsHeld'
  <2>1. Len(tx.frags) >= 1 /\ tx.i >= 2
    BY <1>b DEF TxIInv, T!FragsHeld
  <2>2. tx'.i >= 2 /\ (tx'.step = "frag" => tx'.i <= Len(tx.frags))
    BY <1>b, <1>f, <2>1
  <2> QED
    BY <1>b, <1>f, <1>g, <2>1, <2>2 DEF TxIInv, T!FragsHeld
<1> QED
  BY <1>1, <1>2, <1>3, <1>4, <1>5 DEF TxIInv

LEMMA FillFirstTxIInv ==
  ASSUME TxIInv, T!FillFirst
  PROVE  TxIInv'
<1> DEFINE b == tx.frags[1]
<1>t. T!TypeOK
  BY DEF TxIInv
<1>a. cur_tx \in T!Entries /\ dirty_tx \in T!Entries /\ hwCur \in T!Entries /\ tx.first \in T!Entries
  BY <1>t DEF T!TypeOK, T!Call
<1>b. T!Filling /\ ~T!Filling' /\ 1 \in DOMAIN tx.frags /\ b \in Buffers
  <2>1. T!Filling /\ ~T!Filling' /\ tx.frags \in Seq(Buffers)
    BY <1>t DEF T!FillFirst, T!Filling, T!Idle, T!TypeOK, T!Call
  <2>2. Len(tx.frags) >= 1
    BY <2>1 DEF TxIInv, T!FragsHeld
  <2> QED
    BY <2>1, <2>2
<1>g. /\ tx_desc' = [tx_desc EXCEPT ![tx.first] = T!FragDesc(b)]
      /\ UNCHANGED <<cur_tx, dirty_tx, TxBufferMappings, liveMaps, tx_tail_addr, hwCur, hwBusy,
                     hwBuf, callerOwns, onWire>>
  BY DEF T!FillFirst, T!hwVars
<1>d. \A e \in T!Entries : T!InWindow(e)' <=> T!InWindow(e)
  BY <1>a, <1>g DEF T!Outstanding, T!Offset, T!InWindow
<1>h. T!InWindow(tx.first)
  BY <1>b DEF TxIInv, RoomForFrame
<1>1. T!TypeOK'
  <2>1. tx_desc' \in [T!Entries -> T!Desc]
    BY <1>t, <1>b, <1>g DEF T!TypeOK, T!Desc, T!FragDesc
  <2>2. tx' \in T!Call
    BY TxIdleIsCall DEF T!FillFirst
  <2> QED
    BY <1>t, <1>g, <2>1, <2>2 DEF T!TypeOK
<1>2. EngineOwnsWindow'
  <2>1. tx_desc[hwCur].own => tx_desc'[hwCur] = tx_desc[hwCur]
    BY <1>t, <1>a, <1>b, <1>g DEF TxIInv, EngineOwnsWindow, T!TypeOK
  <2>2. \A e \in T!Entries : e # tx.first => tx_desc'[e] = tx_desc[e]
    BY <1>t, <1>g DEF T!TypeOK
  <2> QED
    BY <1>a, <1>b, <1>d, <1>g, <1>h, <2>1, <2>2 DEF TxIInv, EngineOwnsWindow
<1>3. T!Ownership'
  <2>1. b \notin callerOwns /\ \A e \in T!Entries : TxBufferMappings[e].UnmappedAddress # b
    BY <1>b DEF TxIInv, T!FragsHeld
  <2>2. \A e \in T!Entries : tx_desc'[e].addr \in {tx_desc[e].addr, b}
    BY <1>t, <1>a, <1>g DEF T!TypeOK, T!Desc, T!FragDesc
  <2> QED
    BY <1>g, <2>1, <2>2 DEF TxIInv, T!Ownership, T!NotReturned, T!OneEntryPerBuffer
<1>4. RoomForFrame' /\ T!FragsHeld'
  BY <1>b DEF RoomForFrame, T!FragsHeld
<1> QED
  BY <1>1, <1>2, <1>3, <1>4 DEF TxIInv

LEMMA WriteTailTxIInv ==
  ASSUME TxIInv, T!WriteTail
  PROVE  TxIInv'
<1>g. UNCHANGED <<cur_tx, dirty_tx, tx_desc, TxBufferMappings, liveMaps, hwCur, hwBusy, hwBuf,
                  callerOwns, onWire>>
  BY DEF T!WriteTail
<1>f. ~T!Filling /\ ~T!Filling'
  BY DEF T!WriteTail, T!Filling, T!Idle
<1>1. T!TypeOK'
  BY <1>g, TxIdleIsCall DEF TxIInv, T!TypeOK, T!WriteTail
<1>2. EngineOwnsWindow'
  BY <1>f, <1>g DEF TxIInv, EngineOwnsWindow, T!InWindow, T!Outstanding, T!Offset
<1>3. T!Ownership'
  BY <1>g DEF TxIInv, T!Ownership, T!NotReturned, T!OneEntryPerBuffer
<1>4. RoomForFrame' /\ T!FragsHeld'
  BY <1>f DEF RoomForFrame, T!FragsHeld
<1> QED
  BY <1>1, <1>2, <1>3, <1>4 DEF TxIInv

(* What a call of IntelgbeFreeTxBuffers frees, in terms of the window.     *)
LEMMA FreeTxBuffersEffect ==
  ASSUME T!TypeOK, NEW NumEntries \in 1 .. T!N, T!FreeTxBuffers(NumEntries)
  PROVE  \E freed \in SUBSET T!Entries :
           LET bufs == {TxBufferMappings[e].UnmappedAddress : e \in freed}
           IN /\ tx.step = "idle"
              /\ dirty_tx' \in T!Entries
              /\ \A e \in T!Entries : T!InWindow(e)' <=> T!InWindow(e) /\ e \notin freed
              /\ \A e \in freed : /\ ~tx_desc[e].own
                                  /\ TxBufferMappings[e].UnmappedAddress \in Buffers
              /\ TxBufferMappings' = [e \in T!Entries |->
                   IF e \in freed THEN T!ZeroMapping ELSE TxBufferMappings[e]]
              /\ tx_desc' = [e \in T!Entries |->
                   IF e \in freed THEN T!ZeroDesc ELSE tx_desc[e]]
              /\ liveMaps' = liveMaps \ bufs
              /\ callerOwns' = callerOwns \cup bufs
              /\ UNCHANGED <<cur_tx, tx, tx_tail_addr, hwCur, hwBusy, hwBuf, onWire>>
<1>a. cur_tx \in T!Entries /\ dirty_tx \in T!Entries
  BY DEF T!TypeOK
<1>b. PICK count \in 1 .. T!N - 1 :
        LET freed == {T!Advance(dirty_tx, k) : k \in 0 .. count - 1}
            bufs  == {TxBufferMappings[e].UnmappedAddress : e \in freed}
        IN /\ tx.step = "idle"
           /\ \A k \in 0 .. count - 1 : T!Reclaimable(k)
           /\ dirty_tx' = T!Advance(dirty_tx, count)
           /\ TxBufferMappings' = [e \in T!Entries |->
                IF e \in freed THEN T!ZeroMapping ELSE TxBufferMappings[e]]
           /\ tx_desc' = [e \in T!Entries |->
                IF e \in freed THEN T!ZeroDesc ELSE tx_desc[e]]
           /\ liveMaps' = liveMaps \ bufs
           /\ callerOwns' = callerOwns \cup bufs
           /\ UNCHANGED <<cur_tx, tx, tx_tail_addr, hwCur, hwBusy, hwBuf, onWire>>
  BY DEF T!FreeTxBuffers, T!hwVars
<1> DEFINE freed == {T!Advance(dirty_tx, k) : k \in 0 .. count - 1}
<1>c. count \in T!Entries /\ 0 .. count - 1 \subseteq T!Entries /\ T!Outstanding \in T!Entries
  BY <1>a, TxEntries, TxOffsetOfNext DEF T!Entries, T!Outstanding
<1>d. count <= T!Outstanding
  <2>1. count - 1 < T!Outstanding
    BY <1>b, TxEntries DEF T!Reclaimable
  <2> QED
    BY <1>c, <2>1, TxEntries DEF T!Entries
<1>e. \A e \in T!Entries : e \in freed <=> T!Offset(e) < count
  <2>1. ASSUME NEW e \in T!Entries, T!Offset(e) < count
        PROVE  e \in freed
    <3>1. T!Offset(e) \in 0 .. count - 1
      BY <1>a, <2>1, TxOffsetOfNext, TxEntries DEF T!Entries
    <3>2. e = T!Advance(dirty_tx, T!Offset(e))
      BY <1>a, TxOffsetOfNext, TxAdvanceOffset, TxOffsetInjective
    <3> QED
      BY <3>1, <3>2
  <2>2. ASSUME NEW k \in 0 .. count - 1
        PROVE  T!Offset(T!Advance(dirty_tx, k)) < count
    BY <1>a, <1>c, TxAdvanceOffset
  <2> QED
    BY <2>1, <2>2
<1>f. \A e \in freed : /\ e \in T!Entries
                       /\ ~tx_desc[e].own
                       /\ TxBufferMappings[e].UnmappedAddress \in Buffers
  <2>1. \A k \in 0 .. count - 1 : T!Advance(dirty_tx, k) \in T!Entries
    BY <1>a, <1>c, TxAdvanceOffset
  <2>2. \A e \in freed : /\ e \in T!Entries
                         /\ ~tx_desc[e].own
                         /\ TxBufferMappings[e].UnmappedAddress # NoBuf
    BY <1>b, <2>1 DEF T!Reclaimable
  <2> QED
    BY <2>2 DEF T!TypeOK, T!Mapping
<1>i. /\ dirty_tx' \in T!Entries
      /\ \A e \in T!Entries : T!Offset(e)' = IF T!Offset(e) >= count THEN T!Offset(e) - count
                                         ELSE T!Offset(e) - count + T!N
  <2>1. dirty_tx' \in T!Entries
    BY <1>a, <1>b, <1>c, TxAdvanceOffset
  <2>2. \A e \in T!Entries : T!Offset(e)' = IF e >= dirty_tx' THEN e - dirty_tx'
                                        ELSE e - dirty_tx' + T!N
    BY DEF T!Offset
  <2> QED
    BY <1>a, <1>b, <1>c, <2>1, <2>2, TxOffsetAfterReclaim
<1>j. T!Outstanding' = T!Outstanding - count
  <2>1. cur_tx' = cur_tx
    BY <1>b
  <2>2. T!Outstanding' = IF T!Outstanding >= count THEN T!Outstanding - count
                       ELSE T!Outstanding - count + T!N
    BY <1>a, <1>i, <2>1 DEF T!Outstanding, T!Offset
  <2> QED
    BY <1>c, <1>d, <2>2, TxEntries DEF T!Entries
<1>k. \A e \in T!Entries : T!InWindow(e)' <=> T!InWindow(e) /\ e \notin freed
  <2> SUFFICES ASSUME NEW e \in T!Entries
               PROVE  T!InWindow(e)' <=> T!InWindow(e) /\ ~(T!Offset(e) < count)
    BY <1>e
  <2>1. T!Offset(e) \in 0 .. T!N - 1 /\ T!Outstanding \in 0 .. T!N - 1
    BY <1>a, <1>c, TxOffsetOfNext DEF T!Entries
  <2>2. T!InWindow(e)' <=> T!Offset(e)' < T!Outstanding'
    BY DEF T!InWindow
  <2>3. T!InWindow(e) <=> T!Offset(e) < T!Outstanding
    BY DEF T!InWindow
  <2> QED
    BY <1>d, <1>i, <1>j, <2>1, <2>2, <2>3, TxEntries
<1> HIDE DEF freed
<1>l. freed \in SUBSET T!Entries
  BY <1>f
<1> WITNESS freed \in SUBSET T!Entries
<1> QED
  BY <1>b, <1>f, <1>i, <1>k DEF freed

LEMMA FreeTxBuffersTxIInv ==
  ASSUME TxIInv, NEW NumEntries \in 1 .. T!N, T!FreeTxBuffers(NumEntries)
  PROVE  TxIInv'
<1>t. T!TypeOK
  BY DEF TxIInv
<1>b. PICK freed \in SUBSET T!Entries :
        LET bufs == {TxBufferMappings[e].UnmappedAddress : e \in freed}
        IN /\ tx.step = "idle"
           /\ dirty_tx' \in T!Entries
           /\ \A e \in T!Entries : T!InWindow(e)' <=> T!InWindow(e) /\ e \notin freed
           /\ \A e \in freed : /\ ~tx_desc[e].own
                               /\ TxBufferMappings[e].UnmappedAddress \in Buffers
           /\ TxBufferMappings' = [e \in T!Entries |->
                IF e \in freed THEN T!ZeroMapping ELSE TxBufferMappings[e]]
           /\ tx_desc' = [e \in T!Entries |->
                IF e \in freed THEN T!ZeroDesc ELSE tx_desc[e]]
           /\ liveMaps' = liveMaps \ bufs
           /\ callerOwns' = callerOwns \cup bufs
           /\ UNCHANGED <<cur_tx, tx, tx_tail_addr, hwCur, hwBusy, hwBuf, onWire>>
  BY <1>t, FreeTxBuffersEffect
<1> DEFINE bufs == {TxBufferMappings[e].UnmappedAddress : e \in freed}
<1>g. bufs \subseteq Buffers /\ ~T!Filling /\ ~T!Filling'
  BY <1>b DEF T!Filling
<1>l. /\ \A e \in freed : tx_desc'[e] = T!ZeroDesc /\ TxBufferMappings'[e] = T!ZeroMapping
      /\ \A e \in T!Entries : e \notin freed =>
            tx_desc'[e] = tx_desc[e] /\ TxBufferMappings'[e] = TxBufferMappings[e]
      /\ callerOwns' = callerOwns \cup bufs
      /\ UNCHANGED <<hwCur, hwBusy, hwBuf>>
  BY <1>b
<1>1. T!TypeOK'
  <2>1. T!ZeroDesc \in T!Desc /\ T!ZeroMapping \in T!Mapping
    BY DEF T!ZeroDesc, T!ZeroMapping, T!Desc, T!Mapping
  <2>2. tx_desc' \in [T!Entries -> T!Desc] /\ TxBufferMappings' \in [T!Entries -> T!Mapping]
    BY <1>t, <1>b, <2>1 DEF T!TypeOK
  <2>3. callerOwns' \in SUBSET Buffers /\ liveMaps' \in SUBSET Buffers
    BY <1>t, <1>b, <1>g DEF T!TypeOK
  <2>4. UNCHANGED <<cur_tx, tx, tx_tail_addr, hwCur, hwBusy, hwBuf, onWire>>
    BY <1>b
  <2> QED
    BY <1>t, <1>b, <2>2, <2>3, <2>4 DEF T!TypeOK
<1>2. EngineOwnsWindow'
  <2>1. \A e \in T!Entries : tx_desc'[e].own => tx_desc[e].own /\ e \notin freed
    BY <1>l DEF T!ZeroDesc
  <2>2. \A e \in T!Entries : tx_desc'[e].own => T!InWindow(e)'
    BY <1>b, <2>1 DEF TxIInv, EngineOwnsWindow
  <2>3. tx_desc[hwCur].own => tx_desc'[hwCur] = tx_desc[hwCur]
    BY <1>b, <1>l, <1>t DEF T!TypeOK
  <2> QED
    BY <1>g, <1>l, <2>2, <2>3 DEF TxIInv, EngineOwnsWindow
<1>3. T!Ownership'
  <2>1. T!NotReturned'
    <3> SUFFICES ASSUME NEW e \in T!Entries
                 PROVE  /\ tx_desc'[e].addr \notin callerOwns'
                        /\ TxBufferMappings'[e].UnmappedAddress \notin callerOwns'
      BY DEF T!NotReturned
    <3>1. CASE e \in freed
      BY <1>t, <1>g, <1>l, <3>1, TxDataAssumption DEF T!ZeroDesc, T!ZeroMapping, T!TypeOK
    <3>2. CASE e \notin freed
      <4>1. \A f \in freed : /\ TxBufferMappings[f].UnmappedAddress # tx_desc[e].addr
                             /\ TxBufferMappings[f].UnmappedAddress
                                  # TxBufferMappings[e].UnmappedAddress
        BY <1>b, <3>2, TxDataAssumption DEF TxIInv, T!Ownership, T!OneEntryPerBuffer
      <4>2. tx_desc[e].addr \notin bufs /\ TxBufferMappings[e].UnmappedAddress \notin bufs
        BY <4>1
      <4> QED
        BY <1>l, <3>2, <4>2 DEF TxIInv, T!Ownership, T!NotReturned
    <3> QED
      BY <3>1, <3>2
  <2>2. T!OneEntryPerBuffer'
    BY <1>l DEF TxIInv, T!Ownership, T!OneEntryPerBuffer, T!ZeroDesc, T!ZeroMapping
  <2> QED
    BY <2>1, <2>2 DEF T!Ownership
<1>4. RoomForFrame' /\ T!FragsHeld'
  BY <1>g DEF RoomForFrame, T!FragsHeld
<1> QED
  BY <1>1, <1>2, <1>3, <1>4 DEF TxIInv

LEMMA HwFetchTxIInv ==
  ASSUME TxIInv, T!HwFetch
  PROVE  TxIInv'
<1>g. UNCHANGED <<cur_tx, dirty_tx, tx_desc, TxBufferMappings, liveMaps, tx, tx_tail_addr,
                  hwCur, callerOwns, onWire>>
  BY DEF T!HwFetch, T!ringVars
<1>f. hwBusy' = hwCur /\ hwBuf' = tx_desc[hwCur].addr /\ tx_desc[hwCur].own
  BY DEF T!HwFetch
<1>1. T!TypeOK'
  <2>1. tx_desc[hwCur].addr \in Buffers \cup {NoBuf}
    BY DEF TxIInv, T!TypeOK, T!Desc
  <2> QED
    BY <1>f, <1>g, <2>1 DEF TxIInv, T!TypeOK
<1>2. EngineOwnsWindow'
  <2>1. hwCur # NoEntry
    BY RestartAssumption, RxRingAssumption, TxEntries DEF TxIInv, T!TypeOK, T!Entries
  <2> QED
    BY <1>f, <1>g, <2>1 DEF TxIInv, EngineOwnsWindow, T!InWindow, T!Filling, T!Outstanding, T!Offset
<1>3. T!Ownership'
  BY <1>g DEF TxIInv, T!Ownership, T!NotReturned, T!OneEntryPerBuffer
<1>4. RoomForFrame' /\ T!FragsHeld'
  BY <1>g DEF TxIInv, RoomForFrame, T!FragsHeld, T!Filling, T!InWindow, T!Outstanding, T!Offset
<1> QED
  BY <1>1, <1>2, <1>3, <1>4 DEF TxIInv

LEMMA HwWriteBackTxIInv ==
  ASSUME TxIInv, T!HwWriteBack
  PROVE  TxIInv'
<1>t. T!TypeOK
  BY DEF TxIInv
<1>a. dirty_tx \in T!Entries /\ hwCur \in T!Entries
  BY <1>t DEF T!TypeOK
<1>b. hwBusy = hwCur /\ tx_desc[hwCur].own
  BY DEF TxIInv, EngineOwnsWindow, T!HwWriteBack
<1>g. /\ tx_desc' = [tx_desc EXCEPT ![hwCur].own = FALSE]
      /\ hwCur' = T!NextEntry(hwCur) /\ hwBusy' = NoEntry /\ hwBuf' = NoBuf
      /\ UNCHANGED <<cur_tx, dirty_tx, TxBufferMappings, liveMaps, tx, tx_tail_addr, callerOwns>>
  BY <1>b DEF T!HwWriteBack
<1>f. \A e \in T!Entries : /\ tx_desc'[e].own => tx_desc[e].own
                         /\ tx_desc'[e].addr = tx_desc[e].addr
  BY <1>t, <1>a, <1>g DEF T!TypeOK, T!Desc
<1>1. T!TypeOK'
  <2>1. tx_desc' \in [T!Entries -> T!Desc]
    BY <1>t, <1>a, <1>g DEF T!TypeOK, T!Desc
  <2>2. onWire' \in SUBSET Buffers
    BY <1>t DEF T!TypeOK, T!HwWriteBack
  <2>3. hwCur' \in T!Entries
    BY <1>a, <1>g, TxOffsetOfNext
  <2> QED
    BY <1>t, <1>g, <2>1, <2>2, <2>3 DEF T!TypeOK
<1>2. EngineOwnsWindow'
  BY <1>f, <1>g DEF TxIInv, EngineOwnsWindow, T!InWindow, T!Filling, T!Outstanding, T!Offset
<1>3. T!Ownership'
  BY <1>f, <1>g DEF TxIInv, T!Ownership, T!NotReturned, T!OneEntryPerBuffer
<1>4. RoomForFrame' /\ T!FragsHeld'
  BY <1>g DEF TxIInv, RoomForFrame, T!FragsHeld, T!Filling, T!InWindow, T!Outstanding, T!Offset
<1> QED
  BY <1>1, <1>2, <1>3, <1>4 DEF TxIInv

-----------------------------------------------------------------------------
(* Both rings: a step of one leaves the other alone, and StartDriver puts  *)
(* both back to where the device starts.                                   *)

LEMMA TxUnchanged ==
  ASSUME TxIInv, UNCHANGED txVars
  PROVE  TxIInv'
BY DEF txVars, TxIInv, T!TypeOK, T!Ownership, T!NotReturned, T!OneEntryPerBuffer, T!FragsHeld,
       EngineOwnsWindow, RoomForFrame, T!Filling, T!InWindow, T!Outstanding, T!Offset

LEMMA RxUnchanged ==
  ASSUME RxIInv, UNCHANGED rvars
  PROVE  RxIInv'
BY DEF rvars, tailVars, hwVars, RxIInv, TypeOK, BuffersFilled, CopyFits, InCall

(* intelgbe_dma_init on the transmit ring, between two calls.              *)
LEMMA DmaInitTxTxIInv ==
  ASSUME TxIInv, tx.step = "idle", DmaInitTx
  PROVE  TxIInv'
<1>g. /\ tx_desc' = [e \in T!Entries |-> T!ZeroDesc]
      /\ tx_tail_addr' = 0 /\ hwCur' = 0 /\ hwBusy' = NoEntry /\ hwBuf' = NoBuf
      /\ UNCHANGED <<cur_tx, dirty_tx, TxBufferMappings, liveMaps, tx, callerOwns, onWire>>
  BY DEF DmaInitTx
<1>f. ~T!Filling'
  BY <1>g DEF T!Filling
<1>1. T!TypeOK'
  <2>1. T!ZeroDesc \in T!Desc
    BY DEF T!ZeroDesc, T!Desc
  <2>2. tx_desc' \in [T!Entries -> T!Desc]
    BY <1>g, <2>1
  <2> QED
    BY <1>g, <2>2, TxEntries DEF TxIInv, T!TypeOK
<1>2. EngineOwnsWindow'
  BY <1>g DEF EngineOwnsWindow, T!ZeroDesc
<1>3. T!Ownership'
  <2>1. \A e \in T!Entries : tx_desc'[e].addr = NoBuf
    BY <1>g DEF T!ZeroDesc
  <2>2. NoBuf \notin callerOwns
    BY TxDataAssumption DEF TxIInv, T!TypeOK
  <2> QED
    BY <1>g, <2>1, <2>2 DEF TxIInv, T!Ownership, T!NotReturned, T!OneEntryPerBuffer
<1> QED
  BY <1>1, <1>2, <1>3, <1>f DEF TxIInv, RoomForFrame, T!FragsHeld

(* Its receive half.                                                       *)
LEMMA DmaInitRxIInv ==
  ASSUME RxIInv, rx.step = "idle", DmaInitRx
  PROVE  RxIInv'
<1>1. rx_desc' \in [Entries -> [own : BOOLEAN, status : Statuses]]
  BY DEF DmaInitRx, Statuses
<1>2. tail_ptr' \in [{0, Chan} -> Tails] /\ rx_tail_addr' \in Tails
  BY RxEntries DEF DmaInitRx, RxIInv, TypeOK
<1>3. TypeOK'
  BY <1>1, <1>2, RxEntries DEF DmaInitRx, RxIInv, TypeOK
<1>4. BuffersFilled' /\ CopyFits'
  BY DEF DmaInitRx, RxIInv, BuffersFilled, CopyFits, InCall
<1> QED
  BY <1>3, <1>4 DEF RxIInv

LEMMA RestartStep ==
  ASSUME IInv, [Next]_vars
  PROVE  IInv'
<1>i. TxIInv /\ RxIInv
  BY DEF IInv
<1>1. ASSUME TxOnly, TxIInv' PROVE IInv'
  <2>1. UNCHANGED rvars
    BY <1>1 DEF TxOnly, rvars
  <2> QED
    BY <1>1, <1>i, <2>1, RxUnchanged DEF IInv
<1>2. ASSUME RxOnly, RxIInv' PROVE IInv'
  <2>1. UNCHANGED txVars
    BY <1>2 DEF RxOnly, txVars
  <2> QED
    BY <1>2, <1>i, <2>1, TxUnchanged DEF IInv
<1>3. CASE Transmit
  BY <1>1, <1>3, <1>i, TransmitLinearTxIInv, TransmitFragmentedTxIInv DEF Transmit, T!Transmit
<1>4. CASE DriverStep
  BY <1>1, <1>4, <1>i, FillFragmentTxIInv, FillFirstTxIInv, WriteTailTxIInv
  DEF DriverStep, T!DriverStep
<1>5. CASE Status
  BY <1>1, <1>5, <1>i, FreeTxBuffersTxIInv DEF Status, T!Free
<1>6. CASE TxFetch
  BY <1>1, <1>6, <1>i, HwFetchTxIInv DEF TxFetch
<1>7. CASE TxWriteBack
  BY <1>1, <1>7, <1>i, HwWriteBackTxIInv DEF TxWriteBack
<1>8. CASE ReceiveCall
  <2>1. [RxNext]_(rvars)
    BY <1>8 DEF ReceiveCall, RxNext
  <2> QED
    BY <1>2, <1>8, <1>i, <2>1, RxStep DEF ReceiveCall
<1>9. CASE RxEngine
  <2>1. [RxNext]_(rvars)
    BY <1>9 DEF RxEngine, RxNext
  <2> QED
    BY <1>2, <1>9, <1>i, <2>1, RxStep DEF RxEngine
<1>10. CASE StartDriver
  BY <1>10, <1>i, DmaInitTxTxIInv, DmaInitRxIInv DEF StartDriver, IInv
<1>11. CASE UNCHANGED vars
  BY <1>11, <1>i, TxUnchanged, RxUnchanged DEF vars, IInv
<1> QED
  BY <1>3, <1>4, <1>5, <1>6, <1>7, <1>8, <1>9, <1>10, <1>11 DEF Next

-----------------------------------------------------------------------------
(* What the engine owns stays recorded and mapped, when frames come whole  *)
(* and no mapping fails.                                                   *)

Whole == MaxFrags = 0 /\ MapMayFail = FALSE

MappedInv == IInv /\ T!PendingMapped /\ ~T!Filling

LEMMA MappedStep ==
  ASSUME Whole, MappedInv, [Next]_vars
  PROVE  MappedInv'
<1>i. IInv' /\ T!TypeOK
  BY RestartStep DEF MappedInv, IInv, TxIInv
<1> SUFFICES (T!PendingMapped /\ ~T!Filling)'
  BY <1>i DEF MappedInv
<1>1. ASSUME NEW b \in Buffers, T!TransmitLinear(b)
      PROVE  (T!PendingMapped /\ ~T!Filling)'
  <2>1. /\ TxBufferMappings' = [TxBufferMappings EXCEPT ![cur_tx] =
                                 [UnmappedAddress |-> b, mapped |-> TRUE]]
        /\ liveMaps' = liveMaps \cup {b}
        /\ tx_desc' = [tx_desc EXCEPT ![cur_tx] =
                        [own |-> TRUE, fd |-> TRUE, ld |-> TRUE, addr |-> b]]
        /\ ~T!Filling'
    BY <1>1 DEF T!TransmitLinear, Whole, T!Filling, T!Idle
  <2>2. cur_tx \in T!Entries /\ b # NoBuf
    BY <1>i, TxDataAssumption DEF T!TypeOK
  <2>3. \A e \in T!Entries : e # cur_tx => /\ tx_desc'[e] = tx_desc[e]
                                        /\ TxBufferMappings'[e] = TxBufferMappings[e]
    BY <1>i, <2>1 DEF T!TypeOK
  <2>4. tx_desc'[cur_tx].addr = b /\ TxBufferMappings'[cur_tx].UnmappedAddress = b
    BY <1>i, <2>1, <2>2 DEF T!TypeOK
  <2> QED
    BY <2>1, <2>2, <2>3, <2>4 DEF MappedInv, T!PendingMapped
<1>2. ASSUME NEW f \in T!FragLists PROVE FALSE
  BY <1>2 DEF T!FragLists, Whole
<1>3. ASSUME T!FillFragment \/ T!FillFirst PROVE FALSE
  BY <1>3 DEF MappedInv, T!Filling, T!FillFragment, T!FillFirst
<1>4. ASSUME NEW NumEntries \in 1 .. T!N, T!FreeTxBuffers(NumEntries)
      PROVE  (T!PendingMapped /\ ~T!Filling)'
  <2>1. PICK freed \in SUBSET T!Entries :
          LET bufs == {TxBufferMappings[e].UnmappedAddress : e \in freed}
          IN /\ \A e \in freed : TxBufferMappings[e].UnmappedAddress \in Buffers
             /\ TxBufferMappings' = [e \in T!Entries |->
                  IF e \in freed THEN T!ZeroMapping ELSE TxBufferMappings[e]]
             /\ tx_desc' = [e \in T!Entries |->
                  IF e \in freed THEN T!ZeroDesc ELSE tx_desc[e]]
             /\ liveMaps' = liveMaps \ bufs
             /\ UNCHANGED tx
    BY <1>4, <1>i, FreeTxBuffersEffect
  <2> DEFINE bufs == {TxBufferMappings[e].UnmappedAddress : e \in freed}
  <2>2. ASSUME NEW e \in T!Entries, tx_desc'[e].own
        PROVE  /\ e \notin freed /\ tx_desc'[e] = tx_desc[e]
               /\ TxBufferMappings'[e] = TxBufferMappings[e]
    BY <2>1, <2>2 DEF T!ZeroDesc
  <2>3. ASSUME NEW e \in T!Entries, tx_desc'[e].own
        PROVE  tx_desc[e].addr \notin bufs
    <3>1. \A f \in freed : TxBufferMappings[f].UnmappedAddress # tx_desc[e].addr
      BY <2>1, <2>2, <2>3, TxDataAssumption
      DEF MappedInv, IInv, TxIInv, T!Ownership, T!OneEntryPerBuffer
    <3> QED
      BY <3>1
  <2>4. T!PendingMapped'
    BY <2>1, <2>2, <2>3 DEF MappedInv, T!PendingMapped
  <2> QED
    BY <2>1, <2>4 DEF MappedInv, T!Filling
<1>5. CASE T!WriteTail
  BY <1>5 DEF T!WriteTail, MappedInv, T!PendingMapped, T!Filling, T!Idle
<1>6. CASE T!HwFetch
  BY <1>6 DEF T!HwFetch, T!ringVars, MappedInv, T!PendingMapped, T!Filling
<1>7. CASE T!HwWriteBack
  <2>1. \A e \in T!Entries : /\ tx_desc'[e].own => tx_desc[e].own
                           /\ tx_desc'[e].addr = tx_desc[e].addr
    BY <1>7, <1>i DEF T!HwWriteBack, T!TypeOK, T!Desc
  <2> QED
    BY <1>7, <2>1 DEF T!HwWriteBack, MappedInv, T!PendingMapped, T!Filling
<1>8. CASE StartDriver
  BY <1>8 DEF StartDriver, DmaInitTx, T!PendingMapped, T!Filling, T!ZeroDesc
<1>9. CASE UNCHANGED txVars
  BY <1>9 DEF txVars, MappedInv, T!PendingMapped, T!Filling
<1>10. CASE ReceiveCall \/ RxEngine \/ UNCHANGED vars
  BY <1>9, <1>10 DEF ReceiveCall, RxEngine, RxOnly, vars, txVars
<1> QED
  BY <1>1, <1>2, <1>3, <1>4, <1>5, <1>6, <1>7, <1>8, <1>10
  DEF Next, Transmit, T!Transmit, DriverStep, T!DriverStep, Status, T!Free, TxFetch, TxWriteBack

-----------------------------------------------------------------------------
(* The inductive invariant of both rings, for any number of restarts.      *)
THEOREM IInvariance == Spec => []IInv
<1>1. Init => IInv
  BY TxInit, RxInitIInv DEF Init, IInv
<1>2. IInv /\ [Next]_vars => IInv'
  BY RestartStep
<1> QED
  BY <1>1, <1>2, PTL DEF Spec

(* Whatever intelgbe_dma_init clears under the driver's indices, a buffer  *)
(* given to IntelgbeTransmit stays in one place of the ring and returns    *)
(* from IntelgbeFreeTxBuffers once, fragments and failing mappings         *)
(* included.                                                               *)
THEOREM OwnershipKeptHolds == Spec => []OwnershipKept
<1>1. IInv => OwnershipKept
  BY DEF IInv, TxIInv, OwnershipKept
<1> QED
  BY <1>1, IInvariance, PTL

(* The transmit engine, restarted at entry 0 while the driver's indices    *)
(* are elsewhere, never reads a buffer that is in the caller's hands.      *)
THEOREM EngineAvoidsCallerHolds == Spec => []T!NoDmaOnCallerBuffer
<1>1. IInv => T!NoDmaOnCallerBuffer
  BY TxDataAssumption
  DEF IInv, TxIInv, T!TypeOK, T!Ownership, T!NotReturned, EngineOwnsWindow, T!NoDmaOnCallerBuffer
<1> QED
  BY <1>1, IInvariance, PTL

(* What it reads is mapped, when frames come whole and mappings succeed: a *)
(* fragment is never recorded as mapped, and IntelgbeTransmit hands over a *)
(* descriptor with no address when a mapping fails.                        *)
THEOREM EngineReadsMappedHolds == Whole => (Spec => []EngineReadsMapped)
<1> SUFFICES ASSUME Whole PROVE Spec => []EngineReadsMapped
  OBVIOUS
<1>1. Init => MappedInv
  <2>1. Init => IInv
    BY TxInit, RxInitIInv DEF Init, IInv
  <2> QED
    BY <2>1 DEF Init, T!Init, MappedInv, T!PendingMapped, T!Filling, T!ZeroDesc, T!Idle
<1>2. MappedInv /\ [Next]_vars => MappedInv'
  BY MappedStep
<1>3. MappedInv => EngineReadsMapped
  BY DEF MappedInv, IInv, TxIInv, T!TypeOK, T!PendingMapped, EngineOwnsWindow, EngineReadsMapped,
         T!HwReadsMapped
<1> QED
  BY <1>1, <1>2, <1>3, PTL DEF Spec

(* The receive engine never writes the buffer IntelgbeReceive copies from, *)
(* across any number of restarts.                                          *)
THEOREM CopyKeptHolds == Spec => []CopyKept
<1>1. IInv => CopyKept
  BY RestartAssumption, RxRingAssumption, RxEntries
  DEF IInv, RxIInv, TypeOK, BuffersFilled, InCall, CopyUndisturbed, CopyKept, Entries
<1> QED
  BY <1>1, IInvariance, PTL

(* The receive ring by itself: the entry IntelgbeReceive works on is the   *)
(* driver's until it is given back, the engine writes only entries of its  *)
(* own, and what counts as a good frame is one.                            *)
THEOREM RxIInvariance == RxSpec => []RxIInv
<1>1. RxIInv /\ [RxNext]_(rvars) => RxIInv'
  BY RxStep
<1> QED
  BY <1>1, RxInitIInv, PTL DEF RxSpec

(* The receive engine never writes the buffer IntelgbeReceive copies from. *)
THEOREM CopyUndisturbedHolds == RxSpec => []CopyUndisturbed
<1>1. RxIInv => CopyUndisturbed
  BY RestartAssumption, RxRingAssumption, RxEntries
  DEF RxIInv, TypeOK, BuffersFilled, InCall, CopyUndisturbed, Entries
<1> QED
  BY <1>1, RxIInvariance, PTL

(* Whatever frame lengths and buffer lengths meet, and however the         *)
(* (INT16) cast of BufferLen comes out, the copy of IntelgbeReceive fits.  *)
THEOREM CopyFitsHolds == RxSpec => []CopyFits
<1>1. RxIInv => CopyFits
  BY DEF RxIInv
<1> QED
  BY <1>1, RxIInvariance, PTL

-----------------------------------------------------------------------------
(* The receive ring by itself is the queue of RxQueue.                     *)

(* Entries by their distance from cur_rx, and the engine among them.       *)
LEMMA RxAhead ==
  ASSUME TypeOK
  PROVE  /\ \A k \in 0 .. N - 1 : Ahead(k) \in Entries
         /\ \A k, l \in 0 .. N - 1 : Ahead(k) = Ahead(l) => k = l
         /\ Ahead(0) = cur_rx
         /\ \A e \in Entries : NextEntry(e) = cur_rx => e = Ahead(N - 1)
<1>1. N \in Nat /\ N > 1 /\ cur_rx \in 0 .. N - 1
  BY RxEntries DEF TypeOK, Entries
<1>2. \A k \in 0 .. N - 1 : Ahead(k) = IF cur_rx + k >= N THEN cur_rx + k - N ELSE cur_rx + k
  BY DEF Ahead
<1> QED
  BY <1>1, <1>2 DEF Entries, NextEntry

LEMMA RxFilled ==
  ASSUME TypeOK
  PROVE  /\ Filled \in 0 .. N
         /\ Filled < N => hwRx = Ahead(Filled)
         /\ Filled = N => hwRx = cur_rx /\ ~rx_desc[cur_rx].own
<1>1. N \in Nat /\ N > 1 /\ cur_rx \in 0 .. N - 1 /\ hwRx \in 0 .. N - 1
  BY RxEntries DEF TypeOK, Entries
<1>2. CASE hwRx > cur_rx
  BY <1>1, <1>2 DEF Filled, Ahead
<1>3. CASE hwRx < cur_rx
  BY <1>1, <1>3 DEF Filled, Ahead
<1>4. CASE hwRx = cur_rx
  BY <1>1, <1>4 DEF Filled, Ahead
<1> QED
  BY <1>1, <1>2, <1>3, <1>4

(* The other way round, for the state after a step too: the engine's place *)
(* h and the descriptor at cur_rx, c, tell how many entries are filled.    *)
At(c, k) == IF c + k >= N THEN c + k - N ELSE c + k

Dist(c, h, own) == CASE h > c -> h - c
                     [] h < c -> h - c + N
                     [] OTHER -> IF own THEN 0 ELSE N

LEMMA RxDist ==
  ASSUME NEW c \in Entries, NEW h \in Entries, NEW own, NEW n \in 0 .. N,
         n < N => h = At(c, n),
         n = N => h = c /\ ~own,
         n = 0 => own
  PROVE  Dist(c, h, own) = n
<1>1. N \in Nat /\ N > 1 /\ c \in 0 .. N - 1 /\ h \in 0 .. N - 1
  BY RxEntries DEF Entries
<1>2. CASE n = 0
  BY <1>1, <1>2 DEF Dist, At
<1>3. CASE n = N
  BY <1>1, <1>3 DEF Dist
<1>4. CASE n \in 1 .. N - 1 /\ c + n >= N
  BY <1>1, <1>4 DEF Dist, At
<1>5. CASE n \in 1 .. N - 1 /\ c + n < N
  BY <1>1, <1>5 DEF Dist, At
<1> QED
  BY <1>1, <1>2, <1>3, <1>4, <1>5

LEMMA RingInit == RxInit => RingInv
<1> SUFFICES ASSUME RxInit PROVE RingInv
  OBVIOUS
<1>1. RxIInv
  BY RxInitIInv
<1>2. Filled = 0
  BY RxEntries DEF RxInit, Filled
<1>3. \A k \in 0 .. N - 1 : Ahead(k) \in Entries
  BY <1>1, RxAhead DEF RxIInv
<1>4. RingAgreement
  BY <1>2, <1>3, RxEntries DEF RxInit, RingAgreement, InCall, Idle
<1> QED
  BY <1>1, <1>4 DEF RxInit, RingInv, CheckHolds, Idle

(* IntelgbeReceive takes the entry at cur_rx: the others come one nearer.  *)
LEMMA CheckShifts ==
  ASSUME RingInv, RxIInv', NEW BufferLen \in BufferLens, ReceiveCheck(BufferLen)
  PROVE  /\ Filled > 0 /\ Filled' = Filled - 1
         /\ \A k \in 0 .. N - 2 : Ahead(k)' = Ahead(k + 1)
         /\ Ahead(N - 1)' = cur_rx
<1>1. N \in Nat /\ N > 1 /\ cur_rx \in 0 .. N - 1
  BY RxEntries DEF RingInv, RxIInv, TypeOK, Entries
<1>2. cur_rx' = NextEntry(cur_rx) /\ UNCHANGED <<rx_desc, hwRx>> /\ ~rx_desc[cur_rx].own /\ ~InCall
  BY DEF ReceiveCheck, hwVars, InCall
<1>3. \A k \in 0 .. N - 2 : Ahead(k)' = Ahead(k + 1)
  BY <1>1, <1>2 DEF Ahead, NextEntry
<1>4. Ahead(N - 1)' = cur_rx
  BY <1>1, <1>2 DEF Ahead, NextEntry
<1>5. Filled \in 0 .. N /\ (Filled < N => hwRx = Ahead(Filled)) /\ (Filled = N => hwRx = cur_rx)
  BY RxFilled DEF RingInv, RxIInv
<1>6. Filled > 0
  BY <1>1, <1>2, <1>5, RxAhead DEF RingInv, RxIInv, RingAgreement
<1>7. Filled' = Filled - 1
  <2>0. PICK n \in 0 .. N - 1 : n = Filled - 1
    BY <1>1, <1>5, <1>6
  <2>1. hwRx = At(cur_rx', n)
    <3>1. Ahead(n)' = At(cur_rx', n)
      BY DEF Ahead, At
    <3>2. CASE Filled = N
      <4>1. Ahead(n)' = cur_rx
        BY <1>1, <1>2, <2>0, <3>2 DEF Ahead, NextEntry
      <4> QED
        BY <1>5, <3>1, <3>2, <4>1
    <3>3. CASE Filled < N
      <4>1. n \in 0 .. N - 2 /\ Filled = n + 1
        BY <1>1, <1>5, <2>0, <3>3
      <4>2. Ahead(n)' = Ahead(n + 1)
        BY <1>1, <1>2, <4>1 DEF Ahead, NextEntry
      <4> QED
        BY <1>5, <3>1, <3>3, <4>1, <4>2
    <3> QED
      BY <1>1, <1>5, <3>2, <3>3
  <2>2. n = 0 => rx_desc[cur_rx'].own
    <3> SUFFICES ASSUME n = 0 PROVE rx_desc[cur_rx'].own
      OBVIOUS
    <3>1. cur_rx' = Ahead(1)
      BY <1>1, <1>2 DEF Ahead, NextEntry
    <3>2. 1 \in 0 .. N - 1 /\ 1 >= Filled
      BY <1>1, <1>5, <2>0
    <3> QED
      BY <1>2, <3>1, <3>2 DEF RingInv, RingAgreement
  <2>3. cur_rx' \in Entries /\ hwRx \in Entries /\ n \in 0 .. N /\ n # N
    BY <1>1, <1>2, <2>0 DEF RingInv, RxIInv, TypeOK
  <2>4. Dist(cur_rx', hwRx, rx_desc[cur_rx'].own) = n
    BY <2>1, <2>2, <2>3, RxDist
  <2>5. Filled' = Dist(cur_rx', hwRx, rx_desc[cur_rx'].own)
    BY <1>2 DEF Filled, Dist
  <2> QED
    BY <2>0, <2>4, <2>5
<1> QED
  BY <1>3, <1>4, <1>6, <1>7

LEMMA CheckRing ==
  ASSUME RingInv, RxIInv', NEW BufferLen \in BufferLens, ReceiveCheck(BufferLen)
  PROVE  RingInv'
<1>1. N \in Nat /\ N > 1 /\ cur_rx \in Entries /\ Filled \in 0 .. N
  BY RxEntries, RxFilled DEF RingInv, RxIInv, TypeOK
<1>2. /\ Filled > 0 /\ Filled' = Filled - 1
      /\ \A k \in 0 .. N - 2 : Ahead(k)' = Ahead(k + 1)
      /\ Ahead(N - 1)' = cur_rx
  BY CheckShifts
<1>3. /\ ~rx_desc[cur_rx].own /\ ~InCall
      /\ rx' = [step |-> "copy", entry |-> cur_rx,
                ok |-> rx_desc[cur_rx].status = "ok", BufferLen |-> BufferLen]
      /\ cur_rx' = NextEntry(cur_rx) /\ db' = NoData
      /\ UNCHANGED <<rx_desc, hwRx, hwRxBusy>>
  BY DEF ReceiveCheck, InCall, hwVars
<1>4. InCall' /\ rx'.entry = cur_rx
  BY <1>3 DEF InCall
<1>5. ASSUME NEW k \in 0 .. N - 1
      PROVE  rx_desc'[Ahead(k)'].own <=> k >= Filled' /\ ~(InCall' /\ Ahead(k)' = rx'.entry)
  <2>1. CASE k = N - 1
    BY <1>2, <1>3, <1>4, <2>1
  <2>2. CASE k \in 0 .. N - 2
    <3>1. k + 1 \in 0 .. N - 1 /\ (k >= Filled - 1 <=> k + 1 >= Filled)
      BY <1>1, <2>2
    <3>2. rx_desc[Ahead(k + 1)].own <=> k + 1 >= Filled
      BY <1>3, <3>1 DEF RingInv, RingAgreement
    <3>3. Ahead(k + 1) # cur_rx
      BY <1>1, <2>2, <3>1, RxAhead DEF RingInv, RxIInv
    <3> QED
      BY <1>2, <1>3, <1>4, <2>2, <3>1, <3>2, <3>3
  <2> QED
    BY <1>1, <2>1, <2>2
<1>6. Filled' < N
  BY <1>1, <1>2
<1>7. RingAgreement'
  BY <1>3, <1>4, <1>5, <1>6 DEF RingInv, RingAgreement
<1>8. CheckHolds'
  BY <1>3 DEF CheckHolds, NoData
<1> QED
  BY <1>7, <1>8 DEF RingInv

(* A descriptor is given back: the engine may use it again, last of all.   *)
LEMMA RecycleRing ==
  ASSUME RingInv, RxIInv', ReceiveRecycle
  PROVE  RingInv' /\ Filled' = Filled
<1>1. N \in Nat /\ N > 1 /\ cur_rx \in Entries /\ Filled \in 0 .. N
  BY RxEntries, RxFilled DEF RingInv, RxIInv, TypeOK
<1>2. /\ InCall /\ rx.entry \in Entries /\ rx_desc \in [Entries -> [own : BOOLEAN, status : Statuses]]
      /\ rx_desc' = [rx_desc EXCEPT ![rx.entry] = [own |-> TRUE, status |-> "none"]]
      /\ rx' = Idle
      /\ UNCHANGED <<cur_rx, hwRx, hwRxBusy>>
  BY DEF ReceiveRecycle, InCall, hwVars, RingInv, RxIInv, TypeOK
<1>3. ~InCall' /\ rx'.step = "idle"
  BY <1>2 DEF InCall, Idle
<1>4. Filled < N /\ NextEntry(rx.entry) = cur_rx
  BY <1>2 DEF RingInv, RingAgreement
<1>5. rx.entry = Ahead(N - 1) /\ rx.entry # cur_rx
  BY <1>1, <1>2, <1>4, RxAhead DEF RingInv, RxIInv, NextEntry, Entries
<1>6. Filled' = Filled
  <2>1. rx_desc'[cur_rx] = rx_desc[cur_rx]
    BY <1>1, <1>2, <1>5
  <2> QED
    BY <1>2, <2>1 DEF Filled
<1>7. ASSUME NEW k \in 0 .. N - 1
      PROVE  rx_desc'[Ahead(k)'].own <=> k >= Filled' /\ ~(InCall' /\ Ahead(k)' = rx'.entry)
  <2>1. Ahead(k)' = Ahead(k) /\ Ahead(k) \in Entries
    BY <1>2, RxAhead DEF Ahead, RingInv, RxIInv
  <2>2. rx_desc[Ahead(k)].own <=> k >= Filled /\ ~(InCall /\ Ahead(k) = rx.entry)
    BY DEF RingInv, RingAgreement
  <2>3. CASE k = N - 1
    BY <1>1, <1>2, <1>3, <1>4, <1>5, <1>6, <2>1, <2>3
  <2>4. CASE k # N - 1
    <3>1. Ahead(k) # rx.entry
      BY <1>1, <1>5, <2>4, RxAhead DEF RingInv, RxIInv
    <3> QED
      BY <1>2, <1>3, <1>6, <2>1, <2>2, <3>1
  <2> QED
    BY <2>3, <2>4
<1>8. RingAgreement'
  BY <1>2, <1>3, <1>7 DEF RingInv, RingAgreement
<1>9. CheckHolds'
  BY <1>3 DEF CheckHolds
<1> QED
  BY <1>6, <1>8, <1>9 DEF RingInv

(* The engine hands an entry over: one more is filled.                     *)
LEMMA StoreRing ==
  ASSUME RingInv, RxIInv', NEW f \in Frames, NEW status \in {"ok", "error"}, HwRxStore(f, status)
  PROVE  RingInv' /\ Filled < N /\ hwRx = Ahead(Filled) /\ Filled' = Filled + 1
                  /\ (InCall => hwRx # rx.entry)
<1>1. N \in Nat /\ N > 1 /\ cur_rx \in Entries /\ hwRx \in Entries /\ Filled \in 0 .. N
  BY RxEntries, RxFilled DEF RingInv, RxIInv, TypeOK
<1>2. /\ hwRxBusy = hwRx /\ rx_desc \in [Entries -> [own : BOOLEAN, status : Statuses]]
      /\ rx_desc[hwRx].own
      /\ rx_desc' = [rx_desc EXCEPT ![hwRx] = [own |-> FALSE, status |-> status]]
      /\ hwRx' = NextEntry(hwRx) /\ hwRxBusy' = NoEntry
      /\ UNCHANGED <<cur_rx, rx, db>>
  BY DEF HwRxStore, RingInv, RingAgreement, RxIInv, TypeOK, BuffersFilled
<1>3. Filled < N /\ hwRx = Ahead(Filled)
  BY <1>1, <1>2, RxFilled DEF RingInv, RxIInv
<1>4. InCall => rx.entry # hwRx /\ rx.entry = Ahead(N - 1) /\ rx.entry \in Entries
  BY <1>2, RxAhead DEF RingInv, RxIInv, TypeOK, BuffersFilled, RingAgreement
<1>5. PICK n \in 1 .. N : n = Filled + 1
  BY <1>1, <1>3
<1>6. Filled' = n
  <2>1. n < N => hwRx' = At(cur_rx, n)
    BY <1>1, <1>2, <1>3, <1>5 DEF At, Ahead, NextEntry, Entries
  <2>2. n = N => hwRx' = cur_rx
    BY <1>1, <1>2, <1>3, <1>5 DEF At, Ahead, NextEntry, Entries
  <2>3. n = N => ~rx_desc'[cur_rx].own
    <3> SUFFICES ASSUME n = N PROVE ~rx_desc'[cur_rx].own
      OBVIOUS
    <3>1. Filled = N - 1 /\ 0 \in 0 .. N - 1 /\ 0 < Filled /\ N - 1 \in 0 .. N - 1
      BY <1>1, <1>5
    <3>2. ~rx_desc[cur_rx].own
      BY <3>1, RxAhead DEF RingInv, RingAgreement, RxIInv
    <3> QED
      BY <1>1, <1>2, <3>2
  <2>4. hwRx' \in Entries /\ n \in 0 .. N /\ n # 0
    BY <1>1, <1>2, <1>5, RxEntries
  <2>5. Dist(cur_rx, hwRx', rx_desc'[cur_rx].own) = n
    BY <1>1, <2>1, <2>2, <2>3, <2>4, RxDist
  <2> QED
    BY <1>2, <2>5 DEF Filled, Dist
<1>7. ASSUME NEW k \in 0 .. N - 1
      PROVE  rx_desc'[Ahead(k)'].own <=> k >= Filled' /\ ~(InCall' /\ Ahead(k)' = rx'.entry)
  <2>1. Ahead(k)' = Ahead(k) /\ Ahead(k) \in Entries /\ InCall' = InCall
    BY <1>2, RxAhead DEF Ahead, InCall, RingInv, RxIInv
  <2>2. rx_desc[Ahead(k)].own <=> k >= Filled /\ ~(InCall /\ Ahead(k) = rx.entry)
    BY DEF RingInv, RingAgreement
  <2>3. CASE k = Filled
    BY <1>1, <1>2, <1>3, <1>5, <1>6, <2>1, <2>3
  <2>4. CASE k # Filled
    <3>1. Ahead(k) # hwRx
      BY <1>1, <1>3, <2>4, RxAhead DEF RingInv, RxIInv
    <3>2. k >= Filled' <=> k >= Filled
      BY <1>1, <1>5, <1>6, <2>4
    <3> QED
      BY <1>2, <2>1, <2>2, <3>1, <3>2
  <2> QED
    BY <2>3, <2>4
<1>8. InCall' => Filled' < N
  <2> SUFFICES ASSUME InCall PROVE Filled + 1 < N
    BY <1>2, <1>5, <1>6 DEF InCall
  <2> QED
    BY <1>1, <1>3, <1>4
<1>9. RingAgreement'
  BY <1>2, <1>7, <1>8 DEF RingInv, RingAgreement, InCall
<1>10. CheckHolds'
  <2> SUFFICES ASSUME rx.step = "copy" PROVE rx_desc'[rx.entry] = rx_desc[rx.entry]
    BY <1>2 DEF RingInv, CheckHolds
  <2> QED
    BY <1>1, <1>2, <1>4 DEF InCall
<1> QED
  BY <1>3, <1>4, <1>5, <1>6, <1>9, <1>10 DEF RingInv

LEMMA RingStep ==
  ASSUME RingInv, [RxNext]_rvars
  PROVE  RingInv'
<1>1. RxIInv'
  BY RxStep DEF RingInv
<1>2. ASSUME UNCHANGED <<cur_rx, rx_desc, hwRx, hwRxBusy>>, InCall' = InCall, rx'.entry = rx.entry
      PROVE  RingAgreement'
  BY <1>2 DEF RingInv, RingAgreement, Ahead, Filled
<1>3. CASE ReceiveNoData
  BY <1>1, <1>2, <1>3 DEF ReceiveNoData, RingInv, CheckHolds, hwVars, InCall
<1>4. CASE \E BufferLen \in BufferLens : ReceiveCheck(BufferLen)
  BY <1>1, <1>4, CheckRing
<1>5. CASE ReceiveCopy
  <2>1. /\ rx' = [rx EXCEPT !.step = "recycle"] /\ rx.step = "copy"
        /\ UNCHANGED <<cur_rx, rx_desc, hwRx, hwRxBusy>>
    BY <1>5 DEF ReceiveCopy, hwVars
  <2>2. rx'.step = "recycle" /\ rx'.entry = rx.entry
    BY <2>1 DEF RingInv, RxIInv, TypeOK
  <2> QED
    BY <1>1, <1>2, <2>1, <2>2 DEF RingInv, CheckHolds, InCall
<1>6. CASE ReceiveRecycle
  BY <1>1, <1>6, RecycleRing
<1>7. CASE HwRxFetch
  <2>1. hwRxBusy' = hwRx /\ UNCHANGED <<cur_rx, rx_desc, hwRx, rx, db>>
    BY <1>7 DEF HwRxFetch
  <2> QED
    BY <1>1, <2>1 DEF RingInv, RingAgreement, CheckHolds, Ahead, Filled, InCall
<1>8. CASE \E f \in Frames, status \in {"ok", "error"} : HwRxStore(f, status)
  BY <1>1, <1>8, StoreRing
<1>9. CASE UNCHANGED rvars
  BY <1>1, <1>2, <1>9 DEF rvars, hwVars, RingInv, CheckHolds, InCall
<1> QED
  BY <1>3, <1>4, <1>5, <1>6, <1>7, <1>8, <1>9 DEF RxNext, Receive, HwRx

(* IntelgbeReceive and the engine agree on which descriptors are filled,   *)
(* for every ring size: the driver's are the ones between cur_rx and the   *)
(* engine, and the one of the call in progress.                            *)
THEOREM RingInvariance == RxSpec => []RingInv
<1>1. RingInv /\ [RxNext]_rvars => RingInv'
  BY RingStep
<1> QED
  BY <1>1, RingInit, PTL DEF RxSpec

(* The queue as a function of the state, so that what is said of it holds  *)
(* before and after a step: n filled entries from c on, after the one of a *)
(* call when it is about to copy.                                          *)
Items == [frame : Frames \cup {NoFrame}, good : BOOLEAN]

Descs == [Entries -> [own : BOOLEAN, status : Statuses]]

Buffs == [Entries -> Frames \cup {NoFrame}]

Place(c, entry, i) == IF i = 0 THEN entry ELSE At(c, i - 1)

ItemOf(buff, desc, e) == [frame |-> buff[e], good |-> desc[e].status = "ok"]

Line(c, n, copying, entry, buff, desc) ==
  [i \in 1 .. n + copying |-> ItemOf(buff, desc, Place(c, entry, i - copying))]

LEMMA LineIsSeq ==
  ASSUME NEW c \in Entries, NEW n \in 0 .. N, NEW copying \in {0, 1}, NEW entry \in Entries,
         NEW buff \in Buffs, NEW desc \in Descs
  PROVE  /\ Line(c, n, copying, entry, buff, desc) \in Seq(Items)
         /\ Len(Line(c, n, copying, entry, buff, desc)) = n + copying
         /\ \A i \in 1 .. n + copying :
              /\ Place(c, entry, i - copying) \in Entries
              /\ Line(c, n, copying, entry, buff, desc)[i] =
                   ItemOf(buff, desc, Place(c, entry, i - copying))
<1> DEFINE q == Line(c, n, copying, entry, buff, desc)
<1>1. N \in Nat /\ N > 1 /\ n + copying \in Nat
  BY RxEntries
<1>2. ASSUME NEW i \in 1 .. n + copying
      PROVE  Place(c, entry, i - copying) \in Entries
  <2>1. CASE i - copying = 0
    BY <2>1 DEF Place
  <2>2. CASE i - copying # 0
    <3>1. i - copying - 1 \in 0 .. N - 1
      BY <1>1, <2>2
    <3>2. At(c, i - copying - 1) \in Entries
      BY <1>1, <3>1 DEF At, Entries
    <3> QED
      BY <2>2, <3>2 DEF Place
  <2> QED
    BY <2>1, <2>2
<1>3. \A e \in Entries : ItemOf(buff, desc, e) \in Items
  BY DEF ItemOf, Items, Buffs, Descs
<1>4. q \in [1 .. n + copying -> Items]
  BY <1>2, <1>3 DEF Line
<1>5. q \in Seq(Items) /\ Len(q) = n + copying
  BY <1>1, <1>4
<1> QED
  BY <1>2, <1>5 DEF Line

LEMMA QueueIsLine ==
  /\ Queue  = Line(cur_rx, Filled, Copying, rx.entry, rx_buff, rx_desc)
  /\ Queue' = Line(cur_rx', Filled', Copying', rx'.entry, rx_buff', rx_desc')
BY DEF Queue, Line, Item, ItemOf, Held, Place, Ahead, At

(* What the lemmas on Line need of a state.                                *)
LEMMA RingTypes ==
  ASSUME RingInv
  PROVE  /\ N \in Nat /\ N > 1
         /\ cur_rx \in Entries /\ Filled \in 0 .. N /\ Copying \in {0, 1}
         /\ rx.entry \in Entries /\ rx_buff \in Buffs /\ rx_desc \in Descs
         /\ Queue \in Seq(Items) /\ Len(Queue) = Filled + Copying
<1>1. /\ N \in Nat /\ N > 1
      /\ cur_rx \in Entries /\ Filled \in 0 .. N /\ Copying \in {0, 1}
      /\ rx.entry \in Entries /\ rx_buff \in Buffs /\ rx_desc \in Descs
  BY RxEntries, RxFilled DEF RingInv, RxIInv, TypeOK, Copying, Buffs, Descs
<1> QED
  BY <1>1, QueueIsLine, LineIsSeq

(* The look at a descriptor leaves the queue as it is.                     *)
LEMMA CheckIsDone ==
  ASSUME RingInv, RingInv', NEW BufferLen \in BufferLens, ReceiveCheck(BufferLen)
  PROVE  Q!Done
<1>1. /\ Filled > 0 /\ Filled' = Filled - 1
      /\ \A k \in 0 .. N - 2 : Ahead(k)' = Ahead(k + 1)
  BY CheckShifts DEF RingInv
<1>2. /\ Copying = 0 /\ Copying' = 1 /\ rx'.entry = cur_rx /\ db'.frame = NoFrame
      /\ rx_buff' = rx_buff /\ rx_desc' = rx_desc /\ cur_rx' = NextEntry(cur_rx)
  BY DEF ReceiveCheck, Copying, NoData
<1>3. /\ N \in Nat /\ N > 1 /\ cur_rx \in Entries /\ Filled \in 0 .. N
  BY RingTypes
<1>4. \A i \in 1 .. Filled : Place(cur_rx', cur_rx, i - 1) = Place(cur_rx, rx.entry, i - 0)
  <2> SUFFICES ASSUME NEW i \in 1 .. Filled
               PROVE  Place(cur_rx', cur_rx, i - 1) = Place(cur_rx, rx.entry, i - 0)
    OBVIOUS
  <2>1. CASE i = 1
    BY <1>3, <2>1 DEF Place, At, Entries
  <2>2. CASE i # 1
    <3>1. i - 2 \in 0 .. N - 2 /\ (i - 2) + 1 = i - 1 /\ i - 1 # 0 /\ i - 0 # 0 /\ i - 1 - 1 = i - 2
      BY <1>3, <2>2
    <3>2. Ahead(i - 2)' = At(cur_rx', i - 2) /\ Ahead(i - 1) = At(cur_rx, i - 1)
      BY DEF Ahead, At
    <3>3. Ahead(i - 2)' = Ahead(i - 1)
      BY <1>2, <1>3, <3>1 DEF Ahead, NextEntry, Entries
    <3> QED
      BY <3>1, <3>2, <3>3 DEF Place
  <2> QED
    BY <2>1, <2>2
<1>5. Filled' + Copying' = Filled /\ Filled + Copying = Filled
  BY <1>1, <1>2, <1>3
<1>6. Queue' = Queue
  BY <1>2, <1>4, <1>5, QueueIsLine DEF Line
<1> QED
  BY <1>2, <1>6 DEF Q!Done

(* The copy takes the oldest frame.                                        *)
LEMMA CopyIsTake ==
  ASSUME RingInv, RingInv', ReceiveCopy
  PROVE  Q!Deliver \/ Q!PassOver
<1>1. /\ N \in Nat /\ N > 1 /\ cur_rx \in Entries /\ Filled \in 0 .. N
      /\ rx.entry \in Entries /\ rx_buff \in Buffs /\ rx_desc \in Descs
      /\ Queue \in Seq(Items) /\ Len(Queue) = Filled + Copying
  BY RingTypes
<1>2. /\ rx.step = "copy" /\ rx' = [rx EXCEPT !.step = "recycle"]
      /\ UNCHANGED <<cur_rx, rx_desc, rx_buff, hwRx>>
  BY DEF ReceiveCopy, hwVars
<1>3. Copying = 1 /\ Copying' = 0 /\ rx'.entry = rx.entry /\ Filled' = Filled
  BY <1>2 DEF Copying, Filled, RingInv, RxIInv, TypeOK
<1>4. Queue' = Line(cur_rx, Filled, 0, rx.entry, rx_buff, rx_desc)
  BY <1>2, <1>3, QueueIsLine
<1>5. /\ Queue' \in Seq(Items) /\ Len(Queue') = Filled
      /\ \A i \in 1 .. Filled : Queue'[i] = ItemOf(rx_buff, rx_desc, Place(cur_rx, rx.entry, i))
  <2> DEFINE q == Line(cur_rx, Filled, 0, rx.entry, rx_buff, rx_desc)
  <2>1. /\ q \in Seq(Items) /\ Len(q) = Filled + 0
        /\ \A i \in 1 .. Filled + 0 : q[i] = ItemOf(rx_buff, rx_desc, Place(cur_rx, rx.entry, i - 0))
    <3>1. 0 \in {0, 1}
      OBVIOUS
    <3>2. q \in Seq(Items) /\ Len(q) = Filled + 0
      BY <1>1, <3>1, LineIsSeq
    <3> QED
      BY <3>2 DEF Line
  <2> HIDE DEF q
  <2>2. Filled + 0 = Filled /\ \A i \in 1 .. Filled : i - 0 = i
    BY <1>1
  <2>3. Queue' = q
    BY <1>4 DEF q
  <2> QED
    BY <2>1, <2>2, <2>3
<1>6. \A i \in 1 .. Filled + 1 : Queue[i] = ItemOf(rx_buff, rx_desc, Place(cur_rx, rx.entry, i - 1))
  BY <1>3, QueueIsLine DEF Line
<1>7. Queue # <<>> /\ Head(Queue) = Queue[1]
  BY <1>1, <1>3, EmptySeq
<1>8. Queue[1] = [frame |-> rx_buff[rx.entry], good |-> rx_desc[rx.entry].status = "ok"]
  BY <1>1, <1>6 DEF ItemOf, Place
<1>9. Queue' = Tail(Queue)
  <2>1. /\ Tail(Queue) \in Seq(Items) /\ Len(Tail(Queue)) = Filled
        /\ \A i \in 1 .. Filled : Tail(Queue)[i] = Queue[i + 1]
    BY <1>1, <1>3, <1>7, HeadTailProperties
  <2>2. \A i \in 1 .. Filled : i + 1 \in 1 .. Filled + 1 /\ (i + 1) - 1 = i
    BY <1>1
  <2>3. \A i \in 1 .. Filled : Tail(Queue)[i] = Queue'[i]
    BY <1>5, <1>6, <2>1, <2>2
  <2> QED
    BY <1>5, <2>1, <2>3, SeqEqual
<1>10. db.frame = NoFrame /\ rx.ok = (rx_desc[rx.entry].status = "ok")
  BY <1>2 DEF RingInv, CheckHolds
<1>11. db'.frame = IF rx.ok THEN rx_buff[rx.entry] ELSE db.frame
  BY DEF ReceiveCopy, RingInv, RxIInv, TypeOK
<1> QED
  BY <1>7, <1>8, <1>9, <1>10, <1>11 DEF Q!Deliver, Q!PassOver, Q!Take

(* The entry given back is none of those in the queue.                     *)
LEMMA RecycleKeepsQueue ==
  ASSUME RingInv, RingInv', ReceiveRecycle
  PROVE  Queue' = Queue
<1>1. /\ N \in Nat /\ N > 1 /\ cur_rx \in Entries /\ Filled \in 0 .. N
      /\ rx.entry \in Entries /\ rx_desc \in Descs
  BY RingTypes
<1>2. /\ Copying = 0 /\ Copying' = 0 /\ InCall
      /\ rx_desc' = [rx_desc EXCEPT ![rx.entry] = [own |-> TRUE, status |-> "none"]]
      /\ rx_buff' = rx_buff /\ cur_rx' = cur_rx
  BY DEF ReceiveRecycle, Copying, InCall, Idle
<1>3. Filled' = Filled
  BY RecycleRing DEF RingInv
<1>4. Filled < N /\ rx.entry = Ahead(N - 1)
  BY <1>1, <1>2, RxAhead DEF RingInv, RxIInv, RingAgreement
<1>5. ASSUME NEW i \in 1 .. Filled
      PROVE  /\ Place(cur_rx, rx'.entry, i - 0) = Place(cur_rx, rx.entry, i - 0)
             /\ rx_desc'[Place(cur_rx, rx.entry, i - 0)] = rx_desc[Place(cur_rx, rx.entry, i - 0)]
  <2>1. i - 1 \in 0 .. N - 1 /\ i - 1 # N - 1 /\ i - 0 = i /\ i # 0
    BY <1>1, <1>4
  <2>2. Place(cur_rx, rx.entry, i - 0) = Ahead(i - 1) /\ Place(cur_rx, rx'.entry, i - 0) = Ahead(i - 1)
    BY <2>1 DEF Place, Ahead, At
  <2>3. Ahead(i - 1) \in Entries /\ Ahead(i - 1) # rx.entry
    BY <1>1, <1>4, <2>1, RxAhead DEF RingInv, RxIInv
  <2> QED
    BY <1>1, <1>2, <2>2, <2>3 DEF Descs
<1>6. Filled + 0 = Filled
  BY <1>1
<1> QED
  BY <1>2, <1>3, <1>5, <1>6, QueueIsLine DEF Line, ItemOf

(* The engine adds a frame at the end of the queue.                        *)
LEMMA StoreIsArrive ==
  ASSUME RingInv, RingInv', NEW f \in Frames, NEW status \in {"ok", "error"}, HwRxStore(f, status)
  PROVE  Q!Arrive(f, status = "ok")
<1>1. /\ N \in Nat /\ N > 1 /\ cur_rx \in Entries /\ Filled \in 0 .. N /\ Copying \in {0, 1}
      /\ rx.entry \in Entries /\ rx_buff \in Buffs /\ rx_desc \in Descs
      /\ Queue \in Seq(Items) /\ Len(Queue) = Filled + Copying
  BY RingTypes
<1>2. /\ Filled < N /\ hwRx = Ahead(Filled) /\ Filled' = Filled + 1
      /\ (InCall => hwRx # rx.entry)
  BY StoreRing DEF RingInv
<1>3. hwRxBusy = hwRx /\ hwRx \in Entries
  BY DEF HwRxStore, RingInv, RingAgreement, RxIInv, TypeOK
<1>4. /\ rx_desc' = [rx_desc EXCEPT ![hwRx] = [own |-> FALSE, status |-> status]]
      /\ rx_buff' = [rx_buff EXCEPT ![hwRx] = f]
      /\ cur_rx' = cur_rx /\ rx' = rx /\ db' = db /\ Copying' = Copying
  BY <1>3 DEF HwRxStore, Copying
<1>5. Len(Queue) < N
  <2>1. CASE Copying = 0
    BY <1>1, <1>2, <2>1
  <2>2. CASE Copying = 1
    <3>1. InCall'
      BY <1>4, <2>2 DEF Copying, InCall
    <3>2. Filled' < N
      BY <3>1 DEF RingInv, RingAgreement
    <3> QED
      BY <1>1, <1>2, <2>2, <3>2
  <2> QED
    BY <1>1, <2>1, <2>2
<1> DEFINE x == [frame |-> f, good |-> (status = "ok")]
           n == Filled + Copying
<1>6. /\ rx_buff' \in Buffs /\ rx_desc' \in Descs /\ Filled' \in 0 .. N
      /\ x \in Items /\ n \in Nat /\ Filled' + Copying = n + 1
  <2>1. rx_buff' \in Buffs
    BY <1>1, <1>4 DEF Buffs
  <2>2. rx_desc' \in Descs
    BY <1>1, <1>4 DEF Descs, Statuses
  <2>3. Filled' \in 0 .. N /\ n \in Nat /\ Filled' + Copying = n + 1
    BY <1>1, <1>2
  <2>4. x \in Items
    BY DEF Items
  <2> QED
    BY <2>1, <2>2, <2>3, <2>4
<1>7. Queue' = Line(cur_rx, Filled', Copying, rx.entry, rx_buff', rx_desc')
  BY <1>4, QueueIsLine
<1>8. Queue' \in Seq(Items) /\ Len(Queue') = n + 1
  <2>1. /\ Line(cur_rx, Filled', Copying, rx.entry, rx_buff', rx_desc') \in Seq(Items)
        /\ Len(Line(cur_rx, Filled', Copying, rx.entry, rx_buff', rx_desc')) = Filled' + Copying
    <3> HIDE DEF x, n
    <3>1. /\ cur_rx \in Entries /\ Filled' \in 0 .. N /\ Copying \in {0, 1}
          /\ rx.entry \in Entries /\ rx_buff' \in Buffs /\ rx_desc' \in Descs
      BY <1>1, <1>6
    <3> QED
      BY <3>1, LineIsSeq
  <2> QED
    BY <1>6, <1>7, <2>1
<1>9. \A i \in 1 .. n + 1 :
        Queue'[i] = ItemOf(rx_buff', rx_desc', Place(cur_rx, rx.entry, i - Copying))
  BY <1>6, <1>7 DEF Line
<1>10. \A i \in 1 .. n :
         Queue[i] = ItemOf(rx_buff, rx_desc, Place(cur_rx, rx.entry, i - Copying))
  BY QueueIsLine DEF Line
<1>11. /\ Append(Queue, x) \in Seq(Items) /\ Len(Append(Queue, x)) = n + 1
       /\ \A i \in 1 .. n : Append(Queue, x)[i] = Queue[i]
       /\ Append(Queue, x)[n + 1] = x
  <2> HIDE DEF x
  <2> QED
    BY <1>1, <1>6, AppendProperties
<1>12. ASSUME NEW i \in 1 .. n
       PROVE  Queue'[i] = Append(Queue, x)[i]
  <2>1. i \in 1 .. n + 1
    BY <1>6
  <2>2. Place(cur_rx, rx.entry, i - Copying) \in Entries
    BY <1>1, LineIsSeq
  <2>3. Place(cur_rx, rx.entry, i - Copying) # hwRx
    <3>1. CASE i - Copying = 0
      <4>1. InCall
        BY <1>1, <3>1 DEF Copying, InCall
      <4> QED
        BY <1>2, <3>1, <4>1 DEF Place
    <3>2. CASE i - Copying # 0
      <4>1. i - Copying - 1 \in 0 .. N - 1 /\ i - Copying - 1 # Filled /\ Filled \in 0 .. N - 1
        BY <1>1, <1>2, <3>2
      <4>2. Place(cur_rx, rx.entry, i - Copying) = Ahead(i - Copying - 1)
        BY <3>2 DEF Place, Ahead, At
      <4> QED
        BY <1>2, <4>1, <4>2, RxAhead DEF RingInv, RxIInv
    <3> QED
      BY <3>1, <3>2
  <2>4. Queue'[i] = Queue[i]
    BY <1>1, <1>4, <1>9, <1>10, <2>1, <2>2, <2>3 DEF ItemOf, Buffs, Descs
  <2> QED
    BY <1>11, <2>4
<1>13. Queue'[n + 1] = x
  <2>1. n + 1 \in 1 .. n + 1 /\ Filled + 1 # 0 /\ Filled + 1 - 1 = Filled
    BY <1>1, <1>6
  <2>2. Place(cur_rx, rx.entry, Filled + 1) = hwRx
    <3>1. Place(cur_rx, rx.entry, Filled + 1) = At(cur_rx, Filled)
      BY <1>1, <2>1 DEF Place
    <3>2. Ahead(Filled) = At(cur_rx, Filled)
      BY DEF Ahead, At
    <3> QED
      BY <1>2, <2>1, <3>1, <3>2
  <2>3. rx_buff'[hwRx] = f /\ rx_desc'[hwRx].status = status
    BY <1>1, <1>3, <1>4 DEF Buffs, Descs
  <2>4. Queue'[n + 1] = ItemOf(rx_buff', rx_desc', hwRx)
    <3>1. PICK i \in 1 .. n + 1 : i = n + 1
      BY <2>1
    <3>2. Queue'[i] = ItemOf(rx_buff', rx_desc', Place(cur_rx, rx.entry, i - Copying))
      BY <1>9
    <3>3. i - Copying = Filled + 1
      BY <1>1, <3>1
    <3> QED
      BY <2>2, <3>1, <3>2, <3>3
  <2> QED
    BY <2>3, <2>4 DEF ItemOf
<1>14. \A i \in 1 .. n + 1 : i = n + 1 \/ i \in 1 .. n
  BY <1>6
<1>15. Queue' = Append(Queue, x)
  <2> HIDE DEF x, n
  <2>1. \A i \in 1 .. n + 1 : Queue'[i] = Append(Queue, x)[i]
    BY <1>11, <1>12, <1>13, <1>14
  <2> QED
    BY <1>8, <1>11, <2>1, SeqEqual
<1> QED
  BY <1>4, <1>5, <1>15 DEF Q!Arrive

(* The receive ring implements the queue of RxQueue, for every ring size   *)
(* and every set of frames: of the frames the engine has stored, calls of  *)
(* IntelgbeReceive take each once, in the order of their arrival, deliver  *)
(* the good ones and pass over those with errors.                          *)
THEOREM ImplementsRxQueueHolds == RxSpec => ImplementsRxQueue
<1>1. RxInit => RingInv /\ Q!Init
  <2> SUFFICES ASSUME RxInit PROVE RingInv /\ Q!Init
    OBVIOUS
  <2>1. RingInv
    BY RingInit
  <2>2. Filled = 0 /\ Copying = 0
    BY RxEntries DEF RxInit, Filled, Copying, Idle
  <2>3. Queue = <<>>
    BY <2>1, <2>2, RingTypes, EmptySeq
  <2> QED
    BY <2>1, <2>3 DEF Q!Init, RxInit, NoData
<1>2. RingInv /\ [RxNext]_rvars => RingInv' /\ [Q!Next]_(Q!qvars)
  <2> SUFFICES ASSUME RingInv, [RxNext]_rvars PROVE RingInv' /\ [Q!Next]_(Q!qvars)
    OBVIOUS
  <2>1. RingInv'
    BY RingStep
  <2>2. CASE ReceiveNoData
    <3>1. UNCHANGED <<cur_rx, rx_desc, rx_buff, hwRx, rx>> /\ db'.frame = NoFrame
      BY <2>2 DEF ReceiveNoData, hwVars, RingInv, RxIInv, TypeOK, NoData
    <3>2. Queue' = Queue
      BY <3>1 DEF Queue, Copying, Filled, Held, Ahead, Item
    <3> QED
      BY <2>1, <3>1, <3>2 DEF Q!Next, Q!Done
  <2>3. CASE \E BufferLen \in BufferLens : ReceiveCheck(BufferLen)
    BY <2>1, <2>3, CheckIsDone DEF Q!Next
  <2>4. CASE ReceiveCopy
    BY <2>1, <2>4, CopyIsTake DEF Q!Next
  <2>5. CASE ReceiveRecycle
    <3>1. db'.frame = db.frame
      BY <2>5 DEF ReceiveRecycle, RingInv, RxIInv, TypeOK
    <3> QED
      BY <2>1, <2>5, <3>1, RecycleKeepsQueue DEF Q!qvars
  <2>6. ASSUME NEW f \in Frames, NEW status \in {"ok", "error"}, HwRxStore(f, status)
        PROVE  Q!Next
    <3>1. Q!Arrive(f, status = "ok") /\ (status = "ok") \in BOOLEAN
      BY <2>1, <2>6, StoreIsArrive
    <3> QED
      BY <3>1 DEF Q!Next
  <2>7. CASE HwRxFetch \/ UNCHANGED rvars
    <3>1. UNCHANGED <<cur_rx, rx_desc, rx_buff, hwRx, rx, db>>
      BY <2>7 DEF HwRxFetch, rvars, hwVars, tailVars
    <3>2. UNCHANGED Q!qvars
      BY <3>1 DEF Q!qvars, Queue, Copying, Filled, Held, Ahead, Item
    <3> QED
      BY <2>1, <3>2
  <2> QED
    BY <2>1, <2>2, <2>3, <2>4, <2>5, <2>6, <2>7 DEF RxNext, Receive, HwRx
<1> QED
  BY <1>1, <1>2, PTL DEF RxSpec, ImplementsRxQueue, Q!Spec
=============================================================================
