--------------------------- MODULE TxRing_proofs ----------------------------
(***************************************************************************)
(* The invariants of TxRing, for every ring size, every set of buffers,    *)
(* any number of fragments and with or without mapping failures.           *)
(***************************************************************************)
EXTENDS TxRing, SequenceTheorems, TLAPS

(* Advancing an entry by one keeps it an entry and, unless it is the last  *)
(* one before dirty_tx, moves it one further from dirty_tx.                *)
LEMMA OffsetOfNext ==
  ASSUME NEW e \in Entries, dirty_tx \in Entries
  PROVE  /\ NextEntry(e) \in Entries
         /\ Offset(e) \in Entries
         /\ Offset(e) < N - 1 => Offset(NextEntry(e)) = Offset(e) + 1
BY RingAssumption DEF NextEntry, Offset, Entries, N

(* Two entries at the same distance from dirty_tx are the same entry.      *)
LEMMA OffsetInjective ==
  ASSUME NEW e \in Entries, NEW f \in Entries, dirty_tx \in Entries,
         Offset(e) = Offset(f)
  PROVE  e = f
BY RingAssumption DEF Offset, Entries, N

(* With Avail >= k the window can grow by k entries.                       *)
LEMMA AvailIsRoom ==
  ASSUME cur_tx \in Entries, dirty_tx \in Entries
  PROVE  Avail = N - 1 - Outstanding
BY RingAssumption DEF Avail, Outstanding, Offset, Entries, N

(* The record of a call that is not in progress, or that has only the tail *)
(* pointer left to write.                                                  *)
LEMMA IdleIsCall == Idle \in Call /\ [Idle EXCEPT !.step = "tail"] \in Call
<1>1. 0 \in Entries
  BY RingAssumption DEF Entries, N
<1>2. Idle \in Call
  BY <1>1 DEF Idle, Call
<1> QED
  BY <1>2 DEF Call

LEMMA InitIInv == Init => IInv
<1> SUFFICES ASSUME Init PROVE IInv
  OBVIOUS
<1> USE RingAssumption, TxConstantsAssumption
<1>1. TypeOK
  <2>1. 0 \in Entries
    BY DEF Entries, N
  <2>2. ZeroDesc \in Desc /\ ZeroMapping \in Mapping
    BY DEF ZeroDesc, ZeroMapping, Desc, Mapping
  <2> QED
    BY <2>1, <2>2, IdleIsCall DEF Init, TypeOK
<1>2. RingShape
  BY DEF Init, RingShape, HwInWindow, OwnIffPending, ClearOutside, Filling, Idle,
         InWindow, Offset, Outstanding, ZeroDesc, ZeroMapping, Entries, N
<1>3. Ownership
  BY DEF Init, Ownership, NotReturned, OneEntryPerBuffer, ZeroDesc, ZeroMapping
<1>4. FrameHeldBack /\ FragsHeld
  BY DEF Init, FrameHeldBack, FragsHeld, Filling, Idle
<1> QED
  BY <1>1, <1>2, <1>3, <1>4 DEF IInv


-----------------------------------------------------------------------------
(* One lemma per action: it preserves the inductive invariant.             *)

LEMMA TransmitLinearIInv ==
  ASSUME IInv, NEW b \in Buffers, TransmitLinear(b)
  PROVE  IInv'
<1> USE RingAssumption, TxConstantsAssumption
<1>t. TypeOK
  BY DEF IInv
<1>a. cur_tx \in Entries /\ dirty_tx \in Entries /\ hwCur \in Entries
  BY <1>t DEF TypeOK
<1>b. Outstanding < N - 1
  BY <1>a, AvailIsRoom, OffsetOfNext DEF TransmitLinear, Outstanding, Entries, N
<1>c. /\ cur_tx' \in Entries
      /\ Outstanding' = Outstanding + 1
      /\ \A e \in Entries : Offset(e)' = Offset(e)
      /\ Offset(hwCur)' = Offset(hwCur)
  BY <1>a, <1>b, OffsetOfNext DEF TransmitLinear, Outstanding, Offset, hwVars
<1>d. /\ \A e \in Entries : InWindow(e)' <=> InWindow(e) \/ e = cur_tx
      /\ ~InWindow(cur_tx)
  BY <1>a, <1>c, OffsetOfNext, OffsetInjective DEF InWindow, Outstanding, Entries
<1>e. PICK ok \in BOOLEAN :
       /\ TxBufferMappings' = [TxBufferMappings EXCEPT ![cur_tx] =
                                 [UnmappedAddress |-> b, mapped |-> ok]]
       /\ liveMaps' = IF ok THEN liveMaps \cup {b} ELSE liveMaps
       /\ tx_desc' = [tx_desc EXCEPT ![cur_tx] =
                        [own |-> TRUE, fd |-> TRUE, ld |-> TRUE,
                         addr |-> IF ok THEN b ELSE NoBuf]]
  BY DEF TransmitLinear
<1>f. b \in callerOwns /\ callerOwns' = callerOwns \ {b} /\ ~Filling /\ ~Filling'
  BY DEF TransmitLinear, Filling, Idle
<1>1. TypeOK'
  <2>1. tx_desc' \in [Entries -> Desc]
    BY <1>t, <1>e DEF TypeOK, Desc
  <2>2. TxBufferMappings' \in [Entries -> Mapping]
    BY <1>t, <1>e DEF TypeOK, Mapping
  <2>3. tx' \in Call
    BY IdleIsCall DEF TransmitLinear
  <2> QED
    BY <1>t, <1>c, <1>e, <2>1, <2>2, <2>3 DEF TypeOK, TransmitLinear, hwVars
<1>2. RingShape'
  <2>1. HwInWindow'
    <3>1. Offset(hwCur)' <= Outstanding'
      BY <1>a, <1>c, OffsetOfNext DEF IInv, RingShape, HwInWindow, Outstanding, Entries
    <3>2. UNCHANGED <<hwCur, hwBusy, hwBuf>>
      BY DEF TransmitLinear, hwVars
    <3>3. tx_desc[hwCur].own => tx_desc'[hwCur] = tx_desc[hwCur]
      BY <1>t, <1>a, <1>d, <1>e DEF IInv, RingShape, OwnIffPending, TypeOK
    <3> QED
      BY <3>1, <3>2, <3>3 DEF IInv, RingShape, HwInWindow
  <2>2. OwnIffPending'
    BY <1>t, <1>a, <1>c, <1>d, <1>e, <1>f
    DEF IInv, RingShape, HwInWindow, OwnIffPending, TypeOK, Desc, Outstanding
  <2>3. ClearOutside'
    BY <1>t, <1>a, <1>d, <1>e DEF IInv, RingShape, ClearOutside, TypeOK, Desc, Mapping
  <2> QED
    BY <2>1, <2>2, <2>3 DEF RingShape
<1>3. Ownership'
  BY <1>t, <1>a, <1>e, <1>f
  DEF IInv, Ownership, NotReturned, OneEntryPerBuffer, TypeOK, Desc, Mapping
<1>4. FrameHeldBack' /\ FragsHeld'
  BY <1>f DEF FrameHeldBack, FragsHeld
<1> QED
  BY <1>1, <1>2, <1>3, <1>4 DEF IInv

LEMMA TransmitFragmentedIInv ==
  ASSUME IInv, NEW f \in FragLists, TransmitFragmented(f)
  PROVE  IInv'
<1> USE RingAssumption, TxConstantsAssumption
<1>t. TypeOK
  BY DEF IInv
<1>a. cur_tx \in Entries /\ dirty_tx \in Entries /\ hwCur \in Entries
  BY <1>t DEF TypeOK
<1>b. f \in Seq(Buffers) /\ Len(f) >= 1 /\ Len(f) \in Nat /\ DOMAIN f = 1 .. Len(f)
  <2>1. PICK n \in 1 .. MaxFrags : f \in [1..n -> Buffers]
    BY DEF FragLists
  <2>2. f \in Seq(Buffers) /\ Len(f) = n
    BY <2>1
  <2> QED
    BY <2>1, <2>2
<1>c. Outstanding + Len(f) <= N - 1 /\ Outstanding < N - 1
  <2>1. Outstanding \in Int /\ Len(f) \in Int /\ Len(f) >= 1
    BY <1>a, <1>b, OffsetOfNext DEF Outstanding, Entries
  <2>2. N - 1 - Outstanding >= Len(f)
    BY <1>a, AvailIsRoom DEF TransmitFragmented
  <2> QED
    BY <2>1, <2>2 DEF N
<1>d. /\ cur_tx' \in Entries
      /\ Outstanding' = Outstanding + 1
      /\ \A e \in Entries : Offset(e)' = Offset(e)
      /\ Offset(hwCur)' = Offset(hwCur)
  BY <1>a, <1>c, OffsetOfNext DEF TransmitFragmented, Outstanding, Offset, hwVars
<1>e. /\ \A e \in Entries : InWindow(e)' <=> InWindow(e) \/ e = cur_tx
      /\ ~InWindow(cur_tx)
  BY <1>a, <1>d, OffsetOfNext, OffsetInjective DEF InWindow, Outstanding, Entries
<1>f. /\ tx' = [step |-> IF Len(f) > 1 THEN "frag" ELSE "first",
                first |-> cur_tx, frags |-> f, i |-> 2]
      /\ callerOwns' \subseteq callerOwns
      /\ \A i \in DOMAIN f : f[i] \in callerOwns /\ f[i] \notin callerOwns'
      /\ UNCHANGED <<dirty_tx, tx_desc, TxBufferMappings, liveMaps,
                     tx_tail_addr, hwCur, hwBusy, hwBuf>>
      /\ ~Filling
  BY DEF TransmitFragmented, hwVars, Filling
<1>g. /\ Filling' /\ tx'.first = cur_tx /\ tx'.frags = f /\ tx'.i = 2
      /\ Offset(tx.first)' = Offset(cur_tx)
  BY <1>f DEF Filling, Offset
<1>1. TypeOK'
  <2>1. tx' \in Call
    BY <1>a, <1>b, <1>f DEF Call
  <2>2. callerOwns' \in SUBSET Buffers /\ onWire' \in SUBSET Buffers
    BY <1>t DEF TransmitFragmented, TypeOK
  <2> QED
    BY <1>t, <1>d, <1>f, <2>1, <2>2 DEF TypeOK
<1>2. RingShape'
  <2>1. HwInWindow'
    BY <1>a, <1>d, <1>f, OffsetOfNext
    DEF IInv, RingShape, HwInWindow, Outstanding, Entries
  <2>2. OwnIffPending'
    BY <1>a, <1>d, <1>e, <1>f, <1>g DEF IInv, RingShape, OwnIffPending
  <2>3. ClearOutside'
    BY <1>a, <1>e, <1>f DEF IInv, RingShape, ClearOutside
  <2> QED
    BY <2>1, <2>2, <2>3 DEF RingShape
<1>3. Ownership'
  BY <1>f DEF IInv, Ownership, NotReturned, OneEntryPerBuffer
<1>4. FrameHeldBack'
  <2>1. InWindow(tx.first)'
    BY <1>a, <1>d, <1>g, OffsetOfNext DEF InWindow, Outstanding, Entries
  <2>2. (Offset(hwCur) <= Offset(tx.first))'
    BY <1>d, <1>g DEF IInv, RingShape, HwInWindow, Outstanding
  <2>3. (tx.step = "frag" => Outstanding + (Len(tx.frags) - tx.i + 1) < N)'
    <3>1. Outstanding \in Int
      BY <1>a, OffsetOfNext DEF Outstanding, Entries
    <3>2. Outstanding + 1 + (Len(f) - 2 + 1) < N
      BY <1>b, <1>c, <3>1 DEF N
    <3> QED
      BY <1>d, <1>g, <3>2
  <2> QED
    BY <2>1, <2>2, <2>3 DEF FrameHeldBack
<1>5. FragsHeld'
  <2>1. \A j \in DOMAIN f : \A e \in Entries : TxBufferMappings[e].UnmappedAddress # f[j]
    BY <1>f DEF IInv, Ownership, NotReturned
  <2> QED
    BY <1>b, <1>f, <1>g, <2>1 DEF FragsHeld
<1> QED
  BY <1>1, <1>2, <1>3, <1>4, <1>5 DEF IInv

LEMMA FillFragmentIInv ==
  ASSUME IInv, FillFragment
  PROVE  IInv'
<1> USE RingAssumption, TxConstantsAssumption
<1> DEFINE b == tx.frags[tx.i]
<1>t. TypeOK
  BY DEF IInv
<1>a. cur_tx \in Entries /\ dirty_tx \in Entries /\ hwCur \in Entries /\ tx.first \in Entries
  BY <1>t DEF TypeOK, Call
<1>b. /\ Filling /\ tx.frags \in Seq(Buffers) /\ tx.i \in DOMAIN tx.frags /\ tx.i \in Nat
      /\ Len(tx.frags) \in Nat /\ b \in Buffers
  <2>1. Filling /\ tx.frags \in Seq(Buffers) /\ tx.i \in Nat
    BY <1>t DEF FillFragment, Filling, TypeOK, Call
  <2>2. tx.i \in 1 .. Len(tx.frags)
    BY <2>1 DEF IInv, FragsHeld, FillFragment
  <2> QED
    BY <2>1, <2>2
<1>c. Outstanding + (Len(tx.frags) - tx.i + 1) < N /\ Outstanding < N - 1
  <2>1. Outstanding + (Len(tx.frags) - tx.i + 1) < N
    BY <1>b DEF IInv, FrameHeldBack, FillFragment
  <2>2. Outstanding \in Int
    BY <1>a, OffsetOfNext DEF Outstanding, Entries
  <2>3. tx.i <= Len(tx.frags)
    BY <1>b DEF IInv, FragsHeld, FillFragment
  <2> QED
    BY <1>b, <2>1, <2>2, <2>3 DEF N
<1>d. /\ cur_tx' \in Entries
      /\ Outstanding' = Outstanding + 1
      /\ \A e \in Entries : Offset(e)' = Offset(e)
      /\ Offset(hwCur)' = Offset(hwCur)
  BY <1>a, <1>c, OffsetOfNext DEF FillFragment, Outstanding, Offset, hwVars
<1>e. /\ \A e \in Entries : InWindow(e)' <=> InWindow(e) \/ e = cur_tx
      /\ ~InWindow(cur_tx)
  BY <1>a, <1>d, OffsetOfNext, OffsetInjective DEF InWindow, Outstanding, Entries
<1>f. /\ tx' \in Call /\ Filling' /\ tx'.first = tx.first /\ tx'.frags = tx.frags
      /\ tx'.i = tx.i + 1
      /\ tx'.step = "frag" => tx.i # Len(tx.frags)
  <2>1. tx \in Call /\ tx.step = "frag" /\ tx.i + 1 \in Nat
    BY <1>t, <1>b DEF TypeOK, FillFragment
  <2>2. tx' = [tx EXCEPT !.i = tx.i + 1,
                         !.step = IF tx.i = Len(tx.frags) THEN "first" ELSE "frag"]
    BY DEF FillFragment
  <2>3. /\ tx'.first = tx.first /\ tx'.frags = tx.frags /\ tx'.i = tx.i + 1
        /\ tx'.step = IF tx.i = Len(tx.frags) THEN "first" ELSE "frag"
    BY <2>1, <2>2 DEF Call
  <2>4. tx' \in Call
    BY <2>1, <2>2 DEF Call
  <2> QED
    BY <2>3, <2>4 DEF Filling
<1>g. /\ tx_desc' = [tx_desc EXCEPT ![cur_tx] = FragDesc(b)]
      /\ UNCHANGED <<dirty_tx, TxBufferMappings, liveMaps, tx_tail_addr, hwCur, hwBusy, hwBuf,
                     callerOwns, onWire>>
  BY DEF FillFragment, hwVars
<1>h. InWindow(tx.first) /\ tx.first # cur_tx
  BY <1>b, <1>e DEF IInv, FrameHeldBack
<1>1. TypeOK'
  <2>1. tx_desc' \in [Entries -> Desc]
    BY <1>t, <1>b, <1>g DEF TypeOK, Desc, FragDesc
  <2> QED
    BY <1>t, <1>d, <1>f, <1>g, <2>1 DEF TypeOK
<1>2. RingShape'
  <2>1. HwInWindow'
    <3>1. Offset(hwCur)' <= Outstanding'
      BY <1>a, <1>d, OffsetOfNext DEF IInv, RingShape, HwInWindow, Outstanding, Entries
    <3>2. tx_desc[hwCur].own => tx_desc'[hwCur] = tx_desc[hwCur]
      BY <1>t, <1>a, <1>e, <1>g DEF IInv, RingShape, OwnIffPending, TypeOK
    <3> QED
      BY <1>g, <3>1, <3>2 DEF IInv, RingShape, HwInWindow
  <2>2. OwnIffPending'
    BY <1>t, <1>a, <1>b, <1>d, <1>e, <1>f, <1>g, <1>h
    DEF IInv, RingShape, HwInWindow, OwnIffPending, TypeOK, Desc, FragDesc, Outstanding
  <2>3. ClearOutside'
    BY <1>t, <1>a, <1>e, <1>g DEF IInv, RingShape, ClearOutside, TypeOK, Desc
  <2> QED
    BY <2>1, <2>2, <2>3 DEF RingShape
<1>3. Ownership'
  <2>1. b \notin callerOwns /\ \A e \in Entries : TxBufferMappings[e].UnmappedAddress # b
    BY <1>b DEF IInv, FragsHeld
  <2>2. \A e \in Entries : tx_desc'[e].addr \in {tx_desc[e].addr, b}
    BY <1>t, <1>a, <1>g DEF TypeOK, Desc, FragDesc
  <2> QED
    BY <1>g, <2>1, <2>2 DEF IInv, Ownership, NotReturned, OneEntryPerBuffer
<1>4. FrameHeldBack'
  <2>1. Offset(tx.first)' = Offset(tx.first)
    BY <1>f, <1>g DEF Offset
  <2>2. InWindow(tx.first)'
    BY <1>a, <1>e, <1>f, <1>h, <2>1, <1>d, OffsetOfNext DEF InWindow, Outstanding, Entries
  <2>3. (Offset(hwCur) <= Offset(tx.first))'
    BY <1>b, <1>d, <2>1 DEF IInv, FrameHeldBack
  <2>4. (tx.step = "frag" => Outstanding + (Len(tx.frags) - tx.i + 1) < N)'
    <3>1. Outstanding \in Int
      BY <1>a, OffsetOfNext DEF Outstanding, Entries
    <3>2. Len(tx.frags) \in Int /\ tx.i \in Int
      BY <1>b
    <3>3. Outstanding + 1 + (Len(tx.frags) - (tx.i + 1) + 1) < N
      BY <1>c, <3>1, <3>2 DEF N
    <3> QED
      BY <1>d, <1>f, <3>3
  <2> QED
    BY <2>2, <2>3, <2>4 DEF FrameHeldBack
<1>5. FragsHeld'
  <2>1. Len(tx.frags) >= 1 /\ tx.i >= 2 /\ tx.i <= Len(tx.frags)
    BY <1>b DEF IInv, FragsHeld, FillFragment
  <2>2. tx'.i >= 2 /\ (tx'.step = "frag" => tx'.i <= Len(tx.frags))
    BY <1>b, <1>f, <2>1
  <2> QED
    BY <1>b, <1>f, <1>g, <2>1, <2>2 DEF IInv, FragsHeld
<1> QED
  BY <1>1, <1>2, <1>3, <1>4, <1>5 DEF IInv

LEMMA FillFirstIInv ==
  ASSUME IInv, FillFirst
  PROVE  IInv'
<1> USE RingAssumption, TxConstantsAssumption
<1> DEFINE b == tx.frags[1]
<1>t. TypeOK
  BY DEF IInv
<1>a. cur_tx \in Entries /\ dirty_tx \in Entries /\ hwCur \in Entries /\ tx.first \in Entries
  BY <1>t DEF TypeOK, Call
<1>b. Filling /\ ~Filling' /\ 1 \in DOMAIN tx.frags /\ b \in Buffers
  <2>1. Filling /\ ~Filling' /\ tx.frags \in Seq(Buffers)
    BY <1>t DEF FillFirst, Filling, Idle, TypeOK, Call
  <2>2. Len(tx.frags) >= 1
    BY <2>1 DEF IInv, FragsHeld
  <2> QED
    BY <2>1, <2>2
<1>g. /\ tx_desc' = [tx_desc EXCEPT ![tx.first] = FragDesc(b)]
      /\ UNCHANGED <<cur_tx, dirty_tx, TxBufferMappings, liveMaps, tx_tail_addr, hwCur, hwBusy, hwBuf,
                     callerOwns, onWire>>
  BY DEF FillFirst, hwVars
<1>d. /\ Outstanding' = Outstanding
      /\ \A e \in Entries : Offset(e)' = Offset(e) /\ (InWindow(e)' <=> InWindow(e))
      /\ Offset(hwCur)' = Offset(hwCur)
  BY <1>a, <1>g DEF Outstanding, Offset, InWindow
<1>h. InWindow(tx.first) /\ Offset(hwCur) <= Offset(tx.first)
  BY <1>b DEF IInv, FrameHeldBack
<1>1. TypeOK'
  <2>1. tx_desc' \in [Entries -> Desc]
    BY <1>t, <1>b, <1>g DEF TypeOK, Desc, FragDesc
  <2>2. tx' \in Call
    BY IdleIsCall DEF FillFirst
  <2> QED
    BY <1>t, <1>g, <2>1, <2>2 DEF TypeOK
<1>2. RingShape'
  <2>1. HwInWindow'
    <3>1. tx_desc[hwCur].own => tx_desc'[hwCur] = tx_desc[hwCur]
      BY <1>t, <1>a, <1>b, <1>g DEF IInv, RingShape, OwnIffPending, TypeOK
    <3> QED
      BY <1>d, <1>g, <3>1 DEF IInv, RingShape, HwInWindow
  <2>2. OwnIffPending'
    BY <1>t, <1>a, <1>b, <1>d, <1>g, <1>h
    DEF IInv, RingShape, OwnIffPending, TypeOK, Desc, FragDesc
  <2>3. ClearOutside'
    BY <1>t, <1>a, <1>d, <1>g, <1>h DEF IInv, RingShape, ClearOutside, TypeOK, Desc
  <2> QED
    BY <2>1, <2>2, <2>3 DEF RingShape
<1>3. Ownership'
  <2>1. b \notin callerOwns /\ \A e \in Entries : TxBufferMappings[e].UnmappedAddress # b
    BY <1>b DEF IInv, FragsHeld
  <2>2. \A e \in Entries : tx_desc'[e].addr \in {tx_desc[e].addr, b}
    BY <1>t, <1>a, <1>g DEF TypeOK, Desc, FragDesc
  <2> QED
    BY <1>g, <2>1, <2>2 DEF IInv, Ownership, NotReturned, OneEntryPerBuffer
<1>4. FrameHeldBack' /\ FragsHeld'
  BY <1>b DEF FrameHeldBack, FragsHeld
<1> QED
  BY <1>1, <1>2, <1>3, <1>4 DEF IInv

LEMMA WriteTailIInv ==
  ASSUME IInv, WriteTail
  PROVE  IInv'
<1> USE RingAssumption, TxConstantsAssumption
<1>g. UNCHANGED <<cur_tx, dirty_tx, tx_desc, TxBufferMappings, liveMaps, hwCur, hwBusy, hwBuf,
                  callerOwns, onWire>>
  BY DEF WriteTail
<1>f. ~Filling /\ ~Filling'
  BY DEF WriteTail, Filling, Idle
<1>1. TypeOK'
  BY <1>g, IdleIsCall DEF IInv, TypeOK, WriteTail
<1>2. RingShape'
  BY <1>f, <1>g DEF IInv, RingShape, HwInWindow, OwnIffPending, ClearOutside, InWindow,
                    Outstanding, Offset
<1>3. Ownership'
  BY <1>g DEF IInv, Ownership, NotReturned, OneEntryPerBuffer
<1>4. FrameHeldBack' /\ FragsHeld'
  BY <1>f DEF FrameHeldBack, FragsHeld
<1> QED
  BY <1>1, <1>2, <1>3, <1>4 DEF IInv

(* Advance and Offset are inverse to each other.                           *)
LEMMA AdvanceOffset ==
  ASSUME dirty_tx \in Entries, NEW k \in Entries
  PROVE  Advance(dirty_tx, k) \in Entries /\ Offset(Advance(dirty_tx, k)) = k
BY RingAssumption DEF Advance, Offset, Entries, N

(* Moving dirty_tx forward by count moves every entry that much nearer.    *)
LEMMA OffsetAfterReclaim ==
  ASSUME dirty_tx \in Entries, NEW count \in Entries, NEW e \in Entries,
         dirty_tx' = Advance(dirty_tx, count)
  PROVE  LET o == IF e >= dirty_tx' THEN e - dirty_tx' ELSE e - dirty_tx' + N
         IN o = IF Offset(e) >= count THEN Offset(e) - count ELSE Offset(e) - count + N
BY RingAssumption DEF Advance, Offset, Entries, N

(* What a call of IntelgbeFreeTxBuffers does to the window: it gives up    *)
(* the count entries nearest to dirty_tx, all of which the engine is past. *)
LEMMA FreeTxBuffersEffect ==
  ASSUME IInv, NEW NumEntries \in 1 .. N, FreeTxBuffers(NumEntries)
  PROVE
    \E count \in 1 .. N - 1 :
       LET freed == {e \in Entries : Offset(e) < count}
           bufs  == {TxBufferMappings[e].UnmappedAddress : e \in freed}
       IN /\ tx.step = "idle"
          /\ count <= Outstanding /\ count <= Offset(hwCur)
          /\ dirty_tx' \in Entries
          /\ \A e \in Entries : Offset(e)' = IF Offset(e) >= count THEN Offset(e) - count
                                             ELSE Offset(e) - count + N
          /\ Outstanding' = Outstanding - count
          /\ Offset(hwCur)' = Offset(hwCur) - count
          /\ \A e \in freed : /\ ~tx_desc[e].own
                              /\ TxBufferMappings[e].UnmappedAddress \in Buffers
          /\ dirty_tx' = Advance(dirty_tx, count)
          /\ TxBufferMappings' = [e \in Entries |->
               IF e \in freed THEN ZeroMapping ELSE TxBufferMappings[e]]
          /\ tx_desc' = [e \in Entries |->
               IF e \in freed THEN ZeroDesc ELSE tx_desc[e]]
          /\ liveMaps' = liveMaps \ bufs
          /\ callerOwns' = callerOwns \cup bufs
          /\ UNCHANGED <<cur_tx, tx, tx_tail_addr, hwCur, hwBusy, hwBuf, onWire>>
<1> USE RingAssumption, TxConstantsAssumption
<1>t. TypeOK
  BY DEF IInv
<1>a. cur_tx \in Entries /\ dirty_tx \in Entries /\ hwCur \in Entries
  BY <1>t DEF TypeOK
<1>b. PICK count \in 1 .. N - 1 :
        LET freed == {Advance(dirty_tx, k) : k \in 0 .. count - 1}
            bufs  == {TxBufferMappings[e].UnmappedAddress : e \in freed}
        IN /\ tx.step = "idle"
           /\ \A k \in 0 .. count - 1 : Reclaimable(k)
           /\ dirty_tx' = Advance(dirty_tx, count)
           /\ TxBufferMappings' = [e \in Entries |->
                IF e \in freed THEN ZeroMapping ELSE TxBufferMappings[e]]
           /\ tx_desc' = [e \in Entries |->
                IF e \in freed THEN ZeroDesc ELSE tx_desc[e]]
           /\ liveMaps' = liveMaps \ bufs
           /\ callerOwns' = callerOwns \cup bufs
           /\ UNCHANGED <<cur_tx, tx, tx_tail_addr, hwCur, hwBusy, hwBuf, onWire>>
  BY DEF FreeTxBuffers, hwVars
<1> DEFINE freed == {Advance(dirty_tx, k) : k \in 0 .. count - 1}
<1>c. count \in Entries /\ 0 .. count - 1 \subseteq Entries
  BY DEF Entries, N
<1>d. count <= Outstanding
  <2>1. count - 1 < Outstanding
    BY <1>b DEF Reclaimable
  <2>2. Outstanding \in Int
    BY <1>a, OffsetOfNext DEF Outstanding, Entries
  <2> QED
    BY <2>1, <2>2 DEF N
<1>e. \A e \in Entries : e \in freed <=> Offset(e) < count
  <2>1. ASSUME NEW e \in Entries, Offset(e) < count
        PROVE  e \in freed
    <3>1. Offset(e) \in 0 .. count - 1
      BY <1>a, <2>1, OffsetOfNext DEF Entries, N
    <3>2. e = Advance(dirty_tx, Offset(e))
      BY <1>a, OffsetOfNext, AdvanceOffset, OffsetInjective
    <3> QED
      BY <3>1, <3>2
  <2>2. ASSUME NEW k \in 0 .. count - 1
        PROVE  Offset(Advance(dirty_tx, k)) < count
    BY <1>a, <1>c, AdvanceOffset
  <2> QED
    BY <2>1, <2>2
<1>f. \A e \in freed : /\ e \in Entries
                       /\ ~tx_desc[e].own
                       /\ TxBufferMappings[e].UnmappedAddress \in Buffers
  <2>1. \A k \in 0 .. count - 1 : Advance(dirty_tx, k) \in Entries
    BY <1>a, <1>c, AdvanceOffset
  <2>2. \A e \in freed : /\ e \in Entries
                         /\ ~tx_desc[e].own
                         /\ TxBufferMappings[e].UnmappedAddress # NoBuf
    BY <1>b, <2>1 DEF Reclaimable
  <2> QED
    BY <1>t, <2>2 DEF TypeOK, Mapping
<1>g. ~Filling
  BY <1>b DEF Filling
<1>h. count <= Offset(hwCur)
  <2> SUFFICES ASSUME Offset(hwCur) < count PROVE FALSE
    BY <1>a, <1>c, OffsetOfNext DEF Entries
  <2>1. hwCur \in freed
    BY <1>a, <1>e
  <2>2. InWindow(hwCur)
    BY <1>a, <1>c, <1>d, OffsetOfNext DEF InWindow, Outstanding, Entries
  <2>3. tx_desc[hwCur].own
    BY <1>a, <1>g, <2>2, OffsetOfNext DEF IInv, RingShape, OwnIffPending, Entries
  <2> QED
    BY <1>f, <2>1, <2>3
<1>i. /\ dirty_tx' \in Entries
      /\ \A e \in Entries : Offset(e)' = IF Offset(e) >= count THEN Offset(e) - count
                                         ELSE Offset(e) - count + N
  <2>1. dirty_tx' \in Entries
    BY <1>a, <1>b, <1>c, AdvanceOffset
  <2>2. \A e \in Entries : Offset(e)' = IF e >= dirty_tx' THEN e - dirty_tx'
                                        ELSE e - dirty_tx' + N
    BY DEF Offset
  <2> QED
    BY <1>a, <1>b, <1>c, <2>1, <2>2, OffsetAfterReclaim
<1>j. /\ Outstanding' = Outstanding - count
      /\ Offset(hwCur)' = Offset(hwCur) - count
      /\ hwCur' = hwCur /\ hwBusy' = hwBusy /\ hwBuf' = hwBuf
  <2>1. cur_tx' = cur_tx /\ hwCur' = hwCur /\ hwBusy' = hwBusy /\ hwBuf' = hwBuf
    BY <1>b
  <2>2. Outstanding' = IF Outstanding >= count THEN Outstanding - count
                       ELSE Outstanding - count + N
    BY <1>a, <1>i, <2>1 DEF Outstanding, Offset
  <2>3. Offset(hwCur)' = IF Offset(hwCur) >= count THEN Offset(hwCur) - count
                         ELSE Offset(hwCur) - count + N
    BY <1>a, <1>i, <2>1 DEF Offset
  <2>4. Outstanding \in Int /\ Offset(hwCur) \in Int /\ count \in Int
    BY <1>a, <1>c, OffsetOfNext DEF Outstanding, Entries
  <2> QED
    BY <1>d, <1>h, <2>1, <2>2, <2>3, <2>4
<1>k. freed = {e \in Entries : Offset(e) < count}
  BY <1>e, <1>f
<1> HIDE DEF freed
<1>l. LET bufs == {TxBufferMappings[e].UnmappedAddress : e \in freed}
      IN /\ tx.step = "idle"
         /\ dirty_tx' = Advance(dirty_tx, count)
         /\ TxBufferMappings' = [e \in Entries |->
              IF e \in freed THEN ZeroMapping ELSE TxBufferMappings[e]]
         /\ tx_desc' = [e \in Entries |->
              IF e \in freed THEN ZeroDesc ELSE tx_desc[e]]
         /\ liveMaps' = liveMaps \ bufs
         /\ callerOwns' = callerOwns \cup bufs
         /\ UNCHANGED <<cur_tx, tx, tx_tail_addr, hwCur, hwBusy, hwBuf, onWire>>
  BY <1>b DEF freed
<1> QED
  BY <1>d, <1>f, <1>h, <1>i, <1>j, <1>k, <1>l

LEMMA FreeTxBuffersIInv ==
  ASSUME IInv, NEW NumEntries \in 1 .. N, FreeTxBuffers(NumEntries)
  PROVE  IInv'
<1> USE RingAssumption, TxConstantsAssumption
<1>t. TypeOK
  BY DEF IInv
<1>a. cur_tx \in Entries /\ dirty_tx \in Entries /\ hwCur \in Entries
  BY <1>t DEF TypeOK
<1>b. PICK count \in 1 .. N - 1 :
       LET freed == {e \in Entries : Offset(e) < count}
           bufs  == {TxBufferMappings[e].UnmappedAddress : e \in freed}
       IN /\ tx.step = "idle"
          /\ count <= Outstanding /\ count <= Offset(hwCur)
          /\ dirty_tx' \in Entries
          /\ \A e \in Entries : Offset(e)' = IF Offset(e) >= count THEN Offset(e) - count
                                             ELSE Offset(e) - count + N
          /\ Outstanding' = Outstanding - count
          /\ Offset(hwCur)' = Offset(hwCur) - count
          /\ \A e \in freed : /\ ~tx_desc[e].own
                              /\ TxBufferMappings[e].UnmappedAddress \in Buffers
          /\ dirty_tx' = Advance(dirty_tx, count)
          /\ TxBufferMappings' = [e \in Entries |->
               IF e \in freed THEN ZeroMapping ELSE TxBufferMappings[e]]
          /\ tx_desc' = [e \in Entries |->
               IF e \in freed THEN ZeroDesc ELSE tx_desc[e]]
          /\ liveMaps' = liveMaps \ bufs
          /\ callerOwns' = callerOwns \cup bufs
          /\ UNCHANGED <<cur_tx, tx, tx_tail_addr, hwCur, hwBusy, hwBuf, onWire>>
  BY FreeTxBuffersEffect
<1> DEFINE freed == {e \in Entries : Offset(e) < count}
           bufs  == {TxBufferMappings[e].UnmappedAddress : e \in freed}
<1>c. count \in Entries
  BY DEF Entries, N
<1>d. count <= Outstanding /\ count <= Offset(hwCur)
  BY <1>b
<1>e. \A e \in Entries : e \in freed <=> Offset(e) < count
  OBVIOUS
<1>f. \A e \in freed : /\ e \in Entries
                       /\ ~tx_desc[e].own
                       /\ TxBufferMappings[e].UnmappedAddress \in Buffers
  BY <1>b
<1>g. bufs \subseteq Buffers /\ ~Filling /\ ~Filling'
  BY <1>b, <1>f DEF Filling
<1>i. /\ dirty_tx' \in Entries
      /\ \A e \in Entries : Offset(e)' = IF Offset(e) >= count THEN Offset(e) - count
                                         ELSE Offset(e) - count + N
  BY <1>b
<1>j. /\ Outstanding' = Outstanding - count
      /\ Offset(hwCur)' = Offset(hwCur) - count
      /\ hwCur' = hwCur /\ hwBusy' = hwBusy /\ hwBuf' = hwBuf
  BY <1>b
<1>k. \A e \in Entries : InWindow(e)' <=> InWindow(e) /\ e \notin freed
  <2> SUFFICES ASSUME NEW e \in Entries
               PROVE  InWindow(e)' <=> InWindow(e) /\ ~(Offset(e) < count)
    BY <1>e
  <2>1. Offset(e) \in 0 .. N - 1 /\ Outstanding \in 0 .. N - 1 /\ count \in 1 .. N - 1
    BY <1>a, OffsetOfNext DEF Outstanding, Entries
  <2>2. InWindow(e)' <=> Offset(e)' < Outstanding'
    BY DEF InWindow
  <2>3. InWindow(e) <=> Offset(e) < Outstanding
    BY DEF InWindow
  <2> QED
    BY <1>d, <1>i, <1>j, <2>1, <2>2, <2>3 DEF N
<1>l. /\ \A e \in freed : tx_desc'[e] = ZeroDesc /\ TxBufferMappings'[e] = ZeroMapping
      /\ \A e \in Entries : e \notin freed =>
            tx_desc'[e] = tx_desc[e] /\ TxBufferMappings'[e] = TxBufferMappings[e]
      /\ callerOwns' = callerOwns \cup bufs
  BY <1>b, <1>f
<1>1. TypeOK'
  <2>1. ZeroDesc \in Desc /\ ZeroMapping \in Mapping
    BY DEF ZeroDesc, ZeroMapping, Desc, Mapping
  <2>2. tx_desc' \in [Entries -> Desc] /\ TxBufferMappings' \in [Entries -> Mapping]
    <3> HIDE DEF freed
    <3> QED
      BY <1>t, <1>b, <2>1 DEF TypeOK, freed
  <2>3. callerOwns' \in SUBSET Buffers /\ liveMaps' \in SUBSET Buffers
    BY <1>t, <1>b, <1>g DEF TypeOK
  <2>4. UNCHANGED <<cur_tx, tx, tx_tail_addr, hwCur, hwBusy, hwBuf, onWire>>
    BY <1>b
  <2> QED
    BY <1>t, <1>i, <2>2, <2>3, <2>4 DEF TypeOK
<1> HIDE DEF freed
<1>2. RingShape'
  <2>1. HwInWindow'
    <3>1. Offset(hwCur)' <= Outstanding'
      <4>1. Outstanding \in Int /\ Offset(hwCur) \in Int /\ count \in Int
        BY <1>a, <1>c, OffsetOfNext DEF Outstanding, Entries
      <4> QED
        BY <1>j, <4>1 DEF IInv, RingShape, HwInWindow
    <3>2. hwCur \notin freed
      BY <1>a, <1>c, <1>d, <1>e, OffsetOfNext DEF Entries
    <3> QED
      BY <1>a, <1>j, <1>l, <3>1, <3>2 DEF IInv, RingShape, HwInWindow
  <2>2. OwnIffPending'
    <3> SUFFICES ASSUME NEW e \in Entries
                 PROVE  tx_desc'[e].own <=> InWindow(e)' /\ Offset(hwCur)' <= Offset(e)'
      BY <1>g DEF OwnIffPending
    <3>0. tx_desc[e].own <=> InWindow(e) /\ Offset(hwCur) <= Offset(e)
      BY <1>g DEF IInv, RingShape, OwnIffPending
    <3>1. CASE e \in freed
      BY <1>k, <1>l, <3>1 DEF ZeroDesc
    <3>2. CASE e \notin freed
      <4>1. Offset(e)' = Offset(e) - count
        <5>1. ~(Offset(e) < count) /\ Offset(e) \in Int /\ count \in Int
          BY <1>a, <1>c, <1>e, <3>2, OffsetOfNext DEF Entries
        <5> QED
          BY <1>i, <5>1
      <4>2. Offset(hwCur)' <= Offset(e)' <=> Offset(hwCur) <= Offset(e)
        <5>1. Offset(hwCur) \in Int /\ Offset(e) \in Int /\ count \in Int
          BY <1>a, <1>c, OffsetOfNext DEF Entries
        <5> QED
          BY <1>j, <4>1, <5>1
      <4> QED
        BY <1>k, <1>l, <3>0, <3>2, <4>2
    <3> QED
      BY <3>1, <3>2
  <2>3. ClearOutside'
    BY <1>k, <1>l DEF IInv, RingShape, ClearOutside, ZeroDesc, ZeroMapping
  <2> QED
    BY <2>1, <2>2, <2>3 DEF RingShape
<1>3. Ownership'
  <2>1. NotReturned'
    <3> SUFFICES ASSUME NEW e \in Entries
                 PROVE  /\ tx_desc'[e].addr \notin callerOwns'
                        /\ TxBufferMappings'[e].UnmappedAddress \notin callerOwns'
      BY DEF NotReturned
    <3>1. CASE e \in freed
      BY <1>t, <1>g, <1>l, <3>1 DEF ZeroDesc, ZeroMapping, TypeOK
    <3>2. CASE e \notin freed
      <4>1. \A f \in freed : /\ TxBufferMappings[f].UnmappedAddress # tx_desc[e].addr
                             /\ TxBufferMappings[f].UnmappedAddress
                                  # TxBufferMappings[e].UnmappedAddress
        BY <1>f, <3>2 DEF IInv, Ownership, OneEntryPerBuffer
      <4>2. tx_desc[e].addr \notin bufs /\ TxBufferMappings[e].UnmappedAddress \notin bufs
        BY <4>1
      <4> QED
        BY <1>l, <3>2, <4>2 DEF IInv, Ownership, NotReturned
    <3> QED
      BY <3>1, <3>2
  <2>2. OneEntryPerBuffer'
    BY <1>l DEF IInv, Ownership, OneEntryPerBuffer, ZeroDesc, ZeroMapping
  <2> QED
    BY <2>1, <2>2 DEF Ownership
<1>4. FrameHeldBack' /\ FragsHeld'
  BY <1>g DEF FrameHeldBack, FragsHeld
<1> QED
  BY <1>1, <1>2, <1>3, <1>4 DEF IInv

LEMMA HwFetchIInv ==
  ASSUME IInv, HwFetch
  PROVE  IInv'
<1>g. UNCHANGED <<cur_tx, dirty_tx, tx_desc, TxBufferMappings, liveMaps, tx, tx_tail_addr,
                  hwCur, callerOwns, onWire>>
  BY DEF HwFetch, ringVars
<1>f. hwBusy' = hwCur /\ hwBuf' = tx_desc[hwCur].addr /\ tx_desc[hwCur].own
  BY DEF HwFetch
<1>1. TypeOK'
  <2>1. tx_desc[hwCur].addr \in Buffers \cup {NoBuf}
    BY DEF IInv, TypeOK, Desc
  <2> QED
    BY <1>f, <1>g, <2>1 DEF IInv, TypeOK
<1>2. RingShape'
  <2>1. HwInWindow'
    <3>1. hwCur # NoEntry
      BY TxConstantsAssumption, RingAssumption DEF IInv, TypeOK, Entries, N
    <3> QED
      BY <1>f, <1>g, <3>1 DEF IInv, RingShape, HwInWindow, Outstanding, Offset
  <2>2. OwnIffPending' /\ ClearOutside'
    BY <1>g DEF IInv, RingShape, OwnIffPending, ClearOutside, InWindow, Outstanding,
                Offset, Filling
  <2> QED
    BY <2>1, <2>2 DEF RingShape
<1>3. Ownership'
  BY <1>g DEF IInv, Ownership, NotReturned, OneEntryPerBuffer
<1>4. FrameHeldBack' /\ FragsHeld'
  BY <1>g DEF IInv, FrameHeldBack, FragsHeld, Filling, InWindow, Outstanding, Offset
<1> QED
  BY <1>1, <1>2, <1>3, <1>4 DEF IInv

LEMMA HwWriteBackIInv ==
  ASSUME IInv, HwWriteBack
  PROVE  IInv'
<1> USE RingAssumption, TxConstantsAssumption
<1>t. TypeOK
  BY DEF IInv
<1>a. cur_tx \in Entries /\ dirty_tx \in Entries /\ hwCur \in Entries /\ tx.first \in Entries
  BY <1>t DEF TypeOK, Call
<1>b. hwBusy = hwCur /\ tx_desc[hwCur].own
  BY DEF IInv, RingShape, HwInWindow, HwWriteBack
<1>c. InWindow(hwCur) /\ ~(Filling /\ hwCur = tx.first)
  BY <1>a, <1>b DEF IInv, RingShape, OwnIffPending
<1>g. /\ tx_desc' = [tx_desc EXCEPT ![hwCur].own = FALSE]
      /\ hwCur' = NextEntry(hwCur) /\ hwBusy' = NoEntry /\ hwBuf' = NoBuf
      /\ UNCHANGED <<cur_tx, dirty_tx, TxBufferMappings, liveMaps, tx, tx_tail_addr, callerOwns>>
  BY <1>b DEF HwWriteBack
<1>d. /\ Outstanding' = Outstanding
      /\ \A e \in Entries : Offset(e)' = Offset(e) /\ (InWindow(e)' <=> InWindow(e))
      /\ Offset(tx.first)' = Offset(tx.first)
      /\ InWindow(tx.first)' <=> InWindow(tx.first)
      /\ Filling' <=> Filling
  BY <1>a, <1>g DEF Outstanding, Offset, InWindow, Filling
<1>e. hwCur' \in Entries /\ Offset(hwCur)' = Offset(hwCur) + 1
  <2>1. Offset(hwCur) < N - 1
    BY <1>a, <1>c, OffsetOfNext DEF InWindow, Outstanding, Entries, N
  <2>2. Offset(hwCur)' = Offset(NextEntry(hwCur))
    BY <1>g DEF Offset
  <2> QED
    BY <1>a, <1>g, <2>1, <2>2, OffsetOfNext
<1>f. \A e \in Entries : /\ tx_desc'[e].own <=> tx_desc[e].own /\ e # hwCur
                         /\ tx_desc'[e].addr = tx_desc[e].addr
  BY <1>t, <1>a, <1>g DEF TypeOK, Desc
<1>h. \A e \in Entries : Offset(hwCur) + 1 <= Offset(e) <=> Offset(hwCur) <= Offset(e) /\ e # hwCur
  <2> SUFFICES ASSUME NEW e \in Entries
               PROVE  Offset(hwCur) + 1 <= Offset(e) <=> Offset(hwCur) <= Offset(e) /\ e # hwCur
    OBVIOUS
  <2>1. Offset(hwCur) \in Int /\ Offset(e) \in Int
    BY <1>a, OffsetOfNext DEF Entries
  <2>2. Offset(hwCur) = Offset(e) <=> e = hwCur
    BY <1>a, OffsetInjective
  <2> QED
    BY <2>1, <2>2
<1>1. TypeOK'
  <2>1. tx_desc' \in [Entries -> Desc]
    BY <1>t, <1>a, <1>g DEF TypeOK, Desc
  <2>2. onWire' \in SUBSET Buffers
    <3>1. tx_desc[hwCur].addr \in Buffers \cup {NoBuf}
      BY <1>t, <1>a DEF TypeOK, Desc
    <3> QED
      BY <1>t, <1>b, <3>1 DEF TypeOK, HwWriteBack
  <2> QED
    BY <1>t, <1>e, <1>g, <2>1, <2>2 DEF TypeOK
<1>2. RingShape'
  <2>1. HwInWindow'
    <3>1. Offset(hwCur) \in Int /\ Outstanding \in Int
      BY <1>a, OffsetOfNext DEF Outstanding, Entries
    <3> QED
      BY <1>c, <1>d, <1>e, <1>g, <3>1 DEF HwInWindow, InWindow
  <2>2. OwnIffPending'
    BY <1>d, <1>e, <1>f, <1>g, <1>h DEF IInv, RingShape, OwnIffPending
  <2>3. ClearOutside'
    BY <1>d, <1>f, <1>g DEF IInv, RingShape, ClearOutside
  <2> QED
    BY <2>1, <2>2, <2>3 DEF RingShape
<1>3. Ownership'
  BY <1>f, <1>g DEF IInv, Ownership, NotReturned, OneEntryPerBuffer
<1>4. FrameHeldBack'
  <2> SUFFICES ASSUME Filling
               PROVE  /\ InWindow(tx.first)
                      /\ Offset(hwCur) + 1 <= Offset(tx.first)
                      /\ tx.step = "frag" => Outstanding + (Len(tx.frags) - tx.i + 1) < N
    BY <1>d, <1>e, <1>g DEF FrameHeldBack
  <2> QED
    BY <1>a, <1>c, <1>h DEF IInv, FrameHeldBack
<1>5. FragsHeld'
  BY <1>d, <1>g DEF IInv, FragsHeld
<1> QED
  BY <1>1, <1>2, <1>3, <1>4, <1>5 DEF IInv

LEMMA NextIInv == IInv /\ [Next]_vars => IInv'
<1> SUFFICES ASSUME IInv, [Next]_vars PROVE IInv'
  OBVIOUS
<1>1. ASSUME NEW b \in Buffers, TransmitLinear(b) PROVE IInv'
  BY <1>1, TransmitLinearIInv
<1>2. ASSUME NEW f \in FragLists, TransmitFragmented(f) PROVE IInv'
  BY <1>2, TransmitFragmentedIInv
<1>3. CASE FillFragment
  BY <1>3, FillFragmentIInv
<1>4. CASE FillFirst
  BY <1>4, FillFirstIInv
<1>5. CASE WriteTail
  BY <1>5, WriteTailIInv
<1>6. ASSUME NEW NumEntries \in 1 .. N, FreeTxBuffers(NumEntries) PROVE IInv'
  BY <1>6, FreeTxBuffersIInv
<1>7. CASE HwFetch
  BY <1>7, HwFetchIInv
<1>8. CASE HwWriteBack
  BY <1>8, HwWriteBackIInv
<1>9. CASE UNCHANGED vars
  BY <1>9 DEF vars, ringVars, hwVars, IInv, TypeOK, RingShape, HwInWindow, OwnIffPending,
              ClearOutside, Ownership, NotReturned, OneEntryPerBuffer, FrameHeldBack,
              FragsHeld, Filling, InWindow, Outstanding, Offset
<1> QED
  BY <1>1, <1>2, <1>3, <1>4, <1>5, <1>6, <1>7, <1>8, <1>9
  DEF Next, Transmit, DriverStep, Free

-----------------------------------------------------------------------------
(* The inductive invariant holds in every reachable state.                 *)
THEOREM IInvariance == Spec => []IInv
BY InitIInv, NextIInv, PTL DEF Spec

(* Type correctness: indices stay within the ring of descriptors           *)
(* IntelgbeTransmit and IntelgbeFreeTxBuffers share with the engine.       *)
THEOREM TypeCorrect == Spec => []TypeOK
<1>1. IInv => TypeOK
  BY DEF IInv
<1> QED
  BY <1>1, IInvariance, PTL

(* The engine owns exactly the descriptors still to be sent, and lies      *)
(* between dirty_tx and cur_tx, for every ring size and interleaving.      *)
THEOREM RingShapeHolds == Spec => []RingShape
<1>1. IInv => RingShape
  BY DEF IInv
<1> QED
  BY <1>1, IInvariance, PTL

(* A buffer IntelgbeTransmit accepted is in one place of the ring and not  *)
(* in the caller's hands.                                                  *)
THEOREM OwnershipHolds == Spec => []Ownership
<1>1. IInv => Ownership
  BY DEF IInv
<1> QED
  BY <1>1, IInvariance, PTL

(* IntelgbeFreeTxBuffers never returns a buffer the engine is reading.     *)
THEOREM NoDmaOnCallerBufferHolds == Spec => []NoDmaOnCallerBuffer
<1>1. IInv => NoDmaOnCallerBuffer
  BY TxConstantsAssumption
  DEF IInv, TypeOK, Ownership, NotReturned, RingShape, HwInWindow, NoDmaOnCallerBuffer
<1> QED
  BY <1>1, IInvariance, PTL

(* The engine does not get at a fragmented frame before IntelgbeTransmit   *)
(* has filled all of its descriptors.                                      *)
THEOREM FrameHeldBackHolds == Spec => []FrameHeldBack
<1>1. IInv => FrameHeldBack
  BY DEF IInv
<1> QED
  BY <1>1, IInvariance, PTL

-----------------------------------------------------------------------------
(* Frames that are not fragmented: the ring is the queue of TxQueue.       *)

LinearInv == IInv /\ ~Filling

(* With no fragments the four steps left in a transmit call are two.       *)
LEMMA LinearStep ==
  ASSUME MaxFrags = 0, LinearInv, [Next]_vars
  PROVE  /\ LinearInv'
         /\ \/ \E b \in Buffers : TransmitLinear(b)
            \/ WriteTail
            \/ \E NumEntries \in 1 .. N : FreeTxBuffers(NumEntries)
            \/ HwFetch
            \/ HwWriteBack
            \/ UNCHANGED vars
<1>1. FragLists = {}
  BY DEF FragLists
<1>2. ~FillFragment /\ ~FillFirst
  BY DEF LinearInv, Filling, FillFragment, FillFirst
<1>3. \/ \E b \in Buffers : TransmitLinear(b)
      \/ WriteTail
      \/ \E NumEntries \in 1 .. N : FreeTxBuffers(NumEntries)
      \/ HwFetch
      \/ HwWriteBack
      \/ UNCHANGED vars
  BY <1>1, <1>2 DEF Next, Transmit, DriverStep, Free
<1>4. ~Filling'
  <2>1. ASSUME NEW b \in Buffers, TransmitLinear(b) PROVE ~Filling'
    BY <2>1 DEF TransmitLinear, Filling, Idle
  <2>2. CASE WriteTail
    BY <2>2 DEF WriteTail, Filling, Idle
  <2>3. ASSUME NEW NumEntries \in 1 .. N, FreeTxBuffers(NumEntries) PROVE ~Filling'
    <3>1. tx' = tx
      BY <2>3 DEF FreeTxBuffers
    <3> QED
      BY <3>1 DEF LinearInv, Filling
  <2>4. CASE HwFetch \/ HwWriteBack \/ UNCHANGED vars
    <3>1. tx' = tx
      BY <2>4 DEF HwFetch, HwWriteBack, vars, ringVars
    <3> QED
      BY <3>1 DEF LinearInv, Filling
  <2> QED
    BY <1>3, <2>1, <2>2, <2>3, <2>4
<1> QED
  BY <1>3, <1>4, NextIInv DEF LinearInv

(* The queue is a sequence as long as the window.                          *)
LEMMA QueueLength ==
  ASSUME TypeOK
  PROVE  /\ Outstanding \in 0 .. N - 1
         /\ Queue \in Seq(Buffers \cup {NoBuf})
         /\ Len(Queue) = Outstanding
         /\ DOMAIN Queue = 1 .. Outstanding
         /\ \A i \in 1 .. Outstanding : /\ Advance(dirty_tx, i - 1) \in Entries
                                        /\ Queue[i] = TxBufferMappings[Advance(dirty_tx, i - 1)].UnmappedAddress
<1>1. Outstanding \in 0 .. N - 1
  BY OffsetOfNext DEF TypeOK, Outstanding, Entries
<1>2. \A i \in 1 .. Outstanding : Advance(dirty_tx, i - 1) \in Entries
  <2> SUFFICES ASSUME NEW i \in 1 .. Outstanding PROVE Advance(dirty_tx, i - 1) \in Entries
    OBVIOUS
  <2>1. i - 1 \in Entries
    BY <1>1, RingAssumption DEF Entries, N
  <2> QED
    BY <2>1, AdvanceOffset DEF TypeOK
<1>3. \A i \in 1 .. Outstanding :
         TxBufferMappings[Advance(dirty_tx, i - 1)].UnmappedAddress \in Buffers \cup {NoBuf}
  BY <1>2 DEF TypeOK, Mapping
<1>4. Queue \in [1 .. Outstanding -> Buffers \cup {NoBuf}]
  BY <1>3 DEF Queue
<1>5. Outstanding \in Nat
  BY <1>1, RingAssumption DEF N
<1>6. Queue \in Seq(Buffers \cup {NoBuf}) /\ Len(Queue) = Outstanding
  BY <1>4, <1>5
<1> QED
  BY <1>1, <1>2, <1>4, <1>6 DEF Queue

(* A frame accepted is a buffer accepted by the queue.                     *)
LEMMA TransmitIsAccept ==
  ASSUME IInv, IInv', NEW b \in Buffers, TransmitLinear(b)
  PROVE  Q!Accept(b)
<1>t. TypeOK /\ TypeOK'
  BY DEF IInv
<1>a. cur_tx \in Entries /\ dirty_tx \in Entries /\ hwCur \in Entries
  BY <1>t DEF TypeOK
<1>b. Outstanding \in 0 .. N - 1 /\ Outstanding < N - 1
  BY <1>a, AvailIsRoom, OffsetOfNext, RingAssumption DEF TransmitLinear, Outstanding, Entries, N
<1>c. /\ Outstanding' = Outstanding + 1
      /\ dirty_tx' = dirty_tx
      /\ Offset(hwCur)' = Offset(hwCur)
  BY <1>a, <1>b, OffsetOfNext DEF TransmitLinear, Outstanding, Offset, hwVars
<1>d. /\ b \in callerOwns
      /\ TxBufferMappings'[cur_tx].UnmappedAddress = b
      /\ \A e \in Entries : e # cur_tx => TxBufferMappings'[e] = TxBufferMappings[e]
  BY <1>t, <1>a DEF TransmitLinear, TypeOK
<1>e. Advance(dirty_tx, Outstanding) = cur_tx
  <2>1. Outstanding \in Entries
    BY <1>b DEF Entries
  <2> QED
    BY <1>a, <2>1, AdvanceOffset, OffsetInjective DEF Outstanding
<1>f. \A i \in 1 .. Outstanding : Advance(dirty_tx, i - 1) # cur_tx
  <2> SUFFICES ASSUME NEW i \in 1 .. Outstanding, Advance(dirty_tx, i - 1) = cur_tx PROVE FALSE
    OBVIOUS
  <2>1. i - 1 \in Entries /\ i - 1 # Outstanding
    BY <1>b, RingAssumption DEF Entries, N
  <2> QED
    BY <1>a, <2>1, AdvanceOffset DEF Outstanding
<1> DEFINE B == Buffers \cup {NoBuf}
<1>1. b \notin Q!ToSet(Queue)
  <2>1. \A i \in DOMAIN Queue : Queue[i] # b
    BY <1>t, <1>d, QueueLength DEF IInv, Ownership, NotReturned
  <2> QED
    BY <2>1 DEF Q!ToSet
<1>2. Len(Queue) < N - 1
  BY <1>t, <1>b, QueueLength
<1>3. Queue' = Append(Queue, b)
  <2>0. /\ Queue' \in Seq(B) /\ Len(Queue') = Outstanding'
        /\ \A i \in 1 .. Outstanding' :
             Queue'[i] = TxBufferMappings'[Advance(dirty_tx', i - 1)].UnmappedAddress
    <3>1. Outstanding' \in Nat
      BY <1>b, <1>c, RingAssumption DEF N
    <3>2. \A i \in 1 .. Outstanding' : Advance(dirty_tx', i - 1) \in Entries
      <4> SUFFICES ASSUME NEW i \in 1 .. Outstanding' PROVE Advance(dirty_tx, i - 1) \in Entries
        BY <1>c
      <4>1. i - 1 \in Entries
        BY <1>b, <1>c, RingAssumption DEF Entries, N
      <4> QED
        BY <1>a, <4>1, AdvanceOffset
    <3>3. \A i \in 1 .. Outstanding' :
             TxBufferMappings'[Advance(dirty_tx', i - 1)].UnmappedAddress \in B
      BY <1>t, <3>2 DEF TypeOK, Mapping
    <3>4. Queue' = [i \in 1 .. Outstanding' |->
                      TxBufferMappings'[Advance(dirty_tx', i - 1)].UnmappedAddress]
      BY DEF Queue, Advance
    <3>5. Queue' \in [1 .. Outstanding' -> B]
      BY <3>3, <3>4
    <3> QED
      BY <3>1, <3>4, <3>5
  <2>1. /\ Queue \in Seq(B) /\ Len(Queue) = Outstanding
        /\ \A i \in 1 .. Outstanding :
             /\ Advance(dirty_tx, i - 1) \in Entries
             /\ Queue[i] = TxBufferMappings[Advance(dirty_tx, i - 1)].UnmappedAddress
    BY <1>t, QueueLength
  <2> HIDE DEF B
  <2>2. b \in B
    BY DEF B
  <2>3. /\ Append(Queue, b) \in Seq(B) /\ Len(Append(Queue, b)) = Outstanding + 1
        /\ \A i \in 1 .. Outstanding : Append(Queue, b)[i] = Queue[i]
        /\ Append(Queue, b)[Outstanding + 1] = b
    BY <2>1, <2>2, AppendProperties
  <2>4. ASSUME NEW i \in 1 .. Outstanding + 1
        PROVE  Queue'[i] = Append(Queue, b)[i]
    <3>1. CASE i = Outstanding + 1
      <4>1. i - 1 = Outstanding
        BY <1>b, <3>1
      <4> QED
        BY <1>c, <1>d, <1>e, <2>0, <2>3, <3>1, <4>1
    <3>2. CASE i \in 1 .. Outstanding
      BY <1>c, <1>d, <1>f, <2>0, <2>1, <2>3, <3>2
    <3>3. Outstanding \in Nat
      BY <1>b, RingAssumption DEF N
    <3>4. i = Outstanding + 1 \/ i \in 1 .. Outstanding
      BY <3>3
    <3> QED
      BY <3>1, <3>2, <3>4
  <2> QED
    BY <1>c, <2>0, <2>3, <2>4, SeqEqual
<1> QED
  BY <1>1, <1>2, <1>3, <1>c DEF Q!Accept

(* Moving on from e by k entries and then by j is moving on by k + j.      *)
LEMMA AdvanceTwice ==
  ASSUME NEW e \in Entries, NEW k \in Nat, NEW j \in Nat, k + j < N
  PROVE  Advance(Advance(e, k), j) = Advance(e, k + j)
BY RingAssumption DEF Advance, Entries, N

(* A reclaim returns the oldest buffers of the queue, all of them sent.    *)
LEMMA FreeIsReturn ==
  ASSUME IInv, IInv', NEW NumEntries \in 1 .. N, FreeTxBuffers(NumEntries)
  PROVE  \E k \in 1 .. N - 1 : Q!Return(k)
<1>t. TypeOK /\ TypeOK'
  BY DEF IInv
<1>b. PICK count \in 1 .. N - 1 :
        /\ count <= Outstanding /\ count <= Offset(hwCur)
        /\ Outstanding' = Outstanding - count
        /\ Offset(hwCur)' = Offset(hwCur) - count
        /\ dirty_tx' = Advance(dirty_tx, count)
        /\ TxBufferMappings' = [e \in Entries |->
             IF e \in {f \in Entries : Offset(f) < count}
             THEN ZeroMapping ELSE TxBufferMappings[e]]
  BY FreeTxBuffersEffect
<1>a. /\ count \in Nat /\ count >= 1 /\ N \in Nat /\ dirty_tx \in Entries
      /\ Outstanding \in Nat /\ Outstanding < N
  <2>1. Outstanding \in 0 .. N - 1
    BY <1>t, QueueLength
  <2> QED
    BY <1>t, <2>1, RingAssumption DEF N, TypeOK
<1> DEFINE B == Buffers \cup {NoBuf}
           rest == Outstanding - count
<1>r. rest \in Nat /\ rest = Outstanding'
  BY <1>a, <1>b
<1>1. /\ Queue \in Seq(B) /\ Len(Queue) = Outstanding
      /\ \A i \in 1 .. Outstanding :
           /\ Advance(dirty_tx, i - 1) \in Entries
           /\ Queue[i] \in B
           /\ Queue[i] = TxBufferMappings[Advance(dirty_tx, i - 1)].UnmappedAddress
  BY <1>t, QueueLength
<1>2. ASSUME NEW i \in 1 .. rest
      PROVE  /\ count + i \in 1 .. Outstanding
             /\ TxBufferMappings'[Advance(dirty_tx', i - 1)].UnmappedAddress = Queue[count + i]
  <2>1. count + i \in 1 .. Outstanding /\ i - 1 \in Nat /\ count + (i - 1) < N
        /\ count + (i - 1) = (count + i) - 1 /\ count + (i - 1) \in Entries
    BY <1>a, <1>r DEF Entries
  <2>2. Advance(dirty_tx', i - 1) = Advance(dirty_tx, (count + i) - 1)
    BY <1>a, <1>b, <2>1, AdvanceTwice
  <2>3. Offset(Advance(dirty_tx, (count + i) - 1)) = (count + i) - 1
    BY <1>a, <2>1, AdvanceOffset
  <2>4. ~((count + i) - 1 < count)
    BY <1>a, <1>r
  <2>5. Advance(dirty_tx, (count + i) - 1) \in Entries
    BY <1>1, <2>1
  <2>6. TxBufferMappings'[Advance(dirty_tx', i - 1)]
          = TxBufferMappings[Advance(dirty_tx, (count + i) - 1)]
    BY <1>b, <2>2, <2>3, <2>4, <2>5
  <2> QED
    BY <1>1, <2>1, <2>6
<1>3. /\ Queue' \in Seq(B) /\ Len(Queue') = rest
      /\ \A i \in 1 .. rest : Queue'[i] = Queue[count + i]
  <2>1. Queue' = [i \in 1 .. rest |->
                    TxBufferMappings'[Advance(dirty_tx', i - 1)].UnmappedAddress]
    BY <1>r DEF Queue, Advance
  <2>2. Queue' = [i \in 1 .. rest |-> Queue[count + i]]
    BY <1>2, <2>1
  <2>3. \A i \in 1 .. rest : Queue[count + i] \in B
    BY <1>1, <1>2
  <2> HIDE DEF rest, B
  <2>4. Queue' \in [1 .. rest -> B]
    BY <2>2, <2>3
  <2> QED
    BY <1>r, <2>2, <2>4
<1>4. Queue' = SubSeq(Queue, count + 1, Len(Queue))
  <2>1. \A i \in count + 1 .. Len(Queue) : Queue[i] \in B
    BY <1>1, <1>a
  <2>2. count + 1 \in Int /\ Len(Queue) \in Int /\ Len(Queue) - (count + 1) + 1 = rest
    BY <1>1, <1>a
  <2>3. /\ SubSeq(Queue, count + 1, Len(Queue)) \in Seq(B)
        /\ Len(SubSeq(Queue, count + 1, Len(Queue))) =
             IF count + 1 <= Len(Queue) THEN Len(Queue) - (count + 1) + 1 ELSE 0
        /\ \A i \in 1 .. Len(Queue) - (count + 1) + 1 :
             SubSeq(Queue, count + 1, Len(Queue))[i] = Queue[(count + 1) + i - 1]
    <3> HIDE DEF B
    <3> QED
      BY <2>1, <2>2, SubSeqProperties
  <2>4. /\ Len(SubSeq(Queue, count + 1, Len(Queue))) = rest
        /\ \A i \in 1 .. rest : SubSeq(Queue, count + 1, Len(Queue))[i] = Queue[count + i]
    <3>1. Len(SubSeq(Queue, count + 1, Len(Queue))) = rest
      BY <1>1, <1>a, <1>r, <2>3
    <3>2. ASSUME NEW i \in 1 .. rest
          PROVE  SubSeq(Queue, count + 1, Len(Queue))[i] = Queue[count + i]
      <4>1. (count + 1) + i - 1 = count + i /\ i \in 1 .. Len(Queue) - (count + 1) + 1
        BY <1>a, <1>r, <2>2
      <4> QED
        BY <2>3, <4>1
    <3> QED
      BY <3>1, <3>2
  <2> HIDE DEF B, rest
  <2> QED
    BY <1>3, <2>3, <2>4, SeqEqual
<1>5. Q!Return(count)
  BY <1>4, <1>b DEF Q!Return
<1> QED
  BY <1>5

(* A descriptor written back is a frame sent.                              *)
LEMMA WriteBackIsSend ==
  ASSUME IInv, IInv', HwWriteBack
  PROVE  Q!Send
<1>t. TypeOK /\ hwCur \in Entries /\ dirty_tx \in Entries
  BY DEF IInv, TypeOK
<1>1. InWindow(hwCur)
  BY <1>t DEF IInv, RingShape, HwInWindow, OwnIffPending, HwWriteBack
<1>2. Offset(hwCur) < Len(Queue)
  BY <1>t, <1>1, QueueLength DEF InWindow
<1>3. UNCHANGED <<cur_tx, dirty_tx, TxBufferMappings>> /\ hwCur' = NextEntry(hwCur)
  BY DEF HwWriteBack
<1>4. Offset(hwCur)' = Offset(hwCur) + 1
  <2>1. Offset(hwCur) < N - 1
    BY <1>t, <1>1, OffsetOfNext, RingAssumption DEF InWindow, Outstanding, Entries, N, TypeOK
  <2>2. Offset(hwCur)' = Offset(NextEntry(hwCur))
    BY <1>3 DEF Offset
  <2> QED
    BY <1>t, <2>1, <2>2, OffsetOfNext
<1>5. Queue' = Queue
  BY <1>3 DEF Queue, Outstanding, Offset, Advance
<1> QED
  BY <1>2, <1>4, <1>5 DEF Q!Send

(* The ring of IntelgbeTransmit and IntelgbeFreeTxBuffers implements the   *)
(* queue of TxQueue for every ring size, when frames are not fragmented:   *)
(* buffers come back in the order they were accepted, each after the       *)
(* engine is done with it.                                                 *)
THEOREM ImplementsTxQueueHolds == MaxFrags = 0 => (Spec => ImplementsTxQueue)
<1> SUFFICES ASSUME MaxFrags = 0 PROVE Spec => ImplementsTxQueue
  OBVIOUS
<1>1. Init => LinearInv /\ Q!Init
  <2> SUFFICES ASSUME Init PROVE LinearInv /\ Q!Init
    OBVIOUS
  <2>1. LinearInv
    BY InitIInv DEF LinearInv, Init, Filling, Idle
  <2>2. Outstanding = 0 /\ Offset(hwCur) = 0
    BY RingAssumption DEF Init, Outstanding, Offset
  <2>3. Queue = <<>>
    <3>1. TypeOK
      BY <2>1 DEF LinearInv, IInv
    <3> QED
      BY <2>2, <3>1, QueueLength, EmptySeq
  <2> QED
    BY <2>1, <2>2, <2>3 DEF Q!Init
<1>2. LinearInv /\ [Next]_vars => LinearInv' /\ [Q!Next]_(Q!qvars)
  <2> SUFFICES ASSUME LinearInv, [Next]_vars PROVE LinearInv' /\ [Q!Next]_(Q!qvars)
    OBVIOUS
  <2>1. LinearInv' /\ IInv /\ IInv'
    BY LinearStep DEF LinearInv
  <2>2. ASSUME NEW b \in Buffers, TransmitLinear(b) PROVE Q!Next
    BY <2>1, <2>2, TransmitIsAccept DEF Q!Next
  <2>3. ASSUME NEW NumEntries \in 1 .. N, FreeTxBuffers(NumEntries) PROVE Q!Next
    BY <2>1, <2>3, FreeIsReturn DEF Q!Next
  <2>4. CASE HwWriteBack
    BY <2>1, <2>4, WriteBackIsSend DEF Q!Next
  <2>5. CASE WriteTail \/ HwFetch \/ UNCHANGED vars
    <3>1. UNCHANGED <<cur_tx, dirty_tx, TxBufferMappings, hwCur>>
      BY <2>5 DEF WriteTail, HwFetch, vars, ringVars, hwVars
    <3>2. UNCHANGED Q!qvars
      BY <3>1 DEF Q!qvars, Queue, Outstanding, Offset, Advance
    <3> QED
      BY <2>1, <3>2
  <2> QED
    BY <2>1, <2>2, <2>3, <2>4, <2>5, LinearStep
<1> QED
  BY <1>1, <1>2, PTL DEF Spec, ImplementsTxQueue, Q!Spec

-----------------------------------------------------------------------------
(* Whole frames whose mapping succeeds.                                    *)

Whole == MaxFrags = 0 /\ MapMayFail = FALSE

LEMMA WholeStep ==
  ASSUME Whole, WholeIInv, [Next]_vars
  PROVE  WholeIInv'
<1>l. MaxFrags = 0 /\ LinearInv
  BY DEF Whole, WholeIInv, LinearInv
<1>i. IInv /\ IInv' /\ ~Filling' /\ TypeOK
  BY <1>l, LinearStep DEF LinearInv, IInv
<1>a. cur_tx \in Entries /\ dirty_tx \in Entries /\ hwCur \in Entries
  BY <1>i DEF TypeOK
<1> SUFFICES PendingMapped' /\ SentWereRead'
  BY <1>i DEF WholeIInv
<1>1. ASSUME NEW b \in Buffers, TransmitLinear(b)
      PROVE  PendingMapped' /\ SentWereRead'
  <2>1. /\ TxBufferMappings' = [TxBufferMappings EXCEPT ![cur_tx] =
                                 [UnmappedAddress |-> b, mapped |-> TRUE]]
        /\ liveMaps' = liveMaps \cup {b}
        /\ tx_desc' = [tx_desc EXCEPT ![cur_tx] =
                        [own |-> TRUE, fd |-> TRUE, ld |-> TRUE, addr |-> b]]
        /\ b \in callerOwns /\ onWire' = onWire \ {b}
        /\ dirty_tx' = dirty_tx /\ hwCur' = hwCur
    BY <1>1 DEF TransmitLinear, Whole, hwVars
  <2>2. b # NoBuf
    BY TxConstantsAssumption
  <2>3. /\ \A e \in Entries : e # cur_tx => /\ tx_desc'[e] = tx_desc[e]
                                            /\ TxBufferMappings'[e] = TxBufferMappings[e]
        /\ tx_desc'[cur_tx].addr = b /\ TxBufferMappings'[cur_tx].UnmappedAddress = b
    BY <1>a, <1>i, <2>1 DEF TypeOK
  <2>4. PendingMapped'
    BY <2>1, <2>2, <2>3 DEF WholeIInv, PendingMapped
  <2>5. \A e \in Entries : Offset(e)' = Offset(e) /\ Offset(hwCur)' = Offset(hwCur)
    BY <2>1 DEF Offset
  <2>6. ASSUME NEW e \in Entries, Offset(e) < Offset(hwCur)
        PROVE  /\ e # cur_tx /\ InWindow(e)
               /\ TxBufferMappings[e].UnmappedAddress # b
    <3>1. Offset(hwCur) <= Outstanding
      BY <1>i DEF IInv, RingShape, HwInWindow
    <3>2. Offset(e) \in Int /\ Offset(hwCur) \in Int /\ Outstanding \in Int
      BY <1>a, OffsetOfNext DEF Outstanding, Entries
    <3>3. Offset(e) < Outstanding
      BY <2>6, <3>1, <3>2
    <3> QED
      BY <1>i, <2>1, <3>2, <3>3 DEF InWindow, Outstanding, IInv, Ownership, NotReturned
  <2>7. SentWereRead'
    BY <2>1, <2>3, <2>5, <2>6 DEF WholeIInv, SentWereRead
  <2> QED
    BY <2>4, <2>7
<1>2. ASSUME NEW NumEntries \in 1 .. N, FreeTxBuffers(NumEntries)
      PROVE  PendingMapped' /\ SentWereRead'
  <2>1. PICK count \in 1 .. N - 1 :
         LET freed == {e \in Entries : Offset(e) < count}
             bufs  == {TxBufferMappings[e].UnmappedAddress : e \in freed}
         IN /\ count <= Outstanding
            /\ \A e \in Entries : Offset(e)' = IF Offset(e) >= count THEN Offset(e) - count
                                               ELSE Offset(e) - count + N
            /\ Outstanding' = Outstanding - count
            /\ Offset(hwCur)' = Offset(hwCur) - count
            /\ \A e \in freed : TxBufferMappings[e].UnmappedAddress \in Buffers
            /\ TxBufferMappings' = [e \in Entries |->
                 IF e \in freed THEN ZeroMapping ELSE TxBufferMappings[e]]
            /\ tx_desc' = [e \in Entries |->
                 IF e \in freed THEN ZeroDesc ELSE tx_desc[e]]
            /\ liveMaps' = liveMaps \ bufs
            /\ onWire' = onWire
    BY <1>2, <1>i, FreeTxBuffersEffect
  <2> DEFINE freed == {e \in Entries : Offset(e) < count}
             bufs  == {TxBufferMappings[e].UnmappedAddress : e \in freed}
  <2>2. ASSUME NEW e \in Entries, tx_desc'[e].own
        PROVE  /\ e \notin freed /\ tx_desc'[e] = tx_desc[e]
               /\ TxBufferMappings'[e] = TxBufferMappings[e]
    BY <2>1, <2>2 DEF ZeroDesc
  <2>3. ASSUME NEW e \in Entries, tx_desc'[e].own
        PROVE  tx_desc[e].addr \notin bufs
    <3> HIDE DEF freed
    <3>0. e \notin freed /\ freed \subseteq Entries
      BY <2>2, <2>3 DEF freed
    <3>1. \A f \in freed : TxBufferMappings[f].UnmappedAddress \in Buffers
      BY <2>1 DEF freed
    <3>2. \A f \in freed : TxBufferMappings[f].UnmappedAddress # tx_desc[e].addr
      BY <1>i, <3>0, <3>1, TxConstantsAssumption DEF IInv, Ownership, OneEntryPerBuffer
    <3> QED
      BY <3>2
  <2>4. PendingMapped'
    BY <2>1, <2>2, <2>3 DEF WholeIInv, PendingMapped
  <2>5. ASSUME NEW e \in Entries, InWindow(e)', Offset(e)' < Offset(hwCur)'
        PROVE  e \notin freed /\ InWindow(e) /\ Offset(e) < Offset(hwCur)
    <3>1. /\ Offset(e) \in 0 .. N - 1 /\ Outstanding \in 0 .. N - 1
          /\ Offset(hwCur) \in 0 .. N - 1
      BY <1>a, OffsetOfNext DEF Outstanding, Entries
    <3>2. Offset(e)' < Outstanding'
      BY <2>5 DEF InWindow
    <3>3. ~(Offset(e) < count) /\ Offset(e) < Outstanding /\ Offset(e) < Offset(hwCur)
      BY <2>1, <2>5, <3>1, <3>2, RingAssumption DEF N
    <3> QED
      BY <3>3 DEF InWindow
  <2>6. SentWereRead'
    BY <2>1, <2>5 DEF WholeIInv, SentWereRead
  <2> QED
    BY <2>4, <2>6
<1>3. CASE HwWriteBack
  <2>1. /\ hwBusy = hwCur /\ tx_desc[hwCur].own /\ hwBuf = tx_desc[hwCur].addr
        /\ InWindow(hwCur)
    BY <1>3, <1>a, <1>i DEF HwWriteBack, IInv, RingShape, HwInWindow, OwnIffPending
  <2>2. /\ hwBuf \in onWire' /\ onWire \subseteq onWire'
        /\ UNCHANGED <<cur_tx, dirty_tx, TxBufferMappings, liveMaps>>
        /\ hwCur' = NextEntry(hwCur)
    <3>1. hwBuf # NoBuf
      BY <1>a, <2>1 DEF WholeIInv, PendingMapped
    <3> QED
      BY <1>3, <3>1 DEF HwWriteBack
  <2>3. \A e \in Entries : /\ tx_desc'[e].own => tx_desc[e].own
                           /\ tx_desc'[e].addr = tx_desc[e].addr
    BY <1>3, <1>i DEF HwWriteBack, TypeOK, Desc
  <2>4. PendingMapped'
    BY <2>2, <2>3 DEF WholeIInv, PendingMapped
  <2>5. Offset(hwCur)' = Offset(hwCur) + 1
    <3>1. Offset(hwCur) < N - 1
      BY <1>a, <2>1, OffsetOfNext, RingAssumption DEF InWindow, Outstanding, Entries, N
    <3>2. Offset(hwCur)' = Offset(NextEntry(hwCur))
      BY <2>2 DEF Offset
    <3> QED
      BY <1>a, <3>1, <3>2, OffsetOfNext
  <2>6. \A e \in Entries : Offset(e)' = Offset(e) /\ (InWindow(e)' <=> InWindow(e))
    BY <2>2 DEF Offset, InWindow, Outstanding
  <2>7. ASSUME NEW e \in Entries, InWindow(e)', Offset(e)' < Offset(hwCur)'
        PROVE  TxBufferMappings[e].UnmappedAddress \in onWire'
    <3>1. Offset(e) \in Int /\ Offset(hwCur) \in Int
      BY <1>a, OffsetOfNext DEF Entries
    <3>2. Offset(e) < Offset(hwCur) \/ Offset(e) = Offset(hwCur)
      BY <2>5, <2>6, <2>7, <3>1
    <3>3. CASE Offset(e) < Offset(hwCur)
      BY <2>2, <2>6, <2>7, <3>3 DEF WholeIInv, SentWereRead
    <3>4. CASE Offset(e) = Offset(hwCur)
      <4>1. e = hwCur
        BY <1>a, <3>4, OffsetInjective
      <4> QED
        BY <1>a, <2>1, <2>2, <4>1 DEF WholeIInv, PendingMapped
    <3> QED
      BY <3>2, <3>3, <3>4
  <2> QED
    BY <2>2, <2>4, <2>7 DEF SentWereRead
<1>4. CASE WriteTail \/ HwFetch \/ UNCHANGED vars
  <2>1. UNCHANGED <<cur_tx, dirty_tx, tx_desc, TxBufferMappings, liveMaps, hwCur, onWire>>
    BY <1>4 DEF WriteTail, HwFetch, vars, ringVars, hwVars
  <2> QED
    BY <2>1 DEF WholeIInv, PendingMapped, SentWereRead, InWindow, Outstanding, Offset
<1> QED
  BY <1>l, <1>1, <1>2, <1>3, <1>4, LinearStep

LEMMA WholeInit == Init => WholeIInv
<1> SUFFICES ASSUME Init PROVE WholeIInv
  OBVIOUS
<1>1. IInv /\ ~Filling
  BY InitIInv DEF Init, Filling, Idle
<1>2. PendingMapped
  BY DEF Init, PendingMapped, ZeroDesc
<1>3. SentWereRead
  BY RingAssumption DEF Init, SentWereRead, InWindow, Outstanding, Offset, Entries, N
<1> QED
  BY <1>1, <1>2, <1>3 DEF WholeIInv

(* Whole frames whose mapping succeeds: the buffer the engine reads is     *)
(* mapped, so that the unmap of IntelgbeFreeTxBuffers comes after it.      *)
THEOREM HwReadsMappedHolds == Whole => (Spec => []HwReadsMapped)
<1> SUFFICES ASSUME Whole PROVE Spec => []HwReadsMapped
  OBVIOUS
<1>1. WholeIInv => HwReadsMapped
  BY DEF WholeIInv, IInv, TypeOK, RingShape, HwInWindow, PendingMapped, HwReadsMapped
<1>2. WholeIInv /\ [Next]_vars => WholeIInv'
  BY WholeStep
<1> QED
  BY <1>1, <1>2, WholeInit, PTL DEF Spec

(* A buffer IntelgbeFreeTxBuffers hands back has been read to its end by   *)
(* the engine since it was accepted.                                       *)
THEOREM ReturnedWereSentHolds == Whole => (Spec => ReturnedWereSent)
<1> SUFFICES ASSUME Whole PROVE Spec => ReturnedWereSent
  OBVIOUS
<1> DEFINE Sent == \A b \in Buffers : b \in callerOwns' \ callerOwns => b \in onWire
<1>1. WholeIInv /\ [Next]_vars => WholeIInv'
  BY WholeStep
<1>2. WholeIInv /\ [Next]_vars => [Sent]_vars
  <2> SUFFICES ASSUME WholeIInv, [Next]_vars PROVE Sent \/ UNCHANGED vars
    OBVIOUS
  <2>l. MaxFrags = 0 /\ LinearInv /\ IInv
    BY DEF Whole, WholeIInv, LinearInv
  <2>1. ASSUME NEW b \in Buffers, TransmitLinear(b) PROVE Sent
    BY <2>1 DEF TransmitLinear
  <2>2. ASSUME NEW NumEntries \in 1 .. N, FreeTxBuffers(NumEntries) PROVE Sent
    <3>1. PICK count \in 1 .. N - 1 :
            /\ count <= Outstanding /\ count <= Offset(hwCur)
            /\ callerOwns' = callerOwns \cup
                 {TxBufferMappings[e].UnmappedAddress : e \in {f \in Entries : Offset(f) < count}}
      BY <2>2, <2>l, FreeTxBuffersEffect
    <3>2. ASSUME NEW e \in Entries, Offset(e) < count
          PROVE  TxBufferMappings[e].UnmappedAddress \in onWire
      <4>1. /\ Offset(e) \in Int /\ Offset(hwCur) \in Int /\ Outstanding \in Int
        BY <2>l, OffsetOfNext DEF Outstanding, Entries, IInv, TypeOK
      <4>2. Offset(e) < Outstanding /\ Offset(e) < Offset(hwCur)
        BY <3>1, <3>2, <4>1, RingAssumption DEF N
      <4> QED
        BY <4>2 DEF InWindow, WholeIInv, SentWereRead
    <3> QED
      BY <3>1, <3>2
  <2>3. CASE WriteTail \/ HwFetch \/ HwWriteBack
    BY <2>3 DEF WriteTail, HwFetch, HwWriteBack
  <2> QED
    BY <2>l, <2>1, <2>2, <2>3, LinearStep
<1> QED
  BY <1>1, <1>2, WholeInit, PTL DEF Spec, ReturnedWereSent
=============================================================================
