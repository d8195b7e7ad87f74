----------------------------- MODULE Link_proofs ----------------------------
(***************************************************************************)
(* The link: with a PHY that latches changes, none is lost between two     *)
(* polls, for any set of modes.                                            *)
(***************************************************************************)
EXTENDS Link, TLAPS

(* Type correctness of the link's registers and records.                   *)
LEMMA TypeCorrectStep == TypeOK /\ [Next]_vars => TypeOK'
<1> SUFFICES ASSUME TypeOK, [Next]_vars PROVE TypeOK'
  OBVIOUS
<1>1. CASE CableOut
  BY <1>1 DEF CableOut, TypeOK
<1>2. ASSUME NEW m \in Modes, CableIn(m) PROVE TypeOK'
  BY <1>2 DEF CableIn, TypeOK
<1>3. CASE PollUnchanged \/ PollChanged
  BY <1>3 DEF PollUnchanged, PollChanged, TypeOK
<1>4. CASE PollStatus
  <2>1. macConf' \in Modes
    BY <1>4 DEF PollStatus, ReadStatus, TypeOK, Up
  <2> QED
    BY <1>4, <2>1 DEF PollStatus, TypeOK, Up
<1>5. CASE PollFails
  BY <1>5 DEF PollFails, TypeOK
<1>6. ASSUME NEW up \in BOOLEAN, NEW m \in Modes, MacInit(up, m) PROVE TypeOK'
  BY <1>6 DEF MacInit, TypeOK
<1>7. CASE UNCHANGED vars
  BY <1>7 DEF vars, TypeOK
<1> QED
  BY <1>1, <1>2, <1>3, <1>4, <1>5, <1>6, <1>7 DEF Next, Poll

(* Each step keeps the MAC in the mode of the link, or the change latched. *)
LEMMA NoChangeLostStep == TypeOK /\ NoChangeLost /\ [Next]_vars => NoChangeLost'
<1> SUFFICES ASSUME TypeOK, NoChangeLost, [Next]_vars PROVE NoChangeLost'
  OBVIOUS
<1> USE LinkAssumption DEF NoChangeLost, LatchedReliably, Changed, LatchedChange, Up
<1>1. CASE CableOut
  BY <1>1 DEF CableOut
<1>2. ASSUME NEW m \in Modes, CableIn(m) PROVE NoChangeLost'
  BY <1>2 DEF CableIn
<1>3. CASE PollUnchanged
  BY <1>3 DEF PollUnchanged
<1>4. CASE PollChanged
  BY <1>4 DEF PollChanged
<1>5. CASE PollStatus
  BY <1>5 DEF PollStatus, ReadStatus
<1>6. CASE PollFails
  BY <1>6 DEF PollFails
<1>7. ASSUME NEW up \in BOOLEAN, NEW m \in Modes, MacInit(up, m) PROVE NoChangeLost'
  BY <1>7 DEF MacInit
<1>8. CASE UNCHANGED vars
  BY <1>8 DEF vars
<1> QED
  BY <1>1, <1>2, <1>3, <1>4, <1>5, <1>6, <1>7, <1>8 DEF Next, Poll

(* With a PHY that latches, a link that is up is the one the MAC is        *)
(* configured for, or the next intelgbe_link_status is told of a change:   *)
(* whatever the cable does between its two accesses to the PHY.            *)
THEOREM NoChangeLostHolds == Spec => []NoChangeLost
<1>1. Init => TypeOK /\ NoChangeLost
  BY LinkAssumption DEF Init, TypeOK, NoChangeLost, Up
<1> QED
  BY <1>1, TypeCorrectStep, NoChangeLostStep, PTL DEF Spec
=============================================================================
