-------------------------------- MODULE Link --------------------------------
(***************************************************************************)
(* The link: IsLinkUp (Intelgbe.c), intelgbe_link_status and               *)
(* intelgbe_mac_init (intelgbe_stmmac.c) over the status routines of the   *)
(* PHY drivers, against a cable that comes and goes.  The Marvell 88E1512  *)
(* and the MaxLinear GPY PHYs latch a change of the link until it is read; *)
(* for the 88E2110 the driver compares the link with the last it recorded. *)
(* An adapter has one of them, for good.                                   *)
(*                                                                         *)
(* A mode is a speed and a duplex, as MAC_CONFIGURATION holds them.        *)
(***************************************************************************)
EXTENDS Integers

CONSTANTS
  Modes,        \* modes a link can negotiate
  DefaultMode,  \* 100 Mbps, full duplex: what intelgbe_init_mac_ops sets
  Down,         \* no link
  Phys,         \* PHYs the adapter may have: "latched", "compared"
  Flaky         \* those of them an access to which may time out

ASSUME LinkAssumption ==
  /\ DefaultMode \in Modes
  /\ Down \notin Modes
  /\ Phys \subseteq {"latched", "compared"}
  /\ Flaky \subseteq Phys

VARIABLES
  phy,      \* the PHY of this adapter
  wire,     \* the PHY's link: Down or its mode
  istat,    \* the PHY's latched link-change bit, cleared by reading it
  link_up,  \* phy->link_up
  macConf,  \* mode in MAC_CONFIGURATION, the mac's link_speed and full_duplex
  poll,     \* where a call of intelgbe_link_status is: "idle" or "status"
  report    \* what the last IsLinkUp returned; at first, the link

vars == <<phy, wire, istat, link_up, macConf, poll, report>>

Up == wire # Down

(* IntelgbeFirstTimeInit ends in intelgbe_mac_init.                        *)
Init ==
  /\ phy \in Phys
  /\ wire \in Modes \cup {Down}
  /\ istat \in BOOLEAN
  /\ link_up = Up
  /\ macConf = IF Up THEN wire ELSE DefaultMode
  /\ poll = "idle"
  /\ report = Up

-----------------------------------------------------------------------------
(* The cable, external.                                                    *)

CableOut ==
  /\ Up
  /\ wire' = Down
  /\ istat' = TRUE
  /\ UNCHANGED <<phy, link_up, macConf, poll, report>>

CableIn(m) ==
  /\ ~Up
  /\ wire' = m
  /\ istat' = TRUE
  /\ UNCHANGED <<phy, link_up, macConf, poll, report>>

-----------------------------------------------------------------------------
(* IsLinkUp and intelgbe_link_status.                                      *)

\* marvell_88e1512_link_status_change; the GPY's is alike.
LatchedChange == istat

\* m88e2110_link_status_change.
ComparedChange == link_up # Up

\* ops.link_status_change.
Changed == IF phy = "latched" THEN LatchedChange ELSE ComparedChange

\* ops.status: speed and duplex of a link that is up; of one that is down,
\* the caller's uninitialised locals or whatever the PHY holds.
ReadStatus == IF Up THEN {wire} ELSE Modes

\* No change: the link recorded last is reported.
PollUnchanged ==
  /\ poll = "idle"
  /\ ~Changed
  /\ report' = link_up
  /\ UNCHANGED <<phy, wire, istat, link_up, macConf, poll>>

\* The bit is cleared by reading it; the status is read in a second access.
PollChanged ==
  /\ poll = "idle"
  /\ Changed
  /\ istat' = FALSE
  /\ poll' = "status"
  /\ UNCHANGED <<phy, wire, link_up, macConf, report>>

\* Mutant: the MAC is configured only when the link was not up before.
PollStatusOnce ==
  /\ poll = "status"
  /\ macConf' \in IF Up /\ ~link_up THEN {wire} ELSE {macConf}
  /\ link_up' = TRUE
  /\ report' = Up
  /\ poll' = "idle"
  /\ UNCHANGED <<phy, wire, istat>>

\* Mutant: the answer is the link recorded last.
PollStatusStale ==
  /\ poll = "status"
  /\ macConf' \in ReadStatus
  /\ link_up' = TRUE
  /\ report' = link_up
  /\ poll' = "idle"
  /\ UNCHANGED <<phy, wire, istat>>

\* "if (link)" tests the pointer, so the MAC is configured and the link
\* recorded as up also when it is down.
PollStatus ==
  /\ poll = "status"
  /\ macConf' \in ReadStatus
  /\ link_up' = TRUE
  /\ report' = Up
  /\ poll' = "idle"
  /\ UNCHANGED <<phy, wire, istat>>

\* An MDIO access times out: IsLinkUp returns its initial FALSE.  The
\* latched bit may have been cleared by the read that went astray.
PollFails ==
  /\ phy \in Flaky
  /\ poll \in {"idle", "status"}
  /\ report' = FALSE
  /\ istat' \in {istat, FALSE}
  /\ poll' = "idle"
  /\ UNCHANGED <<phy, wire, link_up, macConf>>

-----------------------------------------------------------------------------
(* intelgbe_mac_init, when the device is initialised again.  After a PHY   *)
(* access that failed, link is read uninitialised.                         *)

MacInit(up, m) ==
  /\ poll = "idle"
  /\ \/ up = Up /\ (up => m = wire)
     \/ phy \in Flaky
  /\ link_up' = up
  /\ macConf' = IF up THEN m ELSE macConf
  /\ UNCHANGED <<phy, wire, istat, poll, report>>

-----------------------------------------------------------------------------
Poll == PollUnchanged \/ PollChanged \/ PollStatus

Next ==
  \/ CableOut
  \/ \E m \in Modes : CableIn(m)
  \/ Poll
  \/ PollFails
  \/ \E up \in BOOLEAN, m \in Modes : MacInit(up, m)

Spec == Init /\ [][Next]_vars

(* The caller keeps asking for the media status.                           *)
FairSpec == Spec /\ WF_vars(Poll)

-----------------------------------------------------------------------------
(* The type invariant.                                                     *)
TypeOK ==
  /\ phy \in Phys
  /\ wire \in Modes \cup {Down}
  /\ istat \in BOOLEAN
  /\ link_up \in BOOLEAN
  /\ macConf \in Modes
  /\ poll \in {"idle", "status"}
  /\ report \in BOOLEAN

LatchedReliably == phy = "latched" /\ phy \notin Flaky

(* With a PHY that latches, between two calls of intelgbe_link_status a    *)
(* link that is up is the one the MAC is configured for, or the next call  *)
(* will be told of a change: none is lost between the two accesses to the  *)
(* PHY.                                                                    *)
NoChangeLost ==
  LatchedReliably /\ poll = "idle" /\ Up => Changed \/ macConf = wire

\* A latched change is cleared by a poll that goes on to read the status, and
\* by no poll whose access timed out.
ChangeSurvivesTimeout ==
  [][phy = "latched" /\ Changed /\ ~Changed' => poll' = "status"]_vars

(* A link that comes up after a call that reported it down is a change, or *)
(* the MAC has been configured for it: the row "0  1  1" of the table in   *)
(* m88e2110_link_status_change.                                            *)
ReplugIsNoticed == poll = "idle" /\ Up /\ ~report => Changed \/ macConf = wire

(* With a PHY that latches, a link that stays up is in the end reported,   *)
(* and the MAC runs in its mode (IsLinkUp: "TRUE   Link is up").           *)
UpIsConfigured ==
  LatchedReliably =>
    \A m \in Modes : <>[](wire = m) => <>[](report /\ macConf = m)

(* With the 88E2110, a link that stays down is in the end reported as      *)
(* down, whatever fails in between: as long as the link is recorded as up, *)
(* m88e2110_link_status_change sees a change in every poll.                *)
ComparedDownIsReported == phy = "compared" /\ <>[](~Up) => <>[](~report)

(* A link that stays down is in the end reported as down (IsLinkUp:        *)
(* "FALSE  Link is down").                                                 *)
DownIsReported == <>[](~Up) => <>[](~report)
=============================================================================
