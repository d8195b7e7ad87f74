------------------------------- MODULE UndiApi ------------------------------
(***************************************************************************)
(* One adapter as its users see it: the UNDI commands of Decode.c behind   *)
(* IntelgbeUndiApiEntry, the media state of AdapterInformation.c, and the  *)
(* driver-stop protocol of StartStop.c, with which a diagnostic            *)
(* application takes the hardware away and gives it back. The application  *)
(* runs at the lowest task priority, so a command issued from a timer      *)
(* event can fall between any two steps of StartDriver; commands           *)
(* themselves are serialised.                                              *)
(*                                                                         *)
(* The descriptor rings are in TxRing and RxRing, the link in Link.        *)
(***************************************************************************)
EXTENDS Integers, Sequences, FiniteSets

CONSTANTS
  InitMayFail  \* callers whose ops.init_hw may report an error: the one of
               \* intelgbe_stmmac.c never does, the callers provide for it

ASSUME InitMayFailAssumption == InitMayFail \subseteq {"Initialize", "StartDriver"}

VARIABLES
  State,            \* STOPPED, STARTED or INITIALIZED
  DriverBusy,       \* the driver-stop protocol has stopped the driver
  HwInitialized,    \* intelgbe_init_hw has been done
  ReceiveStarted,   \* the receive unit has been started
  CableDetect,      \* what the last Initialize asked for
  addr,             \* Hw.mac.addr, the station address the driver reports
  dma,              \* are the DMA channels of the device running?
  hwAddr,           \* the device's address register
  mcast,            \* does the packet filter pass all multicast?
  owner,            \* who may use the device: "undi", "app" or "restart"
  restart,          \* where StartDriver is: "none", "init", "finish"
  cdb               \* the last call: its code, answer, device accesses

swVars == <<State, DriverBusy, HwInitialized, ReceiveStarted, CableDetect, addr>>
hwVars == <<dma, hwAddr, mcast>>
appVars == <<owner, restart>>
vars == <<swVars, hwVars, appVars, cdb>>

\* mIntelgbeApiTable: the state each command asks for.
AnyState      == {"GetState", "Start"}
MustBeStarted == {"Stop", "GetInitInfo", "GetConfigInfo", "Initialize"}
MustBeInitialized ==
  {"Reset", "Shutdown", "Interrupt", "RecFilter", "StnAddr", "Statistics", "Ip2Mac",
   "NvData", "Status", "FillHeader", "Transmit", "Receive"}
OpCodes == AnyState \cup MustBeStarted \cup MustBeInitialized
Calls   == OpCodes \cup {"GetInformation"}

Answer(op, flags, code, hw) ==
  [OpCode |-> op, StatFlags |-> flags, StatCode |-> code, hw |-> hw]
Flags == {"COMPLETE", "FAILED", "COMPLETE_NO_MEDIA", "FAILED_NO_MEDIA"}
Codes == {"SUCCESS", "INVALID_CDB", "NOT_STARTED", "NOT_INITIALIZED", "BUSY",
          "QUEUE_FULL", "NO_DATA"}
Cdbs  == [OpCode : Calls, StatFlags : Flags, StatCode : Codes, hw : BOOLEAN]
Addresses == {"perm", "set"}

\* What IntelgbeFirstTimeInit leaves when the child is created.
Init ==
  /\ State = "STOPPED"
  /\ DriverBusy = FALSE
  /\ HwInitialized = TRUE
  /\ ReceiveStarted = TRUE
  /\ CableDetect = FALSE
  /\ addr = "perm"
  /\ dma = TRUE
  /\ hwAddr = "perm"
  /\ mcast = FALSE
  /\ owner = "undi"
  /\ restart = "none"
  /\ cdb = Answer("GetState", "COMPLETE", "SUCCESS", FALSE)

-----------------------------------------------------------------------------
(* IntelgbeUndiApiEntry.                                                   *)

Reply(op, flags, code, hw) == cdb' = Answer(op, flags, code, hw) /\ UNCHANGED appVars
Refuse(op, code) == Reply(op, "FAILED", code, FALSE) /\ UNCHANGED <<swVars, hwVars>>

\* A malformed command block: interface number, code, sizes, addresses.
BadCdb(op) == Refuse(op, "INVALID_CDB")

StateAllows(op) ==
  /\ op \in MustBeStarted \cup MustBeInitialized => State # "STOPPED"
  /\ op \in MustBeInitialized => State = "INITIALIZED"

WrongState(op) ==
  /\ ~StateAllows(op)
  /\ Refuse(op, IF State = "STOPPED" THEN "NOT_STARTED" ELSE "NOT_INITIALIZED")

-----------------------------------------------------------------------------
(* The commands.                                                           *)

\* Commands for which the entry point has already answered: those with an
\* empty body, and those that only fill a data block.
Inquiries    == {"GetState", "Stop", "GetInitInfo", "GetConfigInfo"}
Stubs        == {"Reset", "Shutdown", "Interrupt"}
Translations == {"Statistics", "Ip2Mac", "NvData"}
NoEffect     == Inquiries \cup Stubs \cup Translations \cup {"FillHeader"}

UndiNoEffect(op) ==
  /\ StateAllows(op)
  /\ Reply(op, "COMPLETE", "SUCCESS", FALSE)
  /\ UNCHANGED <<swVars, hwVars>>

UndiStart ==
  /\ \/ State # "STOPPED" /\ Reply("Start", "COMPLETE", "SUCCESS", FALSE) /\ UNCHANGED State
     \/ State = "STOPPED" /\ Refuse("Start", "INVALID_CDB")
     \/ /\ State = "STOPPED"
        /\ Reply("Start", "COMPLETE", "SUCCESS", FALSE)
        /\ State' = "STARTED"
  /\ UNCHANGED <<DriverBusy, HwInitialized, ReceiveStarted, CableDetect, addr, hwVars>>

\* Mutant: nobody asks whether the driver is stopped.
BusyNever == FALSE

\* The check RecFilter, Status, Transmit, Receive and Initialize begin with.
Busy == DriverBusy

UndiBusy(op) ==
  /\ op \in {"Initialize", "RecFilter", "Status", "Transmit", "Receive"}
  /\ StateAllows(op)
  /\ Busy
  /\ Refuse(op, "BUSY")

\* Mutant: a hardware that failed to initialise is taken for initialised.
InititializeBlind(who, ok) ==
  /\ HwInitialized => ok
  /\ ok \/ who \in InitMayFail
  /\ HwInitialized' = TRUE
  /\ ReceiveStarted' = (ReceiveStarted \/ ok)
  /\ dma' = IF HwInitialized THEN dma ELSE ok
  /\ addr' = hwAddr

\* IntelgbeInititialize: intelgbe_init_hw unless it has been done (it stops
\* the channels first and starts them last), then the address is read back.
Inititialize(who, ok) ==
  /\ HwInitialized => ok
  /\ ok \/ who \in InitMayFail
  /\ HwInitialized' = ok
  /\ ReceiveStarted' = (ReceiveStarted \/ (ok /\ ~HwInitialized))
  /\ dma' = IF HwInitialized THEN dma ELSE ok
  /\ addr' = hwAddr

\* IntelgbeUndiInitialize, with IntelgbeWaitForAutoNeg: TRUE only when no
\* cable detection was asked for.
UndiInitialize(detect) ==
  /\ StateAllows("Initialize")
  /\ ~Busy
  /\ IF State = "INITIALIZED"
     THEN /\ Reply("Initialize", "COMPLETE", "SUCCESS", FALSE)
          /\ UNCHANGED <<swVars, hwVars>>
     ELSE \E ok \in BOOLEAN :
            /\ Inititialize("Initialize", ok)
            /\ CableDetect' = detect
            /\ IF detect
               THEN /\ State' = "STARTED"
                    /\ Reply("Initialize", IF ok THEN "COMPLETE_NO_MEDIA" ELSE "FAILED_NO_MEDIA",
                             "NOT_STARTED", TRUE)
               ELSE /\ State' = IF ok THEN "INITIALIZED" ELSE State
                    /\ Reply("Initialize", "COMPLETE", IF ok THEN "SUCCESS" ELSE "NOT_STARTED", TRUE)
            /\ UNCHANGED <<DriverBusy, hwAddr, mcast>>

UndiRecFilter ==
  /\ StateAllows("RecFilter")
  /\ ~Busy
  /\ mcast' = TRUE
  /\ Reply("RecFilter", "COMPLETE", "SUCCESS", TRUE)
  /\ UNCHANGED <<swVars, dma, hwAddr>>

\* Reset to the permanent address or a new one; only the driver's copy.
UndiStnAddr(a) ==
  /\ StateAllows("StnAddr")
  /\ addr' = a
  /\ Reply("StnAddr", "COMPLETE", "SUCCESS", FALSE)
  /\ UNCHANGED <<State, DriverBusy, HwInitialized, ReceiveStarted, CableDetect, hwVars>>

\* Reclaims buffers, acknowledges interrupts and polls the link.
UndiStatus ==
  /\ StateAllows("Status")
  /\ ~Busy
  /\ Reply("Status", "COMPLETE", "SUCCESS", TRUE)
  /\ UNCHANGED <<swVars, hwVars>>

UndiTransmit ==
  /\ StateAllows("Transmit")
  /\ ~Busy
  /\ \/ Reply("Transmit", "COMPLETE", "SUCCESS", TRUE)
     \/ Reply("Transmit", "FAILED", "QUEUE_FULL", FALSE)
  /\ UNCHANGED <<swVars, hwVars>>

UndiReceive ==
  /\ StateAllows("Receive")
  /\ ~Busy
  /\ IF ReceiveStarted
     THEN \/ Reply("Receive", "COMPLETE", "SUCCESS", TRUE)
          \/ Reply("Receive", "FAILED", "NO_DATA", FALSE)
     ELSE Reply("Receive", "FAILED", "NOT_INITIALIZED", FALSE)
  /\ UNCHANGED <<swVars, hwVars>>

-----------------------------------------------------------------------------
(* EFI_ADAPTER_INFORMATION_PROTOCOL.GetInformation for the media state     *)
(* asks IsLinkUp, in every state and without a look at DriverBusy.         *)

GetMediaState ==
  /\ Reply("GetInformation", "COMPLETE", "SUCCESS", TRUE)
  /\ UNCHANGED <<swVars, hwVars>>

-----------------------------------------------------------------------------
(* The driver-stop protocol.                                               *)

StopDriver ==
  /\ restart = "none"
  /\ DriverBusy' = TRUE
  /\ owner' = "app"
  /\ UNCHANGED <<State, HwInitialized, ReceiveStarted, CableDetect, addr, hwVars, restart, cdb>>

\* The diagnostic application runs: it leaves the channels stopped or not.
AppUsesDevice ==
  /\ owner = "app"
  /\ dma' \in BOOLEAN
  /\ UNCHANGED <<swVars, hwAddr, mcast, appVars, cdb>>

\* Called by the application that has stopped the driver; the protocol is
\* there only as long as the child is, so that IsChildInitialized holds.
StartDriver ==
  /\ owner = "app"
  /\ HwInitialized' = FALSE
  /\ owner' = "restart"
  /\ restart' = IF State = "INITIALIZED" THEN "init" ELSE "finish"
  /\ UNCHANGED <<State, DriverBusy, ReceiveStarted, CableDetect, addr, hwVars, cdb>>

\* The result of IntelgbeInititialize is not looked at.
StartDriverInit ==
  /\ restart = "init"
  /\ \E ok \in BOOLEAN : Inititialize("StartDriver", ok)
  /\ restart' = "finish"
  /\ UNCHANGED <<State, DriverBusy, CableDetect, hwAddr, mcast, owner, cdb>>

StartDriverFinish ==
  /\ restart = "finish"
  /\ DriverBusy' = FALSE
  /\ owner' = "undi"
  /\ restart' = "none"
  /\ UNCHANGED <<State, HwInitialized, ReceiveStarted, CableDetect, addr, hwVars, cdb>>

-----------------------------------------------------------------------------
Command ==
  \/ \E op \in OpCodes : BadCdb(op) \/ WrongState(op) \/ UndiBusy(op)
  \/ \E op \in NoEffect : UndiNoEffect(op)
  \/ UndiStart
  \/ \E detect \in BOOLEAN : UndiInitialize(detect)
  \/ UndiRecFilter
  \/ \E a \in Addresses : UndiStnAddr(a)
  \/ UndiStatus
  \/ UndiTransmit
  \/ UndiReceive

DriverStop == StopDriver \/ AppUsesDevice \/ StartDriver \/ StartDriverInit \/ StartDriverFinish

Next == Command \/ GetMediaState \/ DriverStop

Spec == Init /\ [][Next]_vars

(* A call of StartDriver runs to its end.                                  *)
FairSpec == Spec /\ WF_vars(StartDriverInit) /\ WF_vars(StartDriverFinish)

-----------------------------------------------------------------------------
(* The type invariant.                                                     *)
TypeOK ==
  /\ State \in {"STOPPED", "STARTED", "INITIALIZED"}
  /\ DriverBusy \in BOOLEAN /\ HwInitialized \in BOOLEAN /\ ReceiveStarted \in BOOLEAN
  /\ CableDetect \in BOOLEAN
  /\ addr \in Addresses /\ hwAddr \in Addresses
  /\ dma \in BOOLEAN /\ mcast \in BOOLEAN
  /\ owner \in {"undi", "app", "restart"}
  /\ restart \in {"none", "init", "finish"}
  /\ cdb \in Cdbs

(* From StopDriver to the end of StartDriver no UNDI command reaches the   *)
(* device: neither the diagnostic application ("so diagnostic application  *)
(* can access the hardware") nor the re-initialisation is disturbed.       *)
NoCommandDuringStop ==
  [][cdb' # cdb /\ cdb'.OpCode \in OpCodes /\ cdb'.hw => owner = "undi"]_vars

(* StopDriver stops "the driver so diagnostic application can access the   *)
(* hardware": no call of the driver reaches the device until StartDriver   *)
(* has ended.                                                              *)
StoppedDriverIsSilent == [][cdb' # cdb /\ cdb'.hw => owner = "undi"]_vars

(* A driver that says INITIALIZED and takes commands has a device that     *)
(* runs: whatever the diagnostic application left, and after any number of *)
(* Initialize commands that failed, StartDriver or Initialize has set the  *)
(* device up again.                                                        *)
InitializedMeansRunning ==
  State = "INITIALIZED" /\ owner = "undi" => HwInitialized /\ dma /\ ReceiveStarted

(* What the states of the two protocols have to do with each other and     *)
(* with the device: DriverBusy is set exactly while the driver is stopped, *)
(* and an initialised device runs unless the application has it.           *)
BusyWhileAway == DriverBusy <=> owner # "undi"

StatesAgree ==
  /\ BusyWhileAway
  /\ restart = "none" <=> owner # "restart"
  /\ ReceiveStarted
  /\ HwInitialized /\ owner # "app" => dma
  /\ State = "INITIALIZED" /\ (owner = "undi" \/ restart = "finish") => HwInitialized

(* The inductive invariant, for an ops.init_hw that does not fail in       *)
(* StartDriver.                                                            *)
IInv == TypeOK /\ StatesAgree

(* The driver does not stay stopped once StartDriver has been called.      *)
RestartEnds == owner = "restart" ~> ~DriverBusy

(* IntelgbeUndiStart on a started adapter: "otherwise the                  *)
(* CdbPtr->StatFlags will reflect a command failure".                      *)
StartAgainFails ==
  [][cdb' # cdb /\ cdb'.OpCode = "Start" /\ State # "STOPPED" => cdb'.StatFlags = "FAILED"]_vars

(* IntelgbeUndiStop: "It's final action is to change the GigAdapter->State *)
(* to PXE_STATFLAGS_GET_STATE_STOPPED."                                    *)
StopStops ==
  [][cdb' # cdb /\ cdb'.OpCode = "Stop" /\ cdb'.StatCode = "SUCCESS" /\ State # "INITIALIZED"
     => State' = "STOPPED"]_vars

(* IntelgbeUndiShutdown: "GigAdapter->State is updated with                *)
(* PXE_STATFLAGS_GET_STATE_STARTED".                                       *)
ShutdownLeavesStarted ==
  [][cdb' # cdb /\ cdb'.OpCode = "Shutdown" /\ cdb'.StatCode = "SUCCESS"
     => State' = "STARTED"]_vars

(* IntelgbeUndiStnAddr, "configure the new address": the device answers to *)
(* the station address the driver reports.                                 *)
StationAddressReachesDevice == addr = hwAddr
=============================================================================
