--------------------------- MODULE UndiApi_proofs ---------------------------
(***************************************************************************)
(* The UNDI command layer beside the driver-stop protocol: a driver that   *)
(* says INITIALIZED has a device that runs, and no command reaches a       *)
(* device that was given away, after any number of commands, stops and     *)
(* restarts.                                                               *)
(***************************************************************************)
EXTENDS UndiApi, TLAPS

(* ops.init_hw of intelgbe_stmmac.c returns success only; StartDriver      *)
(* would not notice anything else.                                         *)
RestartReliable == "StartDriver" \notin InitMayFail

(* An answer to a command is one of the answers TypeOK knows.              *)
LEMMA AnswerType ==
  ASSUME NEW op \in Calls, NEW flags \in Flags, NEW code \in Codes, NEW hw \in BOOLEAN
  PROVE  Answer(op, flags, code, hw) \in Cdbs
BY DEF Answer, Cdbs

LEMMA InitIInv == Init => IInv
<1> SUFFICES ASSUME Init PROVE IInv
  OBVIOUS
<1>1. cdb \in Cdbs
  BY DEF Init, Answer, Cdbs, Calls, OpCodes, AnyState, Flags, Codes
<1> QED
  BY <1>1 DEF Init, IInv, TypeOK, StatesAgree, BusyWhileAway, Addresses

-----------------------------------------------------------------------------
(* A refused command leaves driver and device as they are.                 *)
LEMMA RefuseIInv ==
  ASSUME IInv, NEW op \in OpCodes, NEW code \in Codes, Refuse(op, code)
  PROVE  IInv'
<1>1. cdb' \in Cdbs
  BY AnswerType DEF Refuse, Reply, Calls, Flags
<1> QED
  BY <1>1 DEF Refuse, Reply, swVars, hwVars, appVars, IInv, TypeOK, StatesAgree, BusyWhileAway

(* So does a command that only answers.                                    *)
LEMMA ReplyIInv ==
  ASSUME IInv, NEW op \in Calls, NEW flags \in Flags, NEW code \in Codes, NEW hw \in BOOLEAN,
         Reply(op, flags, code, hw), UNCHANGED <<swVars, hwVars>>
  PROVE  IInv'
<1>1. cdb' \in Cdbs
  BY AnswerType DEF Reply
<1> QED
  BY <1>1 DEF Reply, swVars, hwVars, appVars, IInv, TypeOK, StatesAgree, BusyWhileAway

(* IntelgbeUndiInitialize runs on a device that was not given away; one    *)
(* that fails leaves the driver STARTED.                                   *)
LEMMA UndiInitializeIInv ==
  ASSUME IInv, NEW detect \in BOOLEAN, UndiInitialize(detect)
  PROVE  IInv'
<1>1. CASE State = "INITIALIZED"
  BY <1>1, ReplyIInv DEF UndiInitialize, Calls, OpCodes, MustBeStarted, Flags, Codes
<1>2. CASE State # "INITIALIZED"
  <2>1. PICK ok \in BOOLEAN :
          /\ Inititialize("Initialize", ok)
          /\ CableDetect' = detect
          /\ IF detect
             THEN /\ State' = "STARTED"
                  /\ Reply("Initialize", IF ok THEN "COMPLETE_NO_MEDIA" ELSE "FAILED_NO_MEDIA",
                           "NOT_STARTED", TRUE)
             ELSE /\ State' = IF ok THEN "INITIALIZED" ELSE State
                  /\ Reply("Initialize", "COMPLETE", IF ok THEN "SUCCESS" ELSE "NOT_STARTED", TRUE)
          /\ UNCHANGED <<DriverBusy, hwAddr, mcast>>
    BY <1>2 DEF UndiInitialize
  <2>2. cdb' \in Cdbs
    <3>1. PICK flags \in Flags, code \in Codes : Reply("Initialize", flags, code, TRUE)
      BY <2>1 DEF Flags, Codes
    <3> QED
      BY <3>1, AnswerType DEF Reply, Calls, OpCodes, MustBeStarted
  <2>3. owner = "undi" /\ UNCHANGED <<owner, restart>>
    BY <2>1 DEF UndiInitialize, Busy, IInv, TypeOK, StatesAgree, BusyWhileAway, Reply, appVars
  <2>4. TypeOK'
    BY <2>1, <2>2, <2>3 DEF IInv, TypeOK, Inititialize, UndiInitialize
  <2>5. StatesAgree'
    BY <2>1, <2>3 DEF IInv, TypeOK, StatesAgree, BusyWhileAway, Inititialize
  <2> QED
    BY <2>4, <2>5 DEF IInv
<1> QED
  BY <1>1, <1>2

(* The commands.                                                           *)
LEMMA CommandIInv == IInv /\ Command => IInv'
<1> SUFFICES ASSUME IInv, Command PROVE IInv'
  OBVIOUS
<1>1. ASSUME NEW op \in OpCodes, BadCdb(op) \/ WrongState(op) \/ UndiBusy(op) PROVE IInv'
  BY <1>1, RefuseIInv DEF BadCdb, WrongState, UndiBusy, Codes
<1>2. ASSUME NEW op \in NoEffect, UndiNoEffect(op) PROVE IInv'
  <2>1. op \in Calls
    BY DEF NoEffect, Inquiries, Stubs, Translations, Calls, OpCodes, AnyState, MustBeStarted,
           MustBeInitialized
  <2> QED
    BY <1>2, <2>1, ReplyIInv DEF UndiNoEffect, Flags, Codes
<1>3. CASE UndiStart
  <2>1. PICK flags \in Flags, code \in Codes : Reply("Start", flags, code, FALSE)
    BY <1>3 DEF UndiStart, Refuse, Flags, Codes
  <2>2. cdb' \in Cdbs
    BY <2>1, AnswerType DEF Reply, Calls, OpCodes, AnyState
  <2>3. State' \in {State, "STARTED"} /\ UNCHANGED <<DriverBusy, HwInitialized, ReceiveStarted,
                                                      CableDetect, addr, hwVars, appVars>>
    BY <1>3, <2>1 DEF UndiStart, Refuse, Reply, swVars
  <2> QED
    BY <2>2, <2>3 DEF IInv, TypeOK, StatesAgree, BusyWhileAway, hwVars, appVars
<1>4. ASSUME NEW detect \in BOOLEAN, UndiInitialize(detect) PROVE IInv'
  BY <1>4, UndiInitializeIInv
<1>5. CASE UndiRecFilter
  <2>1. cdb' \in Cdbs
    BY <1>5 DEF UndiRecFilter, Reply, Answer, Cdbs, Calls, OpCodes, MustBeInitialized, Flags, Codes
  <2> QED
    BY <1>5, <2>1 DEF UndiRecFilter, Reply, swVars, appVars, IInv, TypeOK, StatesAgree, BusyWhileAway
<1>6. ASSUME NEW a \in Addresses, UndiStnAddr(a) PROVE IInv'
  <2>1. cdb' \in Cdbs
    BY <1>6 DEF UndiStnAddr, Reply, Answer, Cdbs, Calls, OpCodes, MustBeInitialized, Flags, Codes
  <2> QED
    BY <1>6, <2>1 DEF UndiStnAddr, Reply, hwVars, appVars, IInv, TypeOK, StatesAgree, BusyWhileAway
<1>7. CASE UndiStatus
  BY <1>7, ReplyIInv DEF UndiStatus, Calls, OpCodes, MustBeInitialized, Flags, Codes
<1>8. CASE UndiTransmit
  BY <1>8, ReplyIInv DEF UndiTransmit, Calls, OpCodes, MustBeInitialized, Flags, Codes
<1>9. CASE UndiReceive
  BY <1>9, ReplyIInv DEF UndiReceive, Calls, OpCodes, MustBeInitialized, Flags, Codes
<1> QED
  BY <1>1, <1>2, <1>3, <1>4, <1>5, <1>6, <1>7, <1>8, <1>9 DEF Command

(* StopDriver, the diagnostic application and StartDriver.                 *)
LEMMA DriverStopIInv ==
  ASSUME RestartReliable, IInv, DriverStop
  PROVE  IInv'
<1>1. CASE StopDriver
  BY <1>1 DEF StopDriver, hwVars, IInv, TypeOK, StatesAgree, BusyWhileAway
<1>2. CASE AppUsesDevice
  BY <1>2 DEF AppUsesDevice, swVars, appVars, IInv, TypeOK, StatesAgree, BusyWhileAway
<1>3. CASE StartDriver
  BY <1>3 DEF StartDriver, hwVars, IInv, TypeOK, StatesAgree, BusyWhileAway
<1>4. CASE StartDriverInit
  <2>1. Inititialize("StartDriver", TRUE)
    BY <1>4 DEF StartDriverInit, Inititialize, RestartReliable
  <2> QED
    BY <1>4, <2>1 DEF StartDriverInit, Inititialize, IInv, TypeOK, StatesAgree, BusyWhileAway
<1>5. CASE StartDriverFinish
  BY <1>5 DEF StartDriverFinish, hwVars, IInv, TypeOK, StatesAgree, BusyWhileAway
<1> QED
  BY <1>1, <1>2, <1>3, <1>4, <1>5 DEF DriverStop

LEMMA NextIInv == RestartReliable /\ IInv /\ [Next]_vars => IInv'
<1> SUFFICES ASSUME RestartReliable, IInv, [Next]_vars PROVE IInv'
  OBVIOUS
<1>1. CASE Command
  BY <1>1, CommandIInv
<1>2. CASE GetMediaState
  BY <1>2, ReplyIInv DEF GetMediaState, Calls, Flags, Codes
<1>3. CASE DriverStop
  BY <1>3, DriverStopIInv
<1>4. CASE UNCHANGED vars
  BY <1>4 DEF vars, swVars, hwVars, appVars, IInv, TypeOK, StatesAgree, BusyWhileAway
<1> QED
  BY <1>1, <1>2, <1>3, <1>4 DEF Next

-----------------------------------------------------------------------------
(* The inductive invariant holds in every reachable state.                 *)
THEOREM IInvariance == RestartReliable => (Spec => []IInv)
<1> SUFFICES ASSUME RestartReliable PROVE Spec => []IInv
  OBVIOUS
<1>1. IInv /\ [Next]_vars => IInv'
  BY NextIInv
<1> QED
  BY <1>1, InitIInv, PTL DEF Spec

(* A driver that says INITIALIZED and takes commands has a device that     *)
(* runs, whatever the application left of it and however often Initialize  *)
(* has failed (IntelgbeUndiInitialize, StartDriver).                       *)
THEOREM InitializedMeansRunningHolds == RestartReliable => (Spec => []InitializedMeansRunning)
<1> SUFFICES ASSUME RestartReliable PROVE Spec => []InitializedMeansRunning
  OBVIOUS
<1>1. IInv => InitializedMeansRunning
  BY DEF IInv, StatesAgree, BusyWhileAway, InitializedMeansRunning
<1> QED
  BY <1>1, IInvariance, PTL

(* DriverBusy is set exactly while the driver is stopped, also if the      *)
(* device could not be initialised again: StopDriver and StartDriver alone *)
(* write it.                                                               *)
LEMMA BusyWhileAwayStep == BusyWhileAway /\ [Next]_vars => BusyWhileAway'
<1> SUFFICES ASSUME BusyWhileAway, [Next]_vars PROVE BusyWhileAway'
  OBVIOUS
<1>1. CASE Command
  <2>1. UNCHANGED <<DriverBusy, owner>>
    <3>1. ASSUME NEW op \in OpCodes, BadCdb(op) \/ WrongState(op) \/ UndiBusy(op)
          PROVE  UNCHANGED <<DriverBusy, owner>>
      BY <3>1 DEF BadCdb, WrongState, UndiBusy, Refuse, Reply, swVars, appVars
    <3>2. ASSUME NEW op \in NoEffect, UndiNoEffect(op) PROVE UNCHANGED <<DriverBusy, owner>>
      BY <3>2 DEF UndiNoEffect, Reply, swVars, appVars
    <3>3. CASE UndiStart
      BY <3>3 DEF UndiStart, Refuse, Reply, swVars, appVars
    <3>4. ASSUME NEW detect \in BOOLEAN, UndiInitialize(detect)
          PROVE  UNCHANGED <<DriverBusy, owner>>
      BY <3>4 DEF UndiInitialize, Reply, swVars, appVars
    <3>5. CASE UndiRecFilter \/ UndiStatus \/ UndiTransmit \/ UndiReceive
      BY <3>5 DEF UndiRecFilter, UndiStatus, UndiTransmit, UndiReceive, Reply, swVars, appVars
    <3>6. ASSUME NEW a \in Addresses, UndiStnAddr(a) PROVE UNCHANGED <<DriverBusy, owner>>
      BY <3>6 DEF UndiStnAddr, Reply, appVars
    <3> QED
      BY <1>1, <3>1, <3>2, <3>3, <3>4, <3>5, <3>6 DEF Command
  <2> QED
    BY <2>1 DEF BusyWhileAway
<1>2. CASE GetMediaState \/ UNCHANGED vars
  BY <1>2 DEF GetMediaState, Reply, vars, swVars, appVars, BusyWhileAway
<1>3. CASE DriverStop
  BY <1>3 DEF DriverStop, StopDriver, AppUsesDevice, StartDriver, StartDriverInit,
              StartDriverFinish, swVars, appVars, BusyWhileAway
<1> QED
  BY <1>1, <1>2, <1>3 DEF Next

(* From StopDriver to the end of StartDriver no UNDI command reaches the   *)
(* device: each of those that would has asked DriverBusy before.           *)
THEOREM NoCommandDuringStopHolds == Spec => NoCommandDuringStop
<1> DEFINE Reaches == cdb' # cdb /\ cdb'.OpCode \in OpCodes /\ cdb'.hw
<1>1. ASSUME BusyWhileAway, Next, Reaches PROVE owner = "undi"
  <2> USE <1>1
  <2>1. ASSUME NEW op \in OpCodes, BadCdb(op) \/ WrongState(op) \/ UndiBusy(op) PROVE FALSE
    BY <2>1 DEF BadCdb, WrongState, UndiBusy, Refuse, Reply, Answer
  <2>2. ASSUME NEW op \in NoEffect, UndiNoEffect(op) PROVE FALSE
    BY <2>2 DEF UndiNoEffect, Reply, Answer
  <2>3. CASE UndiStart
    BY <2>3 DEF UndiStart, Refuse, Reply, Answer
  <2>4. ASSUME ~Busy PROVE owner = "undi"
    BY <2>4 DEF Busy, BusyWhileAway
  <2>5. ASSUME NEW a \in Addresses, UndiStnAddr(a) PROVE FALSE
    BY <2>5 DEF UndiStnAddr, Reply, Answer
  <2>6. CASE GetMediaState
    BY <2>6 DEF GetMediaState, Reply, Answer, OpCodes, AnyState, MustBeStarted, MustBeInitialized
  <2>7. CASE DriverStop
    BY <2>7 DEF DriverStop, StopDriver, AppUsesDevice, StartDriver, StartDriverInit, StartDriverFinish
  <2> QED
    BY <2>1, <2>2, <2>3, <2>4, <2>5, <2>6, <2>7
    DEF Next, Command, UndiInitialize, UndiRecFilter, UndiStatus, UndiTransmit, UndiReceive
<1>2. BusyWhileAway /\ [Next]_vars => [Reaches => owner = "undi"]_vars
  BY <1>1
<1>3. Init => BusyWhileAway
  BY DEF Init, BusyWhileAway
<1> QED
  BY <1>2, <1>3, BusyWhileAwayStep, PTL DEF NoCommandDuringStop, Spec
=============================================================================
