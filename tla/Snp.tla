-------------------------------- MODULE Snp ---------------------------------
(***************************************************************************)
(* The Simple Network Protocol driver (NetworkPkg/SnpDxe) on top of the    *)
(* UNDI: it binds to the child handle of one adapter, and turns the calls  *)
(* of a network stack into UNDI commands.  The commands are those of       *)
(* UndiApi, the transmit path is the abstract queue TxQueue (TxRing        *)
(* implements it), and a diagnostic application may stop the driver        *)
(* between any two calls.                                                  *)
(*                                                                         *)
(* A call of the SNP is a program of steps, one UNDI command each with     *)
(* what the SNP does around it.  It runs at TPL_CALLBACK, so no other call *)
(* and no step of the application falls into it; the device goes on        *)
(* between the steps.                                                      *)
(***************************************************************************)
EXTENDS Integers, Sequences, SequencesExt, FiniteSets

CONSTANTS
  InitMayFail,   \* of UndiApi
  Buffers,       \* transmit buffers of the network stack
  Capacity,      \* frames the transmit ring takes
  MaxXmit,       \* MAX_XMIT_BUFFERS, buffers in one status block
  MaxTx,         \* SNP_MAX_TX_BUFFER_NUM, limit of the recycled array
  NoBuf, NoSnp,
  Binds          \* bound on the bindings of the SNP driver to the child

ASSUME SnpAssumption == MaxXmit \in Nat \ {0} /\ MaxTx \in Nat /\ Binds \in Nat

SnpRecords ==
  [id : Nat, State : {"Stopped", "Started", "Initialized"}, filter : BOOLEAN,
   MediaPresent : BOOLEAN, CurrentAddress : {"perm", "set"}, wanted : BOOLEAN, buffers : Int,
   events : Int, RecycledTxBuf : Seq(Buffers), MaxRecycledTxBuf : Nat]

ASSUME NoSnpAssumption == NoSnp \notin SnpRecords

VARIABLES
  State, DriverBusy, HwInitialized, ReceiveStarted, CableDetect, addr,
  dma, hwAddr, mcast, owner, restart, cdb,        \* of UndiApi
  queue,      \* buffers the UNDI has accepted and not given back
  nsent,      \* how many of them it takes for transmitted
  snp,        \* the SNP_DRIVER, or NoSnp
  call,       \* the call in progress and what is left of it, or Idle
  binds,      \* bindings so far
  uniqueId,   \* GigAdapter->UniqueId: the SNP_DRIVER of the UNDI's callbacks
  given,      \* buffers the stack has handed over and not got back
  rx,         \* is a frame waiting in the receive ring?
  signalled   \* WaitForPacket has been signalled

undiVars == <<State, DriverBusy, HwInitialized, ReceiveStarted, CableDetect, addr,
              dma, hwAddr, mcast, owner, restart, cdb>>
vars == <<undiVars, queue, nsent, snp, call, binds, uniqueId, given, rx, signalled>>

Undi == INSTANCE UndiApi
Tx   == INSTANCE TxQueue

Call(name, todo, b, a) == [name |-> name, todo |-> todo, buf |-> b, addr |-> a]
Simple(name, todo) == Call(name, todo, NoBuf, "perm")
Idle == Simple("none", <<>>)

\* The SNP_DRIVER SimpleNetworkDriverStart allocates.
NewSnp(id) ==
  [id |-> id, State |-> "Stopped", filter |-> FALSE, MediaPresent |-> FALSE,
   CurrentAddress |-> "perm", wanted |-> FALSE, buffers |-> 0, events |-> 0,
   RecycledTxBuf |-> <<>>, MaxRecycledTxBuf |-> MaxXmit]

Init ==
  /\ Undi!Init
  /\ Tx!Init
  /\ snp = NoSnp /\ call = Idle /\ binds = 0 /\ uniqueId = 0
  /\ given = {} /\ rx = FALSE /\ signalled = FALSE

-----------------------------------------------------------------------------
(* The calls somebody can make now.  Each function of the protocol looks   *)
(* at Mode.State and returns an error with nothing done unless it is the   *)
(* one named here.                                                         *)

InState(s) == snp # NoSnp /\ snp.State = s

SimpleNetworkDriverStart ==
  {Simple("Bind", <<"PxeStart", "GetInitInfo", "PxeInit", "PxeGetStnAddr", "PxeShutdown",
                    "PxeStop", "Install">>)}
SimpleNetworkDriverStop == {Simple("Unbind", <<"PxeShutdown", "PxeStop", "Delete">>)}

SnpUndi32Start      == {Simple("Start", <<"PxeStart">>)}
SnpUndi32Stop       == {Simple("Stop", <<"PxeStop">>)}
SnpUndi32Initialize == {Simple("Initialize", <<"PxeInitDetect", "PxeInit", "PxeGetStatus">>)}
SnpUndi32Shutdown   == {Simple("Shutdown", <<"PxeShutdown">>)}
SnpUndi32Reset      == {Simple("Reset", <<"PxeReset">>)}

\* Filters are enabled, disabled or both, and then read.
SnpUndi32ReceiveFilters ==
  {Simple("ReceiveFilters", <<"PxeRecvFilter", "PxeRecvFilterRead">>),
   Simple("ReceiveFilters", <<"PxeRecvFilter", "PxeRecvFilter", "PxeRecvFilterRead">>)}

SnpUndi32StationAddress ==
  {Call("StationAddress", <<"PxeSetStnAddr", "PxeGetStnAddr">>, NoBuf, a) : a \in Undi!Addresses}

\* With TxBuf, or without: the interrupt status alone.
Recycling == Simple("Recycle", <<"PxeGetStatus">>)
SnpUndi32GetStatus == {Recycling, Simple("GetStatus", <<"PxeGetStatus">>)}

\* The stack hands over a buffer that is its own, with or without header.
SnpUndi32Transmit ==
  {Call("Transmit", todo, b, "perm") :
     b \in Buffers \ given, todo \in {<<"PxeFillHeader", "PxeTransmit">>, <<"PxeTransmit">>}}

SnpUndi32Receive == IF snp.filter THEN {Simple("Receive", <<"PxeReceive">>)} ELSE {}

Requests ==
  IF snp = NoSnp THEN IF binds < Binds THEN SimpleNetworkDriverStart ELSE {}
  ELSE SimpleNetworkDriverStop \cup
       CASE snp.State = "Stopped" -> SnpUndi32Start
         [] snp.State = "Started" -> SnpUndi32Stop \cup SnpUndi32Initialize
         [] snp.State = "Initialized" ->
              SnpUndi32Shutdown \cup SnpUndi32Reset \cup SnpUndi32ReceiveFilters
                \cup SnpUndi32StationAddress \cup SnpUndi32GetStatus
                \cup SnpUndi32Transmit \cup SnpUndi32Receive

\* The call whose next step is taken.
Pending == IF call = Idle THEN Requests ELSE {call}

-----------------------------------------------------------------------------
(* What follows a step of call c.                                          *)

\* SimpleNetworkDriverStart undoes what it has done; Unbind goes on, and
\* so does Initialize when it fails with cable detection; every other
\* program stops at a command that fails.
OnError(c) ==
  CASE c.name = "Bind" /\ Head(c.todo) \in {"PxeStart", "Install"} -> <<"Delete">>
    [] c.name = "Bind" /\ Head(c.todo) \in {"GetInitInfo", "PxeInit"} -> <<"PxeStop", "Delete">>
    [] c.name = "Bind" /\ Head(c.todo) = "PxeGetStnAddr" -> <<"PxeShutdown", "PxeStop", "Delete">>
    [] OTHER ->
         IF c.name \in {"Bind", "Unbind"} \/ Head(c.todo) = "PxeInitDetect" THEN Tail(c.todo)
         ELSE <<>>

OnSuccess(c) == IF Head(c.todo) = "PxeInitDetect" THEN <<>> ELSE Tail(c.todo)

Continue(c, ok) ==
  LET todo == IF ok THEN OnSuccess(c) ELSE OnError(c)
  IN  call' = IF todo = <<>> THEN Idle ELSE [c EXCEPT !.todo = todo]

Succeeded == cdb'.StatCode = "SUCCESS"

-----------------------------------------------------------------------------
(* The steps.                                                              *)

NoTraffic == UNCHANGED <<queue, nsent, given, rx, signalled>>

\* The callbacks and the id go to an UNDI that is STOPPED; any other has
\* answered before it looks at them.
PxeStart(c) ==
  /\ Head(c.todo) = "PxeStart"
  /\ Undi!UndiStart
  /\ cdb'.StatCode # "INVALID_CDB"
  /\ LET s == IF c.name = "Bind" THEN NewSnp(binds + 1) ELSE snp
     IN  /\ snp' = IF Succeeded THEN [s EXCEPT !.State = "Started"] ELSE s
         /\ uniqueId' = IF State = "STOPPED" THEN s.id ELSE uniqueId
  /\ binds' = IF c.name = "Bind" THEN binds + 1 ELSE binds
  /\ Continue(c, Succeeded)
  /\ NoTraffic

\* A command without effect on the UNDI.
Ask(c, step, op) ==
  /\ Head(c.todo) = step
  /\ Undi!UndiNoEffect(op) \/ Undi!WrongState(op)
  /\ Continue(c, Succeeded)
  /\ UNCHANGED <<binds, uniqueId>> /\ NoTraffic

PxeReset(c)      == Ask(c, "PxeReset", "Reset") /\ UNCHANGED snp
PxeFillHeader(c) == Ask(c, "PxeFillHeader", "FillHeader") /\ UNCHANGED snp

\* SimpleNetworkDriverStart then fills in the mode.
GetInitInfo(c) ==
  /\ Ask(c, "GetInitInfo", "GetInitInfo")
  /\ snp' = IF Succeeded THEN [snp EXCEPT !.State = "Stopped"] ELSE snp

PxeStop(c) ==
  /\ Head(c.todo) = "PxeStop"
  /\ Undi!UndiNoEffect("Stop") \/ Undi!WrongState("Stop")
  /\ snp' = IF Succeeded THEN [snp EXCEPT !.State = "Stopped"] ELSE snp
  /\ Continue(c, Succeeded)
  /\ UNCHANGED <<binds, uniqueId>> /\ NoTraffic

\* SnpUndi32Initialize makes the event, resets the mode and computes the
\* size (extra space is wanted or not) before it asks the UNDI.
Prepared(c, extra) ==
  IF c.name = "Initialize" /\ Head(c.todo) = "PxeInitDetect"
  THEN [snp EXCEPT !.events = @ + 1, !.filter = FALSE, !.CurrentAddress = "perm", !.wanted = extra]
  ELSE snp

Size(s) == IF s.wanted THEN 1 ELSE 0

\* The successful end of PxeInit, with the buffer it has allocated.
Initialized(s, detect) ==
  [s EXCEPT !.State = "Initialized", !.buffers = @ + Size(s),
            !.MediaPresent = IF detect THEN cdb'.StatFlags = "COMPLETE" ELSE @]

\* Mutant: the buffer of an initialisation that failed stays allocated.
NotInitializedLeaks(c, s, detect) ==
  [s EXCEPT !.MediaPresent = @ /\ ~detect, !.buffers = @ + Size(s),
            !.events = IF c.name = "Initialize" /\ ~detect THEN @ - 1 ELSE @]

\* Its end with an error: the buffer is freed again, and Initialize closes
\* the event if this was its second attempt.
NotInitialized(c, s, detect) ==
  [s EXCEPT !.MediaPresent = @ /\ ~detect,
            !.events = IF c.name = "Initialize" /\ ~detect THEN @ - 1 ELSE @]

\* Mutant: a command that was carried out counts, whatever its code.
PxeInitDoneCarried == cdb'.StatFlags \in {"COMPLETE", "COMPLETE_NO_MEDIA", "FAILED"}

PxeInitDone == Succeeded /\ cdb'.StatFlags \in {"COMPLETE", "COMPLETE_NO_MEDIA"}

\* If intelgbe_init_hw runs, the frames in the receive ring are gone.
PxeInit(c, step, detect) ==
  /\ Head(c.todo) = step
  /\ \E extra \in IF detect THEN BOOLEAN ELSE {FALSE} :
       LET s == Prepared(c, extra) IN
       \/ /\ \/ Undi!UndiInitialize(detect)
             \/ Undi!UndiBusy("Initialize")
             \/ Undi!WrongState("Initialize")
          /\ snp' = IF PxeInitDone THEN Initialized(s, detect) ELSE NotInitialized(c, s, detect)
          /\ Continue(c, PxeInitDone)
       \/ /\ s.wanted    \* AllocateBuffer fails: the UNDI is not asked
          /\ snp' = NotInitialized(c, s, detect)
          /\ Continue(c, FALSE)
          /\ UNCHANGED undiVars
  /\ rx' = (rx /\ HwInitialized' = HwInitialized)
  /\ UNCHANGED <<queue, nsent, given, binds, uniqueId, signalled>>

\* PxeShutdown frees the buffer if the UNDI agrees; SnpUndi32Shutdown then
\* resets the mode and closes the event, whatever it has answered.
PxeShutdown(c) ==
  /\ Head(c.todo) = "PxeShutdown"
  /\ Undi!UndiNoEffect("Shutdown") \/ Undi!WrongState("Shutdown")
  /\ LET s == IF Succeeded THEN [snp EXCEPT !.buffers = 0, !.wanted = FALSE] ELSE snp
     IN  snp' = IF c.name = "Shutdown"
                THEN [s EXCEPT !.State = "Started", !.filter = FALSE,
                               !.CurrentAddress = "perm", !.events = @ - 1]
                ELSE s
  /\ Continue(c, Succeeded)
  /\ UNCHANGED <<binds, uniqueId>> /\ NoTraffic

PxeSetStnAddr(c) ==
  /\ Head(c.todo) = "PxeSetStnAddr"
  /\ Undi!UndiStnAddr(c.addr) \/ Undi!WrongState("StnAddr")
  /\ Continue(c, Succeeded)
  /\ UNCHANGED <<snp, binds, uniqueId>> /\ NoTraffic

PxeGetStnAddr(c) ==
  /\ Head(c.todo) = "PxeGetStnAddr"
  /\ Undi!UndiStnAddr(addr) \/ Undi!WrongState("StnAddr")
  /\ snp' = IF Succeeded THEN [snp EXCEPT !.CurrentAddress = addr,
                                          !.MediaPresent = @ /\ c.name # "Bind"] ELSE snp
  /\ Continue(c, Succeeded)
  /\ UNCHANGED <<binds, uniqueId>> /\ NoTraffic

\* PxeRecvFilterEnable, Disable and Read: to the UNDI they are the same
\* command, and its answer names three filters that are on.
PxeRecvFilter(c, step) ==
  /\ Head(c.todo) = step
  /\ Undi!UndiRecFilter \/ Undi!UndiBusy("RecFilter") \/ Undi!WrongState("RecFilter")
  /\ snp' = IF Succeeded /\ step = "PxeRecvFilterRead" THEN [snp EXCEPT !.filter = TRUE] ELSE snp
  /\ Continue(c, Succeeded)
  /\ UNCHANGED <<binds, uniqueId>> /\ NoTraffic

\* SimpleNetworkDriverStart installs the protocol last; it may fail.
Install(c) ==
  /\ Head(c.todo) = "Install"
  /\ \E ok \in BOOLEAN : Continue(c, ok)
  /\ UNCHANGED <<undiVars, snp, binds, uniqueId>> /\ NoTraffic

\* The SNP_DRIVER is freed, the array of recycled buffers with it: nobody is
\* left to ask for what it held, and only the UNDI's buffers stay out.
Delete(c) ==
  /\ Head(c.todo) = "Delete"
  /\ snp' = NoSnp
  /\ given' = ToSet(queue)
  /\ Continue(c, TRUE)
  /\ UNCHANGED <<undiVars, queue, nsent, binds, uniqueId, rx, signalled>>

-----------------------------------------------------------------------------
(* GetStatus: transmit buffers on their way back to the stack.             *)

Smaller(m, n) == IF m < n THEN m ELSE n

\* Mutant: buffers are asked for with every call.
AskForBuffersAlways(c) == c.name = "Recycle"

\* SnpUndi32GetStatus asks the UNDI for buffers when its array is empty.
AskForBuffers(c) == c.name = "Recycle" /\ snp.RecycledTxBuf = <<>>

\* IntelgbeUndiStatus and IntelgbeFreeTxBuffers: as many addresses as are
\* done and fit in the block.
Completed == Smaller(nsent, MaxXmit)

\* Mutant: the last entry of the block is not looked at.
EntriesReadButOne(n) == Smaller(n, MaxXmit - 1)

\* The entries of the block PxeGetStatus looks at.
EntriesRead(n) == Smaller(n, MaxXmit)

\* PxeGetStatus stores the addresses of the block, the array grown by one
\* increment if need be; those that find no room are dropped.
Stored(got, grown) ==
  snp.RecycledTxBuf
    \o SubSeq(got, 1, Smaller(Len(got),
                              snp.MaxRecycledTxBuf + grown - Len(snp.RecycledTxBuf)))

Growths(got) ==
  IF Len(snp.RecycledTxBuf) + Len(got) <= snp.MaxRecycledTxBuf THEN {0}
  ELSE {0} \cup (IF snp.MaxRecycledTxBuf + MaxXmit < MaxTx THEN {MaxXmit} ELSE {})

\* PxeGetStatus, and the end of SnpUndi32GetStatus: the newest recycled
\* buffer goes to the caller, with an error too.
PxeGetStatus(c) ==
  /\ Head(c.todo) = "PxeGetStatus"
  /\ Undi!UndiStatus \/ Undi!UndiBusy("Status") \/ Undi!WrongState("Status")
  /\ LET n   == IF Succeeded /\ AskForBuffers(c) THEN Completed ELSE 0
         got == SubSeq(queue, 1, EntriesRead(n))
     IN  /\ Tx!Return(n)
         /\ \E grown \in Growths(got), media \in BOOLEAN :
              LET kept  == Stored(got, grown)
                  ok    == Succeeded /\ Len(kept) = Len(snp.RecycledTxBuf) + Len(got)
                  taken == c.name = "Recycle" /\ kept # <<>>
              IN  /\ snp' = [snp EXCEPT !.RecycledTxBuf = IF taken THEN Front(kept) ELSE kept,
                                        !.MaxRecycledTxBuf = @ + grown,
                                        !.MediaPresent = IF ok THEN media ELSE @]
                  /\ given' = IF taken THEN given \ {Last(kept)} ELSE given
                  /\ Continue(c, ok)
  /\ UNCHANGED <<binds, uniqueId, rx, signalled>>

-----------------------------------------------------------------------------
(* Transmit and Receive.                                                   *)

PxeTransmit(c) ==
  /\ Head(c.todo) = "PxeTransmit"
  /\ Undi!UndiTransmit \/ Undi!UndiBusy("Transmit") \/ Undi!WrongState("Transmit")
  /\ IF Succeeded
     THEN /\ Tx!Accept(c.buf)
          /\ given' = given \cup {c.buf}
     ELSE /\ cdb'.StatCode = "QUEUE_FULL" => Len(queue) = Capacity
          /\ UNCHANGED <<queue, nsent, given>>
  /\ Continue(c, Succeeded)
  /\ UNCHANGED <<snp, binds, uniqueId, rx, signalled>>

PxeReceive(c) ==
  /\ Head(c.todo) = "PxeReceive"
  /\ Undi!UndiReceive \/ Undi!UndiBusy("Receive") \/ Undi!WrongState("Receive")
  /\ Succeeded => rx
  /\ cdb'.StatCode = "NO_DATA" => ~rx
  /\ rx' = (rx /\ ~Succeeded)
  /\ snp' = [snp EXCEPT !.MediaPresent = @ \/ Succeeded]
  /\ Continue(c, Succeeded)
  /\ UNCHANGED <<queue, nsent, binds, uniqueId, given, signalled>>

\* SnpWaitForPacketNotify, run by the firmware between two calls when
\* somebody waits for the event: a GET_STATUS with a block of two words.
\* IntelgbeUndiStatus wants room for two addresses, and writes no length
\* of the next frame into any block.
WaitBlock  == 8
LeastBlock == 16
RxFrameLen == 0

WaitForPacketNotify ==
  /\ call = Idle
  /\ InState("Initialized")
  /\ \/ Undi!UndiBusy("Status")
     \/ ~DriverBusy /\ IF WaitBlock < LeastBlock THEN Undi!BadCdb("Status") ELSE Undi!UndiStatus
  /\ signalled' = (signalled \/ (Succeeded /\ RxFrameLen # 0))
  /\ UNCHANGED <<queue, nsent, snp, call, binds, uniqueId, given, rx>>

-----------------------------------------------------------------------------
(* The device, and the diagnostic application between two calls.           *)

Send   == dma /\ Tx!Send
          /\ UNCHANGED <<undiVars, snp, call, binds, uniqueId, given, rx, signalled>>
Arrive == dma /\ ~rx /\ rx' = TRUE
          /\ UNCHANGED <<undiVars, queue, nsent, snp, call, binds, uniqueId, given, signalled>>

StopOrStart ==
  /\ call = Idle
  /\ Undi!StopDriver \/ Undi!AppUsesDevice \/ Undi!StartDriver \/ Undi!StartDriverFinish
  /\ UNCHANGED <<queue, nsent, snp, call, binds, uniqueId, given, rx, signalled>>

\* intelgbe_init_hw clears the descriptors: every buffer in the ring counts
\* as transmitted, and the frames in the receive ring are gone (Restart).
StartDriverInit ==
  /\ call = Idle
  /\ Undi!StartDriverInit
  /\ nsent' = Len(queue)
  /\ rx' = FALSE
  /\ UNCHANGED <<queue, snp, call, binds, uniqueId, given, signalled>>

-----------------------------------------------------------------------------
Do(c) ==
  \/ PxeStart(c) \/ PxeStop(c) \/ PxeShutdown(c)
  \/ GetInitInfo(c) \/ PxeReset(c) \/ PxeFillHeader(c)
  \/ PxeInit(c, "PxeInit", FALSE) \/ PxeInit(c, "PxeInitDetect", TRUE)
  \/ Install(c) \/ Delete(c)
  \/ PxeSetStnAddr(c) \/ PxeGetStnAddr(c)
  \/ PxeRecvFilter(c, "PxeRecvFilter") \/ PxeRecvFilter(c, "PxeRecvFilterRead")
  \/ PxeGetStatus(c) \/ PxeTransmit(c) \/ PxeReceive(c)

SnpCall == \E c \in Pending : Do(c)

Next ==
  \/ SnpCall \/ WaitForPacketNotify
  \/ Send \/ Arrive
  \/ StopOrStart \/ StartDriverInit

Spec == Init /\ [][Next]_vars

(* A call runs to its end, and the stack asks for recycled buffers again   *)
(* and again, as MnpRecycleTxBuf does.                                     *)
FairSpec ==
  /\ Spec
  /\ WF_vars(call # Idle /\ SnpCall)
  /\ SF_vars(call = Idle /\ InState("Initialized") /\ PxeGetStatus(Recycling))

(* And somebody waits for the event.                                       *)
WaitingSpec == FairSpec /\ SF_vars(WaitForPacketNotify)

-----------------------------------------------------------------------------
(* The type invariant.                                                     *)
TypeOK ==
  /\ Undi!TypeOK
  /\ queue \in Seq(Buffers) /\ nsent \in 0 .. Len(queue)
  /\ snp # NoSnp =>
       /\ snp.State \in {"Stopped", "Started", "Initialized"}
       /\ snp.events \in 0 .. 1 /\ snp.buffers \in 0 .. 1
       /\ snp.RecycledTxBuf \in Seq(Buffers)
  /\ binds \in 0 .. Binds /\ uniqueId \in 0 .. Binds
  /\ given \subseteq Buffers
  /\ rx \in BOOLEAN /\ signalled \in BOOLEAN

Recycled == IF snp = NoSnp THEN <<>> ELSE snp.RecycledTxBuf

(* Every buffer the stack has handed over is in the UNDI's ring or in the  *)
(* array of recycled buffers, in one of them and once: the two sizes of    *)
(* the status block, the growing array and the restart of a stopped driver *)
(* lose none and return none twice.                                        *)
Accounted ==
  LET all == queue \o Recycled
  IN  given = ToSet(all) /\ Cardinality(given) = Len(all)

(* An SNP that says Initialized or Started has an UNDI that can serve it,  *)
(* so that none of its commands is refused for the UNDI's state: after a   *)
(* binding that failed, a driver stopped in between, any order of calls.   *)
SnpMatchesUndi ==
  snp # NoSnp =>
    /\ snp.State = "Initialized" => State = "INITIALIZED"
    /\ snp.State = "Started" => State # "STOPPED"

(* Between two calls, an Initialized SNP has one event and the buffer it   *)
(* was asked for, and any other has none: an Initialize that fails half    *)
(* way gives back what it took, one that succeeds at the second attempt    *)
(* holds it once.                                                          *)
ResourcesMatchState ==
  snp # NoSnp /\ call = Idle =>
    IF snp.State = "Initialized"
    THEN snp.events = 1 /\ snp.buffers = (IF snp.wanted THEN 1 ELSE 0)
    ELSE snp.events = 0 /\ snp.buffers = 0

(* A stack that keeps asking gets every recycled buffer: the array hands   *)
(* out its newest entry first, and yet no entry stays at its bottom.       *)
RecycledComesBack ==
  \A b \in Buffers :
    b \in ToSet(Recycled) ~> b \notin ToSet(Recycled) \/ ~InState("Initialized")

(* "Event used with WaitForEvent() to wait for a packet to be received"    *)
(* (EFI_SIMPLE_NETWORK_PROTOCOL): whoever waits while a frame lies in the  *)
(* ring, and the driver is not stopped, is woken.                          *)
PacketWakesWaiter ==
  rx /\ InState("Initialized") /\ ~DriverBusy
    ~> signalled \/ ~rx \/ ~InState("Initialized") \/ DriverBusy

(* "Pending transmits and receives are lost" (SnpUndi32Shutdown): the UNDI *)
(* holds no buffer of a stack whose interface is shut down, to read it or  *)
(* to return it after the next Initialize.                                 *)
PendingLost == call = Idle /\ ~InState("Initialized") => queue = <<>>

(* A GetStatus that fails returns no buffer; MnpRecycleTxBuf does not look *)
(* for one.                                                                *)
ErrorReturnsNothing ==
  [][given' # given /\ cdb'.OpCode = "Status" => cdb'.StatCode = "SUCCESS"]_vars

(* An Initialize that reports media has had the UNDI look at the link.     *)
MediaSeen ==
  [][InState("Started") /\ InState("Initialized")' /\ snp'.MediaPresent => cdb'.hw]_vars

(* The UNDI calls back with the id of the SNP_DRIVER that is bound.        *)
CallbacksLive == InState("Initialized") => uniqueId = snp.id

(* The address Mode reports is the one the UNDI uses.                      *)
AddressAgrees == InState("Initialized") /\ call = Idle => snp.CurrentAddress = addr

(* No event outlives the SNP_DRIVER its notification refers to.            *)
EventsClosed == [][snp # NoSnp /\ snp' = NoSnp => snp.events = 0]_vars

-----------------------------------------------------------------------------
(* The inductive invariant behind SnpMatchesUndi, ResourcesMatchState and  *)
(* Accounted.                                                              *)

WellFormed(c) == DOMAIN c = {"name", "todo", "buf", "addr"} /\ c.addr \in Undi!Addresses

Typed ==
  /\ addr \in Undi!Addresses /\ hwAddr \in Undi!Addresses
  /\ WellFormed(call)
  /\ queue \in Seq(Buffers) /\ nsent \in Nat /\ nsent <= Len(queue)
  /\ binds \in Nat
  /\ snp # NoSnp => snp \in SnpRecords /\ snp.MaxRecycledTxBuf >= MaxXmit

(* What the SNP holds: nothing, or the event and the buffer asked for.     *)
Clean   == snp.events = 0 /\ snp.buffers = 0
Fresh   == Clean /\ ~snp.wanted
Holding == snp.events = 1 /\ snp.buffers = Size(snp)

(* How far SimpleNetworkDriverStart, Initialize and the others can be when *)
(* call c has its todo left.                                               *)
Undoing == {<<"PxeShutdown", "PxeStop", "Delete">>, <<"PxeStop", "Delete">>, <<"Delete">>}

Binding(c) ==
  \/ /\ c.todo = <<"PxeStart", "GetInitInfo", "PxeInit", "PxeGetStnAddr", "PxeShutdown",
                   "PxeStop", "Install">>
     /\ snp = NoSnp
  \/ /\ c.todo = <<"GetInitInfo", "PxeInit", "PxeGetStnAddr", "PxeShutdown", "PxeStop", "Install">>
     /\ InState("Started") /\ Fresh
  \/ /\ c.todo = <<"PxeInit", "PxeGetStnAddr", "PxeShutdown", "PxeStop", "Install">>
     /\ InState("Stopped") /\ Fresh
  \/ /\ c.todo \in {<<"PxeGetStnAddr", "PxeShutdown", "PxeStop", "Install">>,
                    <<"PxeShutdown", "PxeStop", "Install">>, <<"PxeStop", "Install">>}
     /\ InState("Initialized") /\ Fresh
  \/ c.todo = <<"Install">> /\ InState("Stopped") /\ Fresh
  \/ c.todo \in Undoing /\ snp # NoSnp

Initializing(c) ==
  \/ /\ c.todo = <<"PxeInitDetect", "PxeInit", "PxeGetStatus">>
     /\ InState("Started") /\ Clean
  \/ /\ c.todo = <<"PxeInit", "PxeGetStatus">>
     /\ InState("Started") /\ snp.events = 1 /\ snp.buffers = 0
  \/ c.todo = <<"PxeGetStatus">> /\ InState("Initialized") /\ Holding

(* Calls that leave the state and what the SNP holds alone.                *)
Plain == {"Reset", "ReceiveFilters", "StationAddress", "Recycle", "GetStatus", "Transmit", "Receive"}
PlainSteps == {"PxeReset", "PxeRecvFilter", "PxeRecvFilterRead", "PxeSetStnAddr", "PxeGetStnAddr",
               "PxeGetStatus", "PxeReceive"}
Transmitting == {<<"PxeFillHeader", "PxeTransmit">>, <<"PxeTransmit">>}

Ready(c) ==
  \/ c.name = "Bind" /\ Binding(c)
  \/ c.name = "Unbind" /\ c.todo \in Undoing /\ snp # NoSnp
  \/ c.name = "Start" /\ c.todo = <<"PxeStart">> /\ InState("Stopped") /\ Clean
  \/ c.name = "Stop" /\ c.todo = <<"PxeStop">> /\ InState("Started") /\ Clean
  \/ c.name = "Initialize" /\ Initializing(c)
  \/ c.name = "Shutdown" /\ c.todo = <<"PxeShutdown">> /\ InState("Initialized") /\ Holding
  \/ /\ c.name \in Plain /\ InState("Initialized") /\ Holding
     /\ IF c.name = "Transmit"
        THEN c.todo \in Transmitting /\ c.buf \in Buffers \ given
        ELSE c.todo \in Seq(PlainSteps) \ {<<>>}

(* The same of the call in progress, or of the SNP between two calls.      *)
CallsFollow == IF call = Idle THEN ResourcesMatchState ELSE Ready(call)

(* The buffers handed over, each in one place.                             *)
HeldOnce ==
  /\ IsInjective(queue) /\ IsInjective(Recycled)
  /\ ToSet(queue) \cap ToSet(Recycled) = {}
  /\ given = ToSet(queue) \cup ToSet(Recycled)

IInv == Typed /\ SnpMatchesUndi /\ CallsFollow /\ HeldOnce
=============================================================================
