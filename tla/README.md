# TLA+ models of the Intel mGBE UNDI driver

The driver is `src/IntelUndiPkg`: a UEFI network driver for the Intel mGBE
(Synopsys DWC EQoS) Ethernet controllers, 17 C files of about 8000 lines. The
rest of `src/` is vendored EDK II, of which one driver is the UNDI's only caller:
the Simple Network Protocol driver, `NetworkPkg/SnpDxe`. This project models the
control of both in TLA+, checks it with TLC on small instances, and proves with
TLAPS, for every size of ring, table and set, all the invariants, action
properties and refinements the runs check. Liveness is TLC's alone.

Names follow the source: variables, constants and actions carry the name of the
field, macro or function they stand for. `PROJECT.json` maps each definition to
its lines.

## 1. The system

| Component | State | Operations |
|---|---|---|
| Transmit path (`Intelgbe.c`, `Dma.c`) | `cur_tx`, `dirty_tx`, the descriptors, `TxBufferMappings`, the tail pointer | `IntelgbeTransmit`, `IntelgbeFreeTxBuffers` |
| Receive path (`Intelgbe.c`) | `cur_rx`, the descriptors, the receive buffers, the tail pointers | `IntelgbeReceive` |
| UNDI command layer (`Decode.c`) | `State`, `HwInitialized`, `ReceiveStarted`, `CableDetect`, the station address | nineteen commands behind `IntelgbeUndiApiEntry` |
| Driver-stop protocol (`StartStop.c`) | `DriverBusy` | `StopDriver`, `StartDriver` |
| Driver binding (`Init.c`) | `mActiveControllers`, `mActiveChildren`, `IFcnt`, `mIntelgbeUndi32DeviceList`, the private data of each controller | Supported, Start, Stop, Unload |
| Link monitoring (`Intelgbe.c`, `intelgbe_stmmac.c`, the three PHY files) | `phy->link_up`, the MAC's speed and duplex, the PHY's latched change bit | `IsLinkUp`, `intelgbe_link_status`, `intelgbe_mac_init` |
| DMA memory (`Dma.c`, `IntelgbePciInit`) | common buffers and their mappings | allocate, map, unmap, free |
| MDIO bus (`intelgbe_stmmac.c`, `intelgbe_api.c`) | the MDIO address and data registers, the registers of SerDes, PCS and PHY | `intelgbe_mdio_read`, `intelgbe_mdio_write` |
| First-time initialisation (`Intelgbe.c`, `intelgbe_stmmac.c`, `intelgbe_phy.c`, `intelgbe_api.c`, the PHY files) | `struct intelgbe_hw`, the MAC's address and reset bit | `IntelgbeFirstTimeInit`: PHY scan, SerDes, PCS, PHY, reset |
| Simple network protocol driver (`SnpDxe`) | `Mode.State`, the recycled transmit buffers, the event, the buffer of the UNDI | bind, unbind, and the calls of the protocol |
| Device tables, adapter information, names, configuration | static tables | lookups |

How they interact. Starting a controller brings its hardware up over the MDIO
bus. The SNP driver then binds to the child handle and calls
`IntelgbeUndiApiEntry` with a command block; the entry point validates it, checks `State` and calls a handler, which
calls the transmit or receive path, or polls the link. The driver binding finds
the adapter of a command through the interface number. The transmit and receive
DMA engines share the descriptor rings with the driver: the own bit of a
descriptor says whose it is. A diagnostic application takes the device away
with `StopDriver` and gives it back with `StartDriver`, which initialises it
again under the rings as they are.

What is hard here:

* the DMA engines run concurrently with every access of the driver to a ring;
* a command issued from a timer event can fall between two steps of
  `StartDriver`, which runs at a lower task priority;
* a restart resets the device's view of both rings and not the driver's;
* one error exit in `IntelgbeUndiDriverStart` serves failures before and after
  each counter is incremented;
* the link can change between the two PHY accesses of one poll, and either
  access can time out;
* wrapping indices, `INT16` and `UINT8` casts;
* an MDIO access that was given up goes on in the device, a device may answer
  after the driver has stopped waiting, and a start that failed half-way leaves
  the registers to the next one;
* a transmit buffer passes through two drivers on its way back, and each call of
  the SNP may fail between the UNDI's step and its own.

The list in `PROJECT.json` ("hazards") gives the line of each.

## 2. The modules

| Module | Models | Composed with |
|---|---|---|
| `TxRing` | the transmit path against the transmit DMA engine | `MCTxRing` (TLC), `TxRing_proofs` (TLAPS) |
| `TxQueue` | what the transmit path promises: a FIFO of buffers | implemented by `TxRing` through the mapping in `TxRing` |
| `RxRing` | the receive path against the receive DMA engine | `MCRxRing` (TLC), `Restart_proofs` (TLAPS) |
| `RxQueue` | what the receive path promises: a FIFO of frames, errored ones passed over | implemented by `RxRing` through the mapping in `RxRing` |
| `Restart` | both rings across `StartDriver` | extends `RxRing` and instantiates `TxRing`; `MCRestart` (TLC), `Restart_proofs` (TLAPS) |
| `UndiApi` | the command layer and the driver-stop protocol | instantiated by `Snp`; `UndiApi_proofs` (TLAPS) |
| `DriverBinding` | the driver binding and unloading | `DriverBinding_proofs` (TLAPS) |
| `DmaMemory` | the common buffers: allocation, error exits, freeing | `MCDmaMemory` (TLC), `DmaMemory_proofs` (TLAPS) |
| `Link` | link monitoring | `Link_proofs` (TLAPS) |
| `Mdio` | the two MDIO routines and the bus | extended by `BringUp` |
| `MdioAccess` | what they promise: atomic accesses | implemented by `Mdio` through the mapping in `Mdio` |
| `BringUp` | `IntelgbeFirstTimeInit` on SerDes, PCS, PHY and MAC | extends `Mdio`; `MCBringUp` (TLC), `BringUp_proofs` (TLAPS) |
| `Snp` | the SNP driver on this UNDI | instantiates `UndiApi` and `TxQueue`; `Snp_proofs` (TLAPS) |

### TxRing

A buffer is a model value that stands for its address; `callerOwns` is the set
of those in the caller's hands. `IntelgbeTransmit` is cut where the DMA engine
can see a difference: at every descriptor it is given (`TransmitLinear`,
`TransmitFragmented`, `FillFragment`, `FillFirst`) and at the tail pointer
(`WriteTail`). `FreeTxBuffers` is one step: the engine only ever clears own
bits, so what the loop sees is what an instant could show. A failing `Map` is
logged and ignored, as in the code. A fragmented frame records no mapping and
loses its first- and last-descriptor bits, as in the code.

The engine (`HwFetch`, `HwWriteBack`, external) takes the descriptor it stands
at if that is its own, remembers the buffer it reads (`hwBuf`), and clears the
own bit when done. It may run ahead of the tail pointer: a real engine
prefetches, and a model that waited for the tail pointer would hide an early
own bit. What it *must* do under fairness goes only as far as the tail pointer.

### RxRing

`IntelgbeReceive` is cut into the look at the descriptor (`ReceiveNoData`,
`ReceiveCheck`), the copy (`ReceiveCopy`) and the return of the descriptor
(`ReceiveRecycle`). `CopyLength` keeps the `INT16` and `UINT16` casts. The
engine goes by the own bits. `tail_ptr` keeps a register per channel, because
the code writes that of channel 0 while the ring is on channel 1.

### Restart

The receive ring as it is and an instance of the transmit ring. Commands are serialised, so a
call is inside at most one of them; the engines run at any time. `StartDriver`
falls between two commands and is `intelgbe_dma_init`: descriptors cleared (or,
for receive, given to the engine), engines back at entry 0, `cur_tx`,
`dirty_tx`, `cur_rx` and the mappings untouched. Nothing of what the engines had
in progress survives, as the application had the device in between.

### UndiApi

One action per command that changes or accesses something; the commands with an
empty body, or that only fill a data block, are `UndiNoEffect`. `BadCdb` stands
for all the checks on the form of a command block. `cdb` records the last answer
and whether the device was accessed. `StartDriver` is three steps, because a
timer event may issue a command between them; `owner` is a history variable that
says to whom the device belongs. `AppUsesDevice` (external) leaves the channels
running or stopped.

`InitMayFail` names the callers for which `ops.init_hw` may report an error. The
one of `intelgbe_stmmac.c` never does: each of its five steps returns 0. The run
nevertheless lets it fail in `Initialize`, whose error exits are thereby
covered. `StartDriver` drops the result, so an `init_hw` that could fail there
would leave `INITIALIZED` over a dead device.

### DriverBinding

`UINT8` and `UINT16` arithmetic is kept modulo a small `MAX_NIC_INTERFACES`.
Start is `StartDone` or `StartFailed(c, path, at)`, with `at` the step that
fails; the exits are those of `IntelgbeUndiDriverStart`. Stop is cut into
`StopChild`, `StopController` (which frees the DMA memory) and
`StopControllerEnd` (which ends bus mastering); `StopFailed` is any of the exits
in between, each leaving what was done before it. A list entry whose private data
has been freed is `Stale`; a lookup that reads one sets `fault`. `Paths` says
whether a controller may be started without its child, and `FailAt` which steps
may fail. The history variable `orderly` says whether use has been orderly so
far: each controller started with its child, stopped in the reverse order of
starting (or by an unload), and no failure but those of an open. Four of the
properties are stated for orderly use; without it each fails, as the refuted
configurations show.

### DmaMemory

One controller, started and stopped again and again. `NicInfo` holds the three
`UNDI_DMA_MAPPING`s; `heap` and `bus` are the firmware's side, the pages held at
each address and what each mapping handle maps. Memory that was given back can
be allocated again, so a second free would hit somebody. One action per call of
`UndiDmaAllocateCommonBuffer`, by outcome (`AllocateDone`, `AllocateFails`,
`MapFails`, `MapPartial`), and of `UndiDmaFreeCommonBuffer` (`FreeCommonBuffer`,
`SkipBuffer`, `UnmapFails`); `phase` and `next` say which buffer is due.
`StartFails` stands for every failure of Start after `IntelgbePciInit`. The
history variable `failed` remembers the kinds of failures so far, so that one
run can say which failures a property survives. The numbers are bytes with a
page of two, so that a size can end inside a page.

### Link

A mode is a speed and a duplex. A poll is two steps, the change query and the
status read, with the cable (external) free to move between them. `phy` is a PHY
with a latched change bit (88E1512, GPY) or the 88E2110, for which the driver
compares; `Flaky` names those whose accesses may time out. What the PHY's status
registers say of the link is `wire`; the 88E2110 is asked in two of them, that of
auto-negotiation for the change and that of the PCS for the status, which are taken
to agree. The uninitialised locals read after a
failed access are free choices.

### Mdio and MdioAccess

A routine is its two waiting loops around the write of data and command; the bus
(`Complete`, external) ends a command at any time, also long after the routine
has given up. A register holds a set of bits. In `MdioAccess` an access takes
effect at one instant between call and return, and one reported as failed takes
effect at most once, before any later one; `ImplementsMdioAccess` shows that the
driver's use of the bus stays within this, because the first waiting loop of the
next access waits for the last one.

### BringUp

A function that talks to a device is the sequence of its accesses, written as
data (`intelgbe_modphy_init`, `mii_phy_config_link`, ...): reads, writes composed
from the value read, polls, each with the condition under which it is made and
what a failure does to the function. `pc` runs through it. What is done with
results has an action each: the step of the PHY scan (`ReadId`, `Found`), what
the PHY supports, the 16-bit comparison with a 32-bit value (`Same`), the three
ways a poll times out (`AwaitTimeout`: unnoticed, an error, ignored), the local
that could not be read into (`FailAwait`, `FailBoot`). The devices are external
and free to answer at any time or never. `StartAgain` is the next start of the
controller, on the registers the last one left. An adapter is a record of
`Boards`: device id, PHY, port, clause, and the state the firmware left.

`mii_phy_id_get` asks all 32 ports, and stops at the first that answers with
anything but all ones or zero. Two of them are the adapter's own: the SerDes at 21
and the PCS at 22. The source does not say whether these answer a read of the
identifier registers, nor what an 88E1512 delivers there while a page other than 0
is selected. Both are therefore left open, as fields of the adapter: `answers` (the
identifier registers that answer at ports 21 and 22, with an identifier of no PHY)
and `paged` (what the identifier registers hold on the other pages: nothing, all
ones, another identifier, or the same one). `InternalFirst` and `OtherPage` are the
two ways this can mislead the scan; the third is a PHY at port 31, which the loop
treats as none. `RefusedForAReason` says that nothing else makes it refuse a PHY,
and three refuted properties show each of the three.

### Snp

A call of the protocol, a binding and an unbinding are programs of steps, one
UNDI command each with what the SNP does around it; `OnError` says where each
goes on when a command fails. Commands are the actions of `UndiApi`, the
transmit path is the abstract `TxQueue`, which `TxRing` implements. Calls run at
`TPL_CALLBACK`, so that a diagnostic application acts between calls only; the
device goes on at any time. `given` is what the network stack has handed over.
`WaitForPacketNotify` is the event's notification; it is let run between calls
only, though its priority would let it into one.

## 3. What is checked

Passing runs:

| Run | Question | Bounds | Distinct states |
|---|---|---|---|
| `TxRing_frags` | Does the ring keep its shape, and is every buffer in one hand, with fragments and failing mappings? | 4 entries, 4 buffers, up to 3 fragments, symmetry | 5372 |
| `TxRing_linear` | Is the ring a FIFO that returns only what was sent, and everything that was sent? | 4 entries, 4 buffers | 5437 |
| `RxRing` | Is the receive ring a FIFO that loses, repeats and overwrites nothing? | 3 entries, 2 frames, buffers of 60, 1600 and 65566 bytes | 7168 |
| `Restart` | What survives when the device is initialised again under both rings? | 4 and 2 entries, 3 buffers, 2 restarts, symmetry | 283206 |
| `UndiApi` | Does `INITIALIZED` mean a running device, and is a device that was taken away left alone? | the command layer is finite as it stands | 2046 |
| `DriverBinding` | Any order and any failure: does the controller count stay exact? Orderly use: are interface numbers, lookups, the end of DMA and unloading right? | 2 controllers, 10 failing steps | 74865 |
| `DmaMemory` | Does every error exit give back what was held, once, and not under a mapping? | 4 addresses, 4 handles, 3 buffers of 3, 2 and 4 bytes, symmetry | 318856 |
| `Link` | Is a change lost between the two accesses of a poll? Is a link that stays down reported, with accesses that time out? | 4 modes, both kinds of PHY | 532 |
| `BringUp` | Does an adapter that came up have its SerDes, PHY, page and address right, is every failure reported, and does bring-up end? | 13 adapters, 32 ports, 2 polls of a device and 1 of the bus, up to 2 starts | 410784 |
| `Snp` | Is a transmit buffer lost or returned twice on its way through both drivers, and do the two state machines agree? | 2 buffers, blocks of 2, 2 bindings | 222918 |

Why the bounds are enough. A ring of four entries holds three frames, so it
fills, wraps and is reclaimed in part; with four buffers one always waits, and a
frame of three fragments takes the whole ring. Three receive entries are enough for the
engine to lap the driver, for a good frame behind an errored one and for the
wrap; the buffer lengths lie below the frame, above it, and above 64 KiB, where
the cast loses bits. Two restarts, because the second meets the indices the
first left. Two controllers are enough for a stop out of order and for a child
counted against the wrong one; `DriverBinding_three.cfg` checks orderly use of
three. The fourth address and handle let one be lost and a start still succeed.
The adapters of `BringUp` have every interface, PHY driver and clause, each PHY
state that makes a difference, a PHY at the first, a middle and the last of the
code's 32 ports and at ports beyond those of SerDes and PCS, with these answering
the scan or not, and an unserved one; one poll of the bus lets an access end before, during and
after it, two of a device tell the first from the last; two starts let the
second meet what the first left. Two buffers in `Snp` fill the status block and
the array, and one can be in each of the two drivers; two bindings let the
second meet the callbacks, the frames and the state of the first. For what
section 4 proves, these bounds do not matter: they remain for liveness.

Runs that find the code at odds with what it says (each is a finding in
`PROJECT.json`):

| Run | Property | What happens |
|---|---|---|
| `Link_down` | `DownIsReported` | `if (link)` tests the pointer: with a latching PHY, a link that is down is reported as up from the second poll on |
| `Snp_wait` | `PacketWakesWaiter` | the notification of `WaitForPacket` issues GetStatus with a block of 8 bytes, the UNDI refuses blocks below 16 and never writes the length of the next frame: the event is never signalled |

Further properties that TLC refutes, kept beside the runs because each shows
one disagreement between a comment and the code. A `_refuted.cfg` checks the
first of a module's properties; the others stand in it as comments, each to be
put in its place:

| Configuration (module) | Property refuted | Place |
|---|---|---|
| `TxRing_refuted` (`MCTxRing`) | `EveryBufferReturns` | `Intelgbe.c:345`, a fragmented frame records no mapping and the reclaim loop stops at it for good: "Cleanup of the send happens in the function UNDI_Status in DECODE.C" |
| `TxRing_mapfail` (`MCTxRing`) | `AcceptedFrameHasAddress` | `Intelgbe.c:410`, a failed mapping goes out and is a success |
| `TxRing_refuted` (`MCTxRing`) | `FrameHasEnd` | `Intelgbe.c:374`, the last-descriptor bit is overwritten |
| `Restart_refuted` (`MCRestart`) | `ReturnedWereSent` | `intelgbe_stmmac.c:444`, cleared descriptors count as sent |
| `Restart_refuted` (`MCRestart`) | `EveryBufferReturns` | `StartStop.c:66`, `cur_tx` is not reset |
| `Restart_refuted` (`MCRestart`) | `StoredFrameIsReceived` | `StartStop.c:66`, `cur_rx` is not reset |
| `RxRing_refuted` (`MCRxRing`) | `SuccessHasFrame` | `Intelgbe.c:1068`, an errored frame is a success |
| `RxRing_refuted` (`MCRxRing`) | `FrameLenExact` | `Intelgbe.c:1021`, `INT16` cast of the buffer length |
| `RxRing_refuted` (`MCRxRing`) | `TailReachesRing` | `Intelgbe.c:1066`, channel 0 for channel 1 |
| `UndiApi_refuted` (`UndiApi`) | `StoppedDriverIsSilent` | `AdapterInformation.c:51`, no check of `DriverBusy` |
| `UndiApi_refuted` (`UndiApi`) | `StartAgainFails`, `StopStops`, `ShutdownLeavesStarted` | `Decode.c:577`, `636`, `881` |
| `UndiApi_refuted` (`UndiApi`) | `StationAddressReachesDevice` | `Decode.c:990`, only the driver's copy changes |
| `DriverBinding_refuted` (`DriverBinding`) | `NiiReachesAdapter` | `Init.c:666`, after a controller was started without its child, commands for the next one reach the first one's adapter |
| `DriverBinding_refuted` (`DriverBinding`) | `ChildrenCounted` | `Init.c:1169`, another controller's child is taken off |
| `DriverBinding_refuted` (`DriverBinding`) | `ControllerFound` | `Init.c:55`, a stop out of order hides a controller |
| `DriverBinding_refuted` (`DriverBinding`) | `IFcntIsCount` | `Init.c:1640`, `IFcnt` is not brought up to date |
| `DriverBinding_refuted` (`DriverBinding`) | `NoFreedLookup` | `Init.c:1178`, private data freed with pointers left |
| `DriverBinding_refuted` (`DriverBinding`) | `RingsHeld` | `Init.c:1393`, DMA memory freed while the channels run |
| `DmaMemory_refuted` (`MCDmaMemory`) | `PartialLosesNothing` | `Dma.c:118`, frees the pages that were mapped, not those that were allocated |
| `DmaMemory_refuted` (`MCDmaMemory`) | `FailedStartLosesNothing` | `Init.c:952`, a Start that fails later keeps the rings and the attributes |
| `Link_refuted` (`Link`) | `ReplugIsNoticed` | `intelgbe_stmmac.c:533`, with the 88E2110 the MAC keeps the old mode |
| `Link_refuted` (`Link`) | `ChangeSurvivesTimeout` | `intelgbe_stmmac.c:523`, an access that times out has cleared the latched bit |
| `BringUp_refuted` (`MCBringUp`) | `EveryPortScanned` | `intelgbe_phy.c:63`, a PHY at the last port counts as none |
| `BringUp_refuted` (`MCBringUp`) | `PhyIsIdentified` | `intelgbe_phy.c:30`, the scan takes a SerDes or PCS that answers at port 21 or 22 for the PHY: "Find and store valid Phy ID" |
| `BringUp_refuted` (`MCBringUp`) | `IdentifiedAgain` | `marvell_88e1512.c:91`, an 88E1512 left on another page by a failed start is refused by the next one |
| `BringUp_refuted` (`MCBringUp`) | `SerdesAnswered` | `intelgbe_stmmac.c:745`, `retries < 0` after `while (--retries)` |
| `BringUp_refuted` (`MCBringUp`) | `XpcsResetCompleted` | `intelgbe_stmmac.c:622`, a failed read counts as a completed reset |
| `BringUp_refuted` (`MCBringUp`) | `IdFromPageZero` | `marvell_88e1512.c:91`, the page of a failed start is still selected at the next scan |
| `BringUp_refuted` (`MCBringUp`) | `AddressAlwaysKept` | `intelgbe_stmmac.c:123`, a reset ending after its timeout clears the address the next start reads |
| `BringUp_refuted` (`MCBringUp`) | `NeverRestartedInVain` | `intelgbe_api.c:147`, the register number in the upper half counts as a change: "Only restart aneg if we are advertising something different" |
| `Snp_refuted` (`Snp`) | `PendingLost` | `Decode.c:881`, the UNDI's Shutdown does nothing: "Pending transmits and receives are lost" |
| `Snp_refuted` (`Snp`) | `ErrorReturnsNothing` | `Get_status.c:241`, a buffer is handed out with an error |
| `Snp_refuted` (`Snp`) | `MediaSeen` | `Decode.c:778`, a second Initialize reports media without looking |
| `Snp_refuted` (`Snp`) | `CallbacksLive` | `Decode.c:577`, a second binding keeps the callbacks of the first |
| `Snp_refuted` (`Snp`) | `AddressAgrees` | `Initialize.c:237`, the SNP resets its copy of the address, the UNDI does not |
| `Snp_refuted` (`Snp`) | `EventsClosed` | `Snp.c:744`, unbinding an initialised SNP closes no event |

`CHECK_DEADLOCK FALSE` stands where the system may stop: when fragmented frames
have wedged the ring with all buffers in it, when the driver has been unloaded
or has read freed memory, when `StopController` has given up half way, and when
an adapter has been started as often as it will be.

Further configurations that hold, on the instances of the runs (`*_types.cfg`):
the inductive invariants of section 4 (`IInv`; `WholeIInv` for `TxRing`, `RingInv`
for `RxRing`, `TypeOK` for `Link`; `StepInv`, `ErrorsExcused`, `PageInv`,
`SerdesInv`, `BusLeftFree` and `LinkInv` for `BringUp` besides), each seen to hold
before it was proved, and some properties that the ones above rest on
(`HwReadsMapped`, `ReturnedWereSent`, `RestartEnds`, `ChildrenExact`,
`ReadyIsWhole`, `RecordsLive`, `RestartOnlyIfDifferent`). `DriverBinding_three.cfg` checks orderly use of three
controllers.

Every property of a passing run has a mutant in `PROJECT.json`: a definition
replaced by a plausible mistake, under which the property fails. The mutants sit
beside the definitions they change, marked `Mutant:`.

### Fairness

* `TxRing`: a call runs to its end (the code is sequential); the engine serves
  descriptors before the tail pointer and finishes what it began; the caller
  polls GetStatus, as SNP does to recycle its buffers. Nobody has to transmit.
* `RxRing`: the caller polls Receive, and a call runs to its end. The engine
  gets no fairness: no frame need arrive.
* `Restart` (refuted configurations only): as above, with strong fairness for
  the two polls, because each is disabled while the other command runs.
* `UndiApi`: `StartDriver` runs to its end. No fairness for any command.
* `DriverBinding`: a disconnect and an unload that have begun end.
* `Link`: the caller keeps asking for the media state. The accesses that time
  out get none, so a poll in the end succeeds.
* `BringUp`: the driver's code runs; nothing is asked of bus and devices, which
  may never answer.
* `Snp`: a call that has begun runs to its end, and the network stack keeps
  asking GetStatus for recycled buffers, as `MnpRecycleTxBuf` does; strong
  fairness, because other calls come in between. `Snp_wait` adds that somebody
  waits for the event, so that its notification runs again and again.

## 4. What is proved

Eight modules hold the theorems, one per component; the receive ring's are in
`Restart_proofs`, as `Restart` extends it (there the specification is `RxSpec`). Each has the form `Spec => []P` or, for
a refinement and an action property, `Spec => P`, for every value of the
constants that the module's assumptions allow. Where a theorem has a hypothesis,
it is in the table, and the reason below it.

| Module | Theorem | Property | Hypothesis |
|---|---|---|---|
| `TxRing_proofs` | `TypeCorrect` | `TypeOK` | |
| | `RingShapeHolds` | `RingShape` | |
| | `OwnershipHolds` | `Ownership` | |
| | `NoDmaOnCallerBufferHolds` | `NoDmaOnCallerBuffer` | |
| | `FrameHeldBackHolds` | `FrameHeldBack` | |
| | `ImplementsTxQueueHolds` | `ImplementsTxQueue` | `MaxFrags = 0` |
| | `HwReadsMappedHolds` | `HwReadsMapped` | `Whole` |
| | `ReturnedWereSentHolds` | `ReturnedWereSent` | `Whole` |
| `Restart_proofs` | `OwnershipKeptHolds` | `OwnershipKept` | |
| | `EngineAvoidsCallerHolds` | `T!NoDmaOnCallerBuffer` | |
| | `EngineReadsMappedHolds` | `EngineReadsMapped` | `Whole` |
| | `CopyKeptHolds` | `CopyKept` | |
| (for `RxRing`) | `CopyUndisturbedHolds` | `CopyUndisturbed` | |
| | `CopyFitsHolds` | `CopyFits` | |
| | `ImplementsRxQueueHolds` | `ImplementsRxQueue` | |
| `UndiApi_proofs` | `InitializedMeansRunningHolds` | `InitializedMeansRunning` | `RestartReliable` |
| | `NoCommandDuringStopHolds` | `NoCommandDuringStop` | |
| `DriverBinding_proofs` | `ControllersExactHolds` | `ControllersExact` | `"PrivateData" \notin FailAt` |
| | `ChildrenExactHolds` | `ChildrenExact` | |
| | `NiiReachesOwnAdapterHolds` | `NiiReachesOwnAdapter` | |
| | `LookupExactHolds` | `LookupExact` | |
| | `RingsOutliveDmaHolds` | `RingsOutliveDma` | |
| `DmaMemory_proofs` | `NoWildFreeHolds` | `NoWildFree` | |
| | `MappedIsHeldHolds` | `MappedIsHeld` | |
| | `NothingLostHolds` | `NothingLost` | |
| | `AttributesRestoredHolds` | `AttributesRestored` | |
| | `ReadyIsWholeHolds`, `RecordsLiveHolds` | `ReadyIsWhole`, `RecordsLive` | |
| `Link_proofs` | `NoChangeLostHolds` | `NoChangeLost` | |
| `BringUp_proofs` | `ImplementsMdioAccessHolds` | `ImplementsMdioAccess` | |
| | `AddressKeptHolds` | `AddressKept` | |
| | `FailureReportedHolds` | `FailureReported` | |
| | `RefusedForAReasonHolds` | `RefusedForAReason` | |
| | `RightPageHolds` | `RightPage` | |
| | `SerdesProgrammedHolds` | `SerdesProgrammed` | |
| | `BusLeftFreeHolds` | `BusLeftFree` | |
| | `AdvertisesHolds` | `Advertises` | |
| `Snp_proofs` | `SnpMatchesUndiHolds` | `SnpMatchesUndi` | |
| | `ResourcesMatchStateHolds` | `ResourcesMatchState` | |
| | `AccountedHolds` | `Accounted` | |

Each module also has `IInvariance`, its inductive invariant (`Restart_proofs`
has `RxIInvariance` and `RingInvariance` for the receive ring too, `BringUp_proofs`
`StepInvariance` for the steps of its programs; `Link_proofs` proves the step lemmas of
`TypeOK` and `NoChangeLost` instead).

The hypotheses, each because the property is false without it:

* `MaxFrags = 0`: a fragmented frame records no mapping, so the ring is not a
  queue of what it was given (`TxRing_refuted`).
* `Whole == MaxFrags = 0 /\ MapMayFail = FALSE`: a frame whose `Map` failed goes
  out all the same (`TxRing_mapfail`).
* `RestartReliable == "StartDriver" \notin InitMayFail`: `StartDriver` drops the
  result of `init_hw`. The `init_hw` there is returns 0 always.
* `"PrivateData" \notin FailAt`: the exit taken when the private data cannot be
  allocated takes a controller off that was never counted.

### Assumptions on the constants

Rings of more than one entry (`RingAssumption`, `RestartAssumption`,
`RxRingAssumption`); the null values are no buffer, frame, address or controller
(`TxConstantsAssumption`, `TxDataAssumption`, `RxRingAssumption`, `DmaAssumption`,
`BindingAssumption`, `LinkAssumption`, `NoSnpAssumption`); frames of at most
32767 bytes, as the length is masked with `0x7FFF` (`RxDataAssumption`); positive
sizes (`DmaAssumption`) and numbers of retries (`LimitAssumption`,
`BringUpAssumption`); fewer controllers than interface numbers
(`BindingAssumption`); a status block of at least one buffer (`SnpAssumption`);
any positive number of ports to scan, the code's being 32; a PHY at one of them
that is not the port of SerDes or PCS, of one of the four kinds, the 88E2110 with
Clause 45, SerDes and PCS answering the scan, if they do, with the identifier of no
PHY, and an 88E1512 never with that of another PHY that has a driver, on no page
(`BoardsAssumption`); and, of the registers the driver looks at, only the status
of the SerDes, the control register of the PCS, and control and status of the PHY
change by themselves (`VolatileAssumption`), as only these are waited for or
cleared by the device that has them.
That the size of the transmit ring is a power of two (`PowerOfTwoAssumption`)
justifies the shared `NextEntry` for the `&` and the comparison in the code; the
proofs do not use it.

### The arguments

**TxRing.** `IInv == TypeOK /\ RingShape /\ Ownership /\ FrameHeldBack /\ FragsHeld`.
`NoDmaOnCallerBuffer`, the property that matters, is not inductive: that the
reclaim loop does not return a buffer under DMA needs the descriptor the engine
reads to be its own (`RingShape`), and that no *other* reclaimed entry records
the same buffer (`Ownership`). `Ownership` needs what lies outside the window
between `dirty_tx` and `cur_tx` to be clear (`RingShape`), and the fragments
still to be written to be recorded nowhere (`FragsHeld`). `RingShape` needs the
window never to fill the ring, so that `dirty_tx = cur_tx` means empty; for a
fragmented frame that is the room `FrameHeldBack` keeps. The index arithmetic
is in three lemmas (`OffsetOfNext`, `OffsetInjective`, `AvailIsRoom`), and there
is one lemma per action. For whole frames `WholeIInv` adds that an owned
descriptor names a mapped buffer (`PendingMapped`) and that what the engine has
passed was read (`SentWereRead`). The refinement maps the window to the queue
and the engine's offset in it to the number of sent buffers; every step of the
ring is then a step of `TxQueue` or leaves queue and count alone.

**Restart.** After a restart `RingShape` no longer holds: the engine stands at
entry 0, wherever the window is. `EngineOwnsWindow` is what is left of it, that
descriptors with the own bit lie in the window and the one at work is among
them, and `RoomForFrame` what is left of `FrameHeldBack`. They suffice for
`Ownership`, because neither a transmit nor a reclaim looks at where the engine
is. On the receive side `RxIInv` survives,
since `StartDriver` falls between two commands only.

**RxRing.** `RxIInv == TypeOK /\ BuffersFilled /\ CopyFits` gives the two invariants
of the copy. The refinement needs more, `RingInv`: the driver's descriptors are
those from `cur_rx` up to the engine and the one of the call in progress, which
lies just before `cur_rx` (`RingAgreement`). Where engine and `cur_rx` meet, the
ring is empty or full, and the own bit there tells which; a call in progress
keeps it from being full, because the engine stops at the entry that is not given
back yet. The queue is a function of the state (`Line`), so that the same lemmas
hold before and after a step: the look at a descriptor renumbers the entries
and leaves the queue alone (`CheckShifts`), the copy takes its head (with
`CheckHolds`: the status has not changed since the look), the return of the
descriptor touches none in it, and the engine appends.

**UndiApi.** `StatesAgree` ties the two protocols together: `DriverBusy` is set
exactly while the device is away, the step of `StartDriver` follows the owner,
and an initialised device runs unless the application has it. Without the first
a command could pass between the steps of `StartDriver`.

**DriverBinding.** Two layers: what holds whatever fails (`LiveOnly`,
`CountedWhileReliable`), and what holds as long as use is orderly (`Orderly`):
list entries, interface numbers and NII pointers agree (`Entries`) and the list
is dense with the controller being stopped at its end (`Compact`), which is why
the number a child is given is free, and why the lookup, which reads only the
first `mActiveControllers` entries, misses none.

**DmaMemory.** A filled structure has its pages and its mapping for itself
(`RecordsHeld`), and the phase says which are filled (`Progress`): a structure
is freed once because it is filled, and zero afterwards unless an Unmap failed.
`MappedIsHeld` needs that no two live mappings are of the same memory
(`MappingsApart`), so that freeing one leaves none behind.

**Link.** `TypeOK /\ NoChangeLost` is inductive as it stands: the change bit is
latched by the PHY in the same step as the change.

**BringUp.** `BusAgreement` relates the MDIO routine to the command under way: a
command that writes finds its data in the data register, a routine that waits
for its end waits for its own, and one that reports success has seen it end. A
command the driver gave up maps to the pending access of `MdioAccess`, and the
first waiting loop lets no other past it. `AddressFollowsReset` says where the address is at each
function of the sequence, `FailuresKept` that the local which carries a failure
still has it. So far the proof needs the programs' contents nowhere but in the
reset, the address and what a function does with a failure.

The other five properties are about what the steps of the programs read and write.
An access may end after the driver has moved on, so nothing is said of the
registers as they are but of what they will hold once the command on the bus has
ended (`Settled`). `StepInv` is the common ground: the routine at work carries the
access of the step the function is at (`CallIsStep`), what it delivers is what the
register will hold (`Delivered`), registers nobody writes keep what they had
(`FixedKept`), and the scan ends with the board's PHY, port and clause unless it was
misled (`Scanned`). For that it needs that once the scan's first command has been issued no
write of an earlier start is on the bus any more (`ScanReads`): the page the scan
has met is the page it goes on with.
On it stands one invariant per property, each a table over the steps of one
function: the page selected before each step (`PageSelected`; a failed
initialisation may leave any page, and the first step of the link set-up selects
page 0), what `GCR0` has gained and lost before each step of
`intelgbe_modphy_init` (`SerdesAt`), what is advertised and negotiated before each
step of `mii_phy_config_link` (`LinkInv`), and that what the functions remember as
an error is one (`ErrorsExcused`). A step's preservation lemma goes through the
steps of the function: which one is next when conditions do not hold, what it
writes, what it takes from an answer. `BusLeftFree` turns what the registers will
hold into what they hold once the adapter is up: the last two accesses of
`mii_phy_config_link` were waited for, and nothing is on the bus behind them.

**Snp.** `Ready(c)` says, for every call and every rest of its program, in which
state the SNP is and what it holds; `CallsFollow` that the call in progress is
ready or, between calls, that resources match the state. `SnpMatchesUndi` follows
with the lemma `Forward`: an UNDI command never takes the UNDI back to an earlier
state. `Accounted` needs `HeldOnce`: a buffer given is in the UNDI's queue or in
the recycled array, once; and that the array has room for a whole status block
when it is asked to be filled (`Typed`).

### Only model-checked

* Liveness under fairness, which is out of the prover's reach: `EveryBufferReturns`,
  `FilledIsRecycled`, `UnloadSucceeds`, `UpIsConfigured`, `ComparedDownIsReported`,
  `BringUpEnds`, `RecycledComesBack`.
* `RestartOnlyIfDifferent` of `BringUp`, which no run but `BringUp_types.cfg` asks
  for: it compares with what the PHY had when the link set-up began, and would need
  that history in `LinkInv` at every step.

## 5. What is not modelled

* Register layouts, delays, log output and the contents of data blocks.
* In `TxRing`: the branch of `IntelgbeMapMem` that calls the caller's `Map_Mem`
  (`Intelgbe.c:206`), which hands out an address as the other one does; the cast of
  a bus address to `UINT32` at line 420, which loses the upper half of an address
  above 4 GiB (`IntelgbePciInit` asks for dual-address cycles; addresses are model
  values here); an `Unmap` that fails (266), which is not looked at, and a `Map` of
  less than the frame (414), which is only logged.
* In `UndiApi`: a `StartDriver` without a `StopDriver` before it. The code would
  let it pass; the application is taken to keep to the protocol.
* In `DriverBinding`: a child's protocols that cannot be uninstalled, and a
  `FreePool` that fails, which `StopChild` and `StopController` log and pass over
  (`Init.c:1522`, `1547`, `1436`).
* In `DmaMemory`: attributes that cannot be restored after `IntelgbePciInit` itself
  could not set them, a `FreeBuffer` that fails, and a `Map` that fails and changes
  the size all the same.
* What lies beside the 16-bit local into which `intelgbe_mdio_c45_read` stores 32
  bits: the compiler's choice of layout.
* In `Link`, the accesses of a poll are single steps; that an MDIO access may end
  late is in `BringUp`.
* Of the SNP driver: Statistics, NvData and MCastIpToMac, which change no state of
  either driver; the bodies of its callbacks; the exit-boot-services event. The
  array of recycled buffers grows in the model as in the code, but never has to:
  it is asked to be filled only when empty, and is never smaller than one block.
  The notification of `WaitForPacket` falls between calls only. When the SNP is
  unbound, buffers in its array are lost with it: nobody can ask for them any more,
  and `Accounted` starts anew with what the UNDI still has. The command block that
  stays allocated when the exit-boot-services event cannot be created
  (`Snp.c:664`, `Error_DeleteSNP`) is not followed.
* Pure functions without state: `IntelgbeUndiIp2Mac`, the `!PXE` checksum, the
  size table of `mIntelgbeApiTable`, the search by sub-system ids.
* The adapter-information protocol's table of types: two fixed entries, shared by
  all controllers.
* `ComponentName.c`, `DriverConfiguration.c`, `Intelgbe_osdep.c`: strings, an
  empty protocol and register wrappers.
* The rest of EDK II, by far the most of the repository's lines. The driver core,
  the network stack above the SNP and PCI I/O appear as the environment.
* `ExitBootServicesTriggered` is checked by the entry point, and nothing in the
  driver sets it.

## 6. Plan

The components that carry the driver's logic are modelled, and what their runs
check is proved but for liveness. What is left:

1. `BringUp`: `RestartOnlyIfDifferent`, with the registers at the entry of
   `mii_phy_config_link` carried through `LinkInv`.
2. `Restart`: what a receive ring still guarantees after a restart with `cur_rx`
   not at 0; `RingAgreement` does not survive it.
