# UniATA in TLA+

Specifications, model-checking configurations and proofs for the UniATA driver
(`src/driver`), a SCSI miniport that serves ATA, ATAPI and SATA devices under
Windows.  Line numbers below refer to `src/driver/id_ata.cpp` unless another
file is named.

## 1. The system

### How it runs

ScsiPort (the port driver) owns the threads.  It calls the miniport with the
adapter lock held, so most handlers never interleave: `AtapiStartIo` with an SRB,
`AtapiInterrupt` when the controller asserts its line, `AtapiTimerDpc` when the
single miniport timer runs out, `AtapiResetController` when a request has timed
out.  The miniport answers with `ScsiPortNotification(RequestComplete)` for each
SRB, exactly once.  What makes the code hard is that all protocol state is spread
over records that outlive a call: the queue of a channel, the state of each
request, the interrupt expected, the delayed call of a channel.  A later handler
finds what earlier ones left behind, in an order nobody chose.  The one
exception to the lock is `AtapiInterrupt2`, which runs as an interrupt handler of its
own for the second channel of a controller.

### Components

| Component | State | Operations | Must be right |
|---|---|---|---|
| Request queue (`id_queue.cpp`) | per device `first_req`, `last_req`, `queue_depth`, `LunSelectWaitCount`; per request `next_req`, `prev_req`, `ttl`; per channel `cur_req`, `cur_cdev`, `queue_depth` | `UniataQueueRequest`, `UniataRemoveRequest`, `UniataGetCurRequest`, `UniataGetNextChannel` | lists stay lists, reordering never swaps conflicting transfers and starves nobody, the executing request stays current, devices take turns |
| SRB dispatch (`AtapiStartIo__`, 9204-10362) | loop variables `Srb`, `TopLevel`; `AtaReq->ReqState` | new SRB, queue, prepare, execute, complete, take the next one; abort, device reset, flush, SMART | each SRB completed once, no channel idle with work, no request started twice |
| ATA commands (`IdeReadWrite`, `IdeVerify`, `IdeSendCommand`, `IdeSendSmartCommand`) | `lba`, `bcount`, `WordsLeft`, `WordsTransfered`, flags of `ATA_REQ` | prepare, send, data phase, chain to the next track | each block is transferred once, failures leave a consistent request |
| Packet commands (`AtapiSendCommand`, `AtapiInterrupt__`) | phase of the device, `ReqState`, `WordsLeft`, `CHECK_INTR`, `REQ_STATE_DPC_*` | packet, data, status, second looks by the timer, sense | buffer and length agree, the sense data are kept, the engine is stopped before the answer |
| Interrupt handler (`AtapiInterrupt__`, 4930-6480) | `ExpectingInterrupt`, `retry`, `ReqState` | complete, retry, next part, reset | completes the request whose command was executed, retries end |
| Interrupt detection (`AtapiInterrupt`, `AtapiInterrupt2`, `AtapiCheckInterrupt__`) | `CheckIntr`, `DisableIntr`, `ExpectingInterrupt` of the controller | detect, hand over, disable, enable | no interrupt lost or served twice although two handlers run at once |
| Reset (`AtapiResetController__`, 2380-2760) | all of the above | complete none, the current or all requests, restart the hardware | nothing left behind |
| Timer DPC (1228-1400) | `FirstDpcChan`, `NextDpcChan`, `HwScsiTimer`, `DpcTime`, `ActiveDpcChan` | `AtapiQueueTimerDpc`, `AtapiTimerDpc` | every call is made, in order, not before its time and not long after |
| DMA (`id_dma.cpp`) | `TransferMode`, `LimitedTransferMode`, timing registers, tables of segments, what a reset saves of a retry | choose, lower, restore, build the table, start and stop the engine | drive and controller agree on the mode, it goes down after errors and comes to an end, tables describe the buffer |
| AHCI (`id_sata.cpp`) | port registers, command slot, interrupt status of port and adapter | issue, interrupt, abort, retry, reset, plug events | no completion missed or invented, the command engine runs when a command is issued |
| Probe (`id_probe.cpp`, `DriverEntry`) | `BMList`, claims of the legacy ports in the system and in the driver, adapters | enumerate, start in compatibility mode, natively, ISA | a register has one owner, every controller that can be used is |
| Chip tables (`id_init.cpp`, `bm_devs.cpp`) | channels, arrays, register maps | `UniataChipDetect`, `UniataChipDetectChannels` | channels of a chip do not share registers |
| Simplex channel choice (`UniataGetNextChannel`) | `ChannelSelectWaitCount` | choose the channel to serve | no channel starves |
| Bad blocks (`id_badblock.cpp`) | table per device | load, look up | a listed block is always refused, others never |
| IOCTLs, power, tools | data | conversions, command lines | left to tests |

Calls go from dispatch to the queue (`UniataQueueRequest`, `UniataRemoveRequest`,
`UniataGetCurRequest`) and to the commands; the interrupt handler calls the queue and
re-enters dispatch with the next request (`AtapiStartIo__(..., FALSE)`); the reset
empties the queue; the interrupt detection decides whether the handler runs, and both the
handler and the detection ask the timer for a delayed second look.  The probe decides which
adapters and channels exist at all, and which registers they have.

### Hard behaviours

Order of removal and insertion in a hand-made doubly linked list; a current
request recomputed by everybody; states of a request that decide whether the
loop goes on; aborts and resets that arrive between any two steps; commands that
fail on being sent, fail later, or never finish; one timer shared by all channels;
an interrupt handler outside the lock; an adapter that completes a command between two
register reads of the handler; modes that a reset makes the drive forget; ports of the machine
that several controllers, other drivers and the system lay claim to.  `PROJECT.json` lists them line by
line under `hazards`.

## 2. The modules

| Module | Models | Role |
|---|---|---|
| `AtaReq` | fields of `ATA_REQ` and SRB the queue looks at, the conflict test of `UniataGetCost` | shared definitions |
| `ReqPlaces` | where `UniataQueueRequest` may put a request, whatever the costs | abstract specification |
| `ReqOrder` | `ReqPlaces` with history (who came first, who was overtaken) | what users of the queue rely on |
| `ReqOrderProof` | | theorems about `ReqOrder` |
| `ChanQueue` | `id_queue.cpp`: lists, costs, ttl, counters, turns | operators on a record |
| `ReqQueue` | the queue under any sequence of calls | detailed specification, implements `ReqPlaces` |
| `ReqQueueProof` | | what insertion and removal of `ChanQueue` do to lists of any length; theorems about `ReqQueue`, the refinement among them |
| `ChanIo` | `AtapiStartIo__`, `AtapiInterrupt__`, `AtapiResetController__` on one channel, composed with `ChanQueue` | the life of a request |
| `ChanIoProof` | | theorems about `ChanIo`, built on `ReqQueueProof` |
| `TimerDpc` | `AtapiQueueTimerDpc`, `AtapiTimerDpc` | delayed calls |
| `IntrCheck`, `IntrCheckProof` | `AtapiInterrupt`, `AtapiInterrupt2`, `AtapiCheckInterrupt__`, `AtapiInterruptDpc`, `AtapiCallBack__`, `AtapiEnableInterrupts`/`Disable` of a controller with several channels | which handler sees an interrupt, theorems about it and about `TimerDpc` |
| `XferModes` | `AtapiDmaInit` with the mode ladders of 33 controller families and their timing functions | operators |
| `DmaTable` | `AtapiDmaSetup`: merging of physical pages | operators |
| `DiskXfer` | `IdeReadWrite` part by part, `AtapiDmaReinit`, retries, bus resets, composed of `XferModes` and `DmaTable` | the data and the modes of a disk |
| `DiskXferProof` | | theorems about `DiskXfer`, with the lemmas about `XferModes` and `DmaTable` |
| `Packet`, `PacketProof` | `AtapiSendCommand`, the packet phases of `AtapiInterrupt__`, their timer calls | a packet device, theorems |
| `AhciPort`, `AhciPortProof` | `UniataAhciBeginTransaction`, `EndTransaction`, `AbortOperation`, `UniataAhciStatus`, `UniataSataEvent`, reset | an AHCI port, theorems |
| `ChipRegs` | `UniataChipDetect`, `UniataChipDetectChannels`, `AtapiGetIoRange`, `UniataInit...` | operators: the register map of a chip |
| `Adapters` | `UniataEnumBusMasterController__`, `DriverEntry`, `UniataFindBusMasterController`, `AtapiFindIsaController`, composed with `ChipRegs` | bring-up of a machine |
| `AdaptersProof` | | theorems about `Adapters` |
| `Commands`, `MC*` | | requests, devices, machines and parameters of the runs |

**Queue.**  `ChanQueue` keeps the links of the code as functions in one record,
and each C function is an operator from record to record: `GetCost` is
`UniataGetCost`, `InsertBehind` the walk from the tail (with its two `break`s and
the strict comparison that keeps the first of equal offers), `QueueRequest` and
`RemoveRequest` the two functions of the same name, `NextLun` the product of queue
length and waits.  Costs keep their order but not their size:
`REORDER_COST_MAX` is a constant, above 4 so that the special costs (MAX - 1, MAX - 2, MAX - 3
and MAX / 4) are in their order; the proofs need no more of it than that.  `ttl` is a
byte and wraps (`TtlMod`).

`ReqPlaces` forgets links and costs.  A request goes behind `p` others;
`Places` says which `p` are allowed.  That the cheapest place is always an
allowed one is not obvious: costs are added and subtracted, the special costs
`TTL`, `INTERSECT` and `DENIED` among them, so an insertion between two
requests that conflict with each other looks like a great gain.
`ReqQueue!ImplementsPlaces` is that claim, `queue` and `ttl` being computed
from the links.

**Requests on a channel.**  In `ChanIo` one turn of the loop of `AtapiStartIo__` is one action,
because the lock is held; `run` is the request in hand and `TopLevel`.  While
`run # Idle` neither interrupts nor calls happen.  `Kind` says how the driver
carries a request out, since preparation leaves different states behind:
READY for a DMA transfer, PREPARE for a command that cannot be prepared,
COMPLETE for READ CAPACITY, QUEUED for SMART.  The loop, `Fetch`, decides by
these states whether it goes on, as lines 10331-10345 do.  `dev` is what the
hardware executes; the handler, as in the code, does not know it and takes
`cur_req`.  `owed` counts the notifications the port driver waits for.

**Delayed calls.**  `TimerDpc` has a clock, the list, and the time at which ScsiPort will
call.  The walk of `AtapiQueueTimerDpc` is defined by the links alone: the entries it goes past are the
least set that has the first entry, if that is not due later, and with an entry the next one, if that
is not (`Passed`), and `prev_chan` is the one before the entry it ends at (`WalkEnd`).
The clock does not wrap in the time that is modelled (`MaxTime < Wrap`).  Any channel may ask at any time, also one whose call is in
progress (`active`), and one that waits already: `Insert` writes the links as the code does, whichever of the two neighbours the channel is itself.
`halted` is the end of the machine (a call of address 0, or a walk that meets no end), `relinked` remembers for the properties
that a channel of the list has asked again.

**Interrupts of several channels.**  In `IntrCheck` the holder of the adapter lock (`holder`)
and `AtapiInterrupt2` (`isr2`) are two processes whose steps are what the code does between two
accesses to `CheckIntr`, which is the lock between them and their message.  The processor calls the
handlers of a vector one after the other until one claims the interrupt (`Deliver`).  A command is two steps of the
holder, the write of the command register (`Send`, 1035) and the note that its interrupt is expected (`Expect`, 1102 and 7160), since
`AtapiInterrupt2` may look between them.  `Checks` are the returns of `AtapiCheckInterrupt__`: those that leave the base status
unread (`Unread`) and those that have read it, which takes the interrupt off the device (`Read`).  `dropped` remembers the channels
whose interrupt the code throws away (section 6, **Interrupts**).
What `AtapiInterrupt__` does with a request is reduced to its ways of ending: done, goes on, asks
for a second look (`AtapiCallBack_X`), leaves the rest to `AtapiInterruptDpc`.

**A hard disk.**  `DiskXfer` follows one request at a time through `IdeReadWrite`: `Prepare`
computes the part (from the registers of the last one when the drive has no LBA) and its
table, `Exec` runs `AtapiDmaReinit` and sends, `Done`, `Error` and `Reset` end it.  Block `i` of a
buffer holds datum `i`, so that `medium` shows what went where.  A timing is named by the mode
the table entry was made for; `Beyond` and `Foreign` are entries outside or of another table.

**A packet device.**  `Packet` counts words.  `DeviceSteps` is a device that follows the
protocol, `Misbehave` one that moves too little or too much, is late, reports a wrong
direction, fails or hangs.  `Interrupt` is the whole handler, `CallBack` the timer's call,
`Stray` an interrupt nobody expects.  A PIO request that is over, whose device is busy once more or still has data, goes on in
`Dpc` (`NotReady`, `REQ_STATE_DPC_WAIT_BUSY` and `..._DRQ`), which enters the handler anew: what the request's status was is not kept.

**An AHCI port.**  The interrupt routine of `AhciPort` is six actions (`Enter`, `ReadCi`, `Clear`,
`Events`, `Ignore`, `Serve`): between two of them the adapter may end a command, fail
it, or lose the device.  Interrupts, `StartIo` and resets exclude each other.

**Bring-up.**  `Adapters` runs the enumeration function by function, then the starts in the order of
`DriverEntry`; `ChipRegs` says for a chip how many channels it gets and which registers each has.
The port driver, the HAL and other drivers are external: they refuse a start at most
`MaxFaults` times, own ports, and find controllers by vendor and device.

The modules share the code and not a state: `AtapiInterrupt__` appears in `ChanIo` by its
effect on the queue, in `DiskXfer` by retries and parts, in `Packet` by its phases, in
`AhciPort` by its AHCI branch, and in `IntrCheck` by its ways of ending.  Their composition would be the
product of these states, which TLC cannot visit; where they meet, each takes the others' results as
any of those they can have.

## 3. The runs

| Run | Bounds | Shows |
|---|---|---|
| `order` | 5 requests of one device (conflicting writes, an ORDERED one, one not reorderable), 4 queued, `TtlMod` 5 | order, overtaking and head promises of `ReqOrder`, and its inductive parts' types |
| `queue` | 4 requests for device 0 (one HEAD_OF_QUEUE), 1 for device 1, 4 queued | lists and counters consistent, turns; `ReqQueue` implements `ReqPlaces` |
| `io_patient` | 3 requests, two devices, a transfer in two parts, 3 attempts | without answers that need no interrupt: never idle with work, current is executed, everybody is completed without any timeout |
| `io_faults` | 4 requests, READ CAPACITY and INQUIRY among them, two devices, every fault and call | completed once, nothing left behind, the executing request left alone |
| `io_timeout` | 3 requests: DMA in two parts, SMART, PIO | every request completed through bus resets at the latest |
| `timer` | 3 channels (symmetric), delays 0, 1, 3, clock to 6 | list in order and entries callable until a channel of the list asks again, timer set |
| `intr` | 2 channels, chips with a flag per channel and SATA chips, with and without `AtapiInterrupt2` | spinning ends, a silent channel has a caller, an interrupt taken off the device is not forgotten, but in the ways named |
| `disk` | 33 controller families times drives of four generations that refuse modes; contiguous, scattered, unaligned and high buffers; drives without LBA, tracks of 3; 6 retries, 3 resets | blocks placed once in order, tables describe the buffer, timing fits the drive, failure only after PIO, but for a retry count of 6 |
| `packet` | 8 commands; devices that interrupt for the packet or not, PIO, slow and fast DMA, misbehaviours in groups of up to four, with and without the DPC; 2 resets | buffer never overrun, sense data kept; with the exceptions named: length reported is length moved, engine done, nobody waits for nothing |
| `ahci` | hard disk and packet device with pairs of faults, 2 units of data, 4 tries, 4 events | no completion missed, none invented, each request answered without a timeout unless it was lost |
| `probe` | about 1,900 machines under NT and Windows 2000: each of 27 kinds of chip alone, compatibility mode with claims and refusals, pairs of controllers, ISA and MCA; 1 refusal | one owner of each register, every disk at a legacy port served, every native controller started |
| `probe_gap` | two machines with an empty function | ends with a counterexample, see below |

Four queued requests are the least with which the walk from the tail passes two gaps,
so that a barred gap can hide a cheaper one.  Two devices are all an ATA cable has.
With three attempts a retry can be followed by success and by giving up; `disk` has the six
attempts of the code because its fallback tables are indexed by them, and three resets: the
count saved by one is found by the next, so two are the least.  A third channel is the least for
an insertion in the middle of the timer list.  Two channels are what the second interrupt handler shares, and what the
hint `first` chooses between.  Two units of data let a command of an odd length end in the middle.
Two controllers, each with up to two legacy ports, are what competes for primary and secondary.

`probe_gap`: `DriverEntry` says of empty functions of a slot that the port driver stops scanning there and
that "UniATA will perform all staff instead of ScsiPort under NT" (10977-10978).  The mark that
leads there, `NeedAltInit`, is set from `NeedPciAltInit`, which the enumeration sets in its
first pass while the list is filled in the later ones, which skip such functions before they are
read (`id_probe.cpp` 373-380).  So the mark is never set and the controller behind the
empty function is not started.

Each property has a defect planted beside the definition it concerns (`...Blind`,
`...Uncounted`, `...Twice`, ...): with it in place of the definition the
property is violated.  `PROJECT.json` pairs them under `mutants`.

## 4. Fairness

`ChanIo!Fairness`: the loop of `AtapiStartIo__` goes on (weak fairness of
`Step`; it runs under the lock and nothing preempts it) and a finished command's
interrupt is served (strong fairness of `Interrupt`, since new calls may take the lock
between assertion and service, but the line stays asserted).  `PatientSpec` needs no more.  `TimeoutSpec`
adds that a reset, once begun, completes its requests (weak, one call), and that the port
driver's watchdog fires for a request that stays uncompleted (strong: the timer
restarts when other requests complete).  `AhciPort!Fairness`: an interrupt routine that can run
does (weak, `Isr`), and a command that runs ends, well or with a fault (weak, `Finish`); resets
and plug events are never fair, so `Answered` owes nothing to timeouts.  Calls of the port driver are never
fair either: it need not send anything.  The other modules check safety only, partly in the form "somebody
will look again" (`SilentHasCaller`, `NotForgotten`, `Awaited`, `NoneMissed`), which is what fairness would
turn into progress.

## 5. What is proved

The theorems hold for every value of the constants that the named assumptions allow: any number of
requests, channels or retries, any commands, costs and faults.  The assumptions give the constants
their types and little else; each run evaluates them.  TLC checked every inductive invariant on the
instances of section 3 before it was proved.

**`ReqOrderProof`** (`CmdAssumption`, `TtlAssumption`).

* `TypeCorrect`: `Spec => []TypeOK`.  Includes that a request stands at most once, in
  the queue of its own device.  Rests on lemmas about `PutBehind` and `TakeOut`
  (length, members, distinctness, order of the other elements).
* `ConflictsKeepOrder`: `Spec => []ConflictOrder`.  The invariant is not inductive: a
  pair left in the history from an earlier stay of a request would be taken for one of its
  present stay.  `OrderInv` adds `HistoryQueued`: the history speaks of queued requests
  only.  Insertion is the interesting step: a pair that becomes inverted has the new
  request in front, so the other one was passed and `Places` allowed it.
* `OvertakingIsBounded`: `Spec => []BoundedOvertaking`.  `passed` alone is
  not bounded by what is known about `passed`; `Budget` says that overtakings suffered plus
  ttl left never exceed the limit.  A request with ttl 0 is never passed without HEAD_OF_QUEUE,
  so the byte does not wrap.
* `HeadNeverDisplaced`: `Spec => HeadStays`, from type correctness.

**`ReqQueueProof`** (`CmdAssumption`, `QueueAssumption`, `DepthAssumption`).  First the C functions of `ChanQueue` on lists of any length.
`HasLists(c, L)` says that the links of `c`, in both directions, are those of the sequences `L`, one per
device, without repetition, with their depths, ends and current request.  `QueueFirstLists` and
`QueueBehindLists` say that `QueueRequest` keeps this and where the request goes: behind
one that `MayBeBehind` allows, which no conflict, ttl or order bars, although the code chooses by
sums of costs.  The argument is about the offers the walk makes: its start (the tail, or the head for a
`HEAD_OF_QUEUE` request), and every gap with no `Barred` gap between it and the tail.  A gap is barred
when going in front of the next request costs more than `CostReselect`, as it does behind a used up
ttl and for a denied or intersecting pair, so that whatever an offer passes may be passed
(`OffersAre`).  The offers are never empty and one of them is the first of the cheapest
(`BestOffer`, `InsertBehindIs`).
`RemoveLists` is the same for `RemoveRequest`.  `ListIs` is the bridge from the chain of links to a
sequence.  The library's induction over data is out of reach of the provers, so that recursive
functions are reasoned about by the least number for which a claim fails (`LeastNat`).

Then the queue under any calls.  The invariant `QueueIInv`: there are lists, and they hold the requests
whose state is not NONE.

* `LinksAgree`: `Spec => []ListsAgree`.
* `NobodyStarves`: `Spec => []WaitBounded`.  Needs that of two devices one was chosen last
  and waits 0 turns (`WaitInv`).
* `QueuePlaces`: `Spec => ImplementsPlaces`, the refinement: each step of the linked list is a step
  of `ReqPlaces` under the mapping of section 2, or a stutter.  What `ReqOrderProof` shows of the
  order of requests thereby holds of the linked lists.

**`ChanIoProof`** (the same, `IoAssumption`).  The invariant `IInv` says that the links of the queue make lists, that
these hold the requests the port driver waits for and no others, but for a new one that the loop has in
hand, and that no queued request is in a state in which the loop would take it up a second time
(`Settled`).  It is proved with one lemma per action, each built on three: what queueing, removing
and setting a state do to the lists of any queue (`QueueKeeps`, `RemoveKeeps`, `StateKeeps`).

* `EachIsCompletedOnce`, `QueueIsClean` and `IoTyped`: `Spec => []CompletedOnce`,
  `[]NoneLeftBehind`, `[]TypeOK`, through any failures, aborts and resets.  They are
  proved under `Undisturbed`, which excludes two paths of the code that break them (section 6, **Queue and
  dispatch**): `RemovedOnce`, no PIO write is refused after its command, and `QueuedOnce`, no SMART
  request together with calls that are answered at once.  Without these hypotheses TLC finds
  counterexamples; with them every other kind of request and fault is covered.
* `ExecutedIsLeftAlone`: `Spec => []LeftAlone`, under `RemovedOnce` and without SMART requests.
  `DevInv` adds that what the hardware executes is queued and EXPECTING, except during a bus reset.
* `CurrentIsExecuted`: `PatientSpec => []CurIsExecuted`, under `Undisturbed` and `CurKept` (no request that is answered
  while it is prepared, no abort: each may make another request the current one).
* `ChannelStaysBusy`: `PatientSpec => []StaysBusy`, if every request is sent to its drive and only
  errors of commands happen (`OnlyErrors`, `QueuedOnce`).  Both invariants speak also of the loop's
  request (`CurInv`, `BusyInv`), for between an interrupt and the next command nothing is executed.

The runs `io_faults` and `io_patient` satisfy these hypotheses.

**`IntrCheckProof`** (`IntrAssumption`), for any number of channels.  `IntrTyped`, `SpinningEnds`, `SilenceEnds` and
`NoInterruptForgotten`: `Spec => []` of `TypeOK`, `SpinEnds`, `SilentHasCaller` and `NotForgotten`.  The invariant gives each
mark and each silenced channel an owner: `KeptInv` (who will come back without an interrupt), `LockInv` (who looks
at a channel has marked it), `FoundInv` (an interrupt that was taken off the device belongs to somebody, or is one of those
the code throws away, in the ways section 6 lists and the model records in `dropped`),
`PassInv` (the scan has looked at every channel that expects an interrupt before it takes one for
unexpected), `CountInv` (the hint counts at most the requests there are, and one).

The same module has the theorems about `TimerDpc` (`TimerAssumption`): `DelaysTyped`, `OnlyWaitingAreCalled`, `TimerIsSet`, `ListInOrder`:
`SpecDpc => []` of `TypeOKDpc`, `NeverCallsNull`, `TimerSet` and `InOrder`.  Nothing is assumed of who asks and when.  `NeverCallsNull` and
`InOrder` end with the first call that is asked for by a channel already in the list, since from then on they are false
(section 6, **Timer**); `DelaysTyped` and `TimerIsSet` go on.  Until then the list lies within a set `W` of channels whose links lead from waiting channels to waiting
channels of `W` (`Closed`, `Callable`), no two to the same one and none to the first (`Distinct`), each to a later call (`Ordered`).
There is such a set (`ListInv`), and the channels that the links reach are one (`FromGood`); an entry that a careless insertion has cut
off is not in it, so that its channel may ask again.  While
a call is in progress the timer is set or will be (`Remembered`).

**`PacketProof`** (`PacketAssumption`: lengths are numbers, and a command without direction has none), for any commands and any number of resets.
`BufferIsKept`, `ToldAsMoved`, `EngineIsDone` and `AlwaysAwaited`: `Spec => []`
of `TypeOK`, `AsMoved`, `EngineDone` and `Awaited`, each with the exceptions of section 6, which the properties name;
`SenseIsKept`: `Spec => SenseKept`, an action property.  The
invariant relates what driver and device have counted (`CountInv`), who looks next, the DPC included
(`LookInv`), whose call the timer holds (`CallInv`), when the engine runs (`EngineInv`), what the device can have done
(`FaultInv`) and where sense data may be (`SenseInv`).

**`AhciPortProof`** (`AhciAssumption`).  `PortTyped`, `NoInterruptMissed` and `AnswersAreTruthful`: `Spec => []` of `TypeOK`, `NoneMissed` and
`Truthful`.  The handler reads the status, the command register and the errors at different times, so the
invariant says for each place in the handler what of its reading is still true: PxCI is stale in one direction
only (`SlotInv`), a halted command has left an error bit that is uncleared or in hand (`HaltInv`), what ended since
will interrupt again (`AttendedInv`), bits of an odd length belong to the request in the slot (`OddInv`).

**`DiskXferProof`** (`DiskAssumption`, `CasesAssumption`, `RequestsAssumption`), for any set of controllers of the
33 families, drives and the modes they refuse, physical pages, requests and resets.  `CasesAssumption` gives the types and says that three
families have no chip for UDMA6, that boundaries are not within a page and that a segment may be a page long, as the code's
constants have it (`id_init.cpp`, `bsmaster.h`); `RequestsAssumption` that the buffer of a request is there.

* `Typed`: `Spec => []TypeOK`.
* `BlocksPlaced`: `Spec => []Placed`.
* `TablesFit`: `Spec => []TableFits`, for controllers without 64 bit addresses.  With them it is false
  (section 6, **Disk**).
* `TimingsSuit`: `Spec => []ChipFits`.
* `LastTryInPio`: `Spec => []FailedInPio`.

The invariant `IInv` is needed because each property speaks of one moment, and what makes it true was done earlier, by another handler, and
outlived errors and resets in between.  Its parts:

* `LunGood`: a DMA mode that is set suits the drive and the chip, or is going to be set again
  (`reinit`).  Sending a command restores the mode if a reset has made the drive forget it.
* `FlagsGood`: the count and the address a reset saves are such as a request can have; the engine runs for the request in hand only.
* `Counted`: a request in hand has blocks left, its part is among them, and once retried it is forced into the mode of its count.
* `Running`: what executes was sent in the mode that is set, and the last retry is not a DMA command.
* `Written`: the medium holds exactly the blocks done, and the registers of the last part lead to the next one, by
  division with LBA off.
* `Tabled`: with LBA a request is one part and its table is that of the whole buffer.
* `GivenUp`: `FailedInPio` of a request, as the next one must not disturb it.

The lemmas about the operators come first.  Each ladder of `XferModes` is a sequence of rungs that suit the family (`SuitedLadders`), and
going down a ladder whatever the drive refuses ends on such a rung or in PIO (`DmaInitIs`).  For the table, `Tables` and
`Units` are recursive functions, so that existence and the induction on the turns are proved with the least
number for which the claim fails; `OneTurn` says that a turn of the merging loop adds the units of its piece, keeps entries short
enough and off boundaries, and adds one entry at most, and `BounceFits` and `BuildFits` that the result is the buffer, or there
is no table.  `SetupIs` is what `AtapiDmaSetup` promises.

**`AdaptersProof`** (`MachinesAssumption`), for any set of machines, functions and options.  `MachinesAssumption` gives types only: 32 bits
in port maps and masks, four legacy addresses.

* `AddressesServed`: `Spec => []LegacyServed`, if a controller in compatibility mode has its ports at the legacy
  addresses (`PortsAtHome`).  While no start meets a refusal, every claim, of the system or of the driver, is another
  driver's or has an adapter behind it (`ClaimsServed`), and only a claim makes the ISA search pass over an address.
* `NativesStarted`: `Spec => []AllStarted`, if chips with ordinary ports have two channels at most (`Pairs`).  The port
  driver offers the first function of an identification it has not given away, the driver
  goes through its list; that both come to the same function at the same time needs the order of the list (`InOrder`,
  `Enumerated`), that nothing native has been given away before the native loop (`MasterFirst`), and that every earlier twin has been
  given and no later one has (`InTurn`).
* `RegistersOwned`: `Spec => []OneOwner`, if the machine is as `Wired` says: `PortsAtHome` and `Pairs`; functions have
  identifications of their own (`Distinct`); chips of one vendor and device number have one kind of register map
  (`SameMaps`); and nobody else decodes the legacy ports of a native controller that has them (`OneAtHome`).  The invariant is
  `Owners`: besides `OneOwner` itself it knows of each adapter how it was made.
  - An adapter of a PCI controller (`IsPci`) has channels that `ChannelRegs` makes of its function and of the one offered for
    it, which is its own or has been given away (`MadeOf`); its ports are claimed by the driver, and by the
    system too if it is in compatibility mode (`Claimed1`, `Claimed2`).  The claim of the second port may have been
    withdrawn under NT, and then the adapter has both ports or the port is among those seen by the loop.
  - While a controller is tried under NT, where a start withdraws the claim it is about to test, ports of other
    controllers are kept apart by what the loop has seen, and the first channel of the same controller by
    its number and `started` (`InTry`).
  - Every adapter so far is of an earlier entry of the list (`PlacedIn`), and the list names no function twice (`Listed`).
  - An adapter of the ISA search (`IsIsa`) has one of the addresses passed already.

  For a step that adds an adapter it is shown that its own channels are apart (`ChannelsApart`, from the register maps of
  `ChipRegs`: AHCI, the chips with maps of their own, ordinary ports), and that its registers are apart from those of any other adapter,
  apart from their ports (`PairApart`: ranges carry the identification of a function, and two adapters of different functions
  that are offered different functions have no tag in common, `RangedApart`), and that they have no port in common but by the
  exceptions `OneOwner` names (`TryPair`, `NativePair`, `IsaPair`).

The machines of `probe` satisfy `Wired`, which TLC evaluates (`MachinesWired`).  `Pairs` excludes tables with a wrong row
(an ALi chip of four channels without its flag), and a VIA chip with a base address per channel which lacks the
sixth one, when an option asks for a third channel.  `OneAtHome` excludes what no bus allows.

**Only model-checked.**  Liveness: `EveryoneCompleted` and `Answered`, as temporal proofs under fairness
need ENABLED, which the provers do not have.  The modules are checked one by one; that they agree where they
share code is not a theorem.

**Neither checked nor proved.**  `DmaTable` with `host64`: every case of the run `disk` has it FALSE, and `TablesFit` excludes it.  See section 6, **Disk**.

## 6. Where the code departs from what one would expect

The properties hold in spite of these; where one has an exception for them, it is named.

**Queue and dispatch.**  Without LBA `bcount` is one track only, so a read is queued in front of an
earlier write that covers its blocks (`id_queue.cpp` 67-70).  A request that is answered without
interrupt (INQUIRY) ends with the loop finding a prepared (READY) successor; READY is past
QUEUED, so the channel stays idle with work until something else is sent (10333).  READ
CAPACITY for the other device, answered while a command runs, makes `UniataRemoveRequest` choose
a new current request, and the interrupt completes the wrong SRB (`id_queue.cpp` 327).
An executing SMART request keeps the state QUEUED and is taken up again after an SRB that is
answered at once (10333).  A PIO write whose DRQ never comes is removed twice: by `IdeReadWrite` (7155), which leaves the caller to set the state to
COMPLETE, and by the loop, which then takes it for queued (10322).  If another request is queued for the device, `queue_depth` of device and channel
is one too low from then on, and the last request of the list is no longer seen as one that waits.
The theorems about `ChanIo` name both as hypotheses (`QueuedOnce`, `RemovedOnce`): with three PIO requests TLC finds `NoneLeftBehind`
and `CompletedOnce` violated.  This is why
`io_patient` has no INQUIRY or READ CAPACITY, `io_faults` does not check `CurIsExecuted`, and
`io_timeout` has a SMART request but no SRB that is answered at once; `io_faults` has no PIO
and no SMART request for the same reason.

HEAD_OF_QUEUE requests sent without end starve the others, and take a `ttl` of 0 to 255.

**Timer.**  A later call queued behind the only entry replaces it: at the end of the list
`prev_chan` is the entry before the last (1366; the comment at 1328 says the list is kept sorted).
So `timer` does not check that no call is lost.  The timer for the next entry is set with the difference of the times taken the wrong way round,
so that it runs for some seven minutes, 2^32 units of 100 ns less the time there is left (1310); `TimerSet` says that it is set and not for when.  A channel that asks for a second call while it waits (5121, 5140,
6596, 3899 and 3921 do not look: a handler that ends while a call waits asks for one more) is put into the list again.  When the walk ends
next to the entry it is itself, it is linked to itself (1366-1372): its call is made, `HwScsiTimer` is NULL the second
time (1275-1283), and a walk over times that have passed does not end.  `DpcTime` of a linked entry is overwritten, so that the list is no longer
sorted.  `NeverCallsNull` and `InOrder` hold until a channel of the list asks again.

**Interrupts.**  There are four ways in which an interrupt that is expected is taken off the device and then thrown away; `NotForgotten` excepts them by what
the model records in `dropped`.  The base status is read and has neither DRQ nor DRDY (4884-4887), whatever is expected.  `AtapiInterrupt2`
reads the status after the command was written (1035) and before its interrupt is expected (1102, 7160).  `AtapiInterrupt` takes up what
`AtapiInterrupt2` has DETECTED with the result of its last check, which was of another channel: if that was UNEXPECTED
the interrupt is dropped (4092-4100).  A request whose end is left to the DPC expects no interrupt (5108), and if the device goes on with it
`ReturnEnableIntr` does not change that (6576-6580; the line that would is a comment).

**Disk.**  On a drive without LBA that does DMA, a retried part of a chained transfer is computed from
itself and skips blocks (6900), and the table stays that of the first part (`id_dma.cpp` 270): `Placed` and `TableFits` leave such drives with DMA out.  Merging compares
the lower 32 bits of addresses only; with `host64` the upper half is assumed equal.  Only AHCI adapters set it, and there a first page above
4 GB makes `AtapiDmaSetup` overwrite `ahci_base64` (`id_dma.cpp` 334), the address of the command table that was set at 322 and is
used at `id_sata.cpp` 2202.
Tables for fast modes end early: `ali_udma`, `via_pio`, `sw_pio_modes`, `cmd_pio_modes`; the old
Cyrix table is read at index -1; HPT370 falls through; PIIX and new ITE chips compare a mode's index
with the mode's number; Cyrix 5530 and ServerWorks/ATI (WDMA) are programmed with the best
mode and not the accepted one; Promise skips WDMA0 and UDMA6; PIIX4E is set for more than it can.
`ChipFits` names the families in `Misprogrammed`.  The flag that was meant to keep LBA48 off DMA is set in
`DeviceFlags`, where its bit means a removable drive (`id_dma.cpp` 803).  The fallback tables `retry_Wdma` and `retry_Udma` have six
initialisers for `MAX_RETRIES + 1` places (`id_dma.cpp` 53-54), so the last place is 0 and not -1.  After three errors and
three bus resets, each of which saves the count and adds one (2490-2494), a request runs with a count of 6, goes
back from PIO to UDMA0, and can be given up there.  `FailedInPio` leaves that count out; without
this exception `disk` finds it violated.

**Packet.**  In a DMA mode a device that interrupts per block is reported while the engine runs:
EXPECTING_DATA_INTR2 is overwritten at 5039 before it is compared at 5737 and 5859 (`EngineDone`
leaves such devices out, `BlocksAwaited` is the claim without the exception).  A hardware error
in a mode above UDMA2 is retried with the count reset, without end (5493-5502).  What is reported of a command differs from what was moved in four ways that `AsMoved` names.  A PIO request that is over
while the device is busy once more, or still has data, goes on in the DPC (6283-6287, 6339-6345), where the handler begins with
SUCCESS (4947) and goes straight to the wait (5148-5157): words that are missing, an overrun and an error of the device all become SUCCESS,
with length 0 if words are missing (6383-6393).  After a
recovered error the length is 0 unless the driver counted the words down, which it does not with
DMA.  A request that meets a device still showing that error is to be failed ("fail this request",
7856) but is not sent and called a success, since `MapError` makes SUCCESS of a recovered error.  And one that waits for a seek is, by
a call that outlived a bus reset.  If the device has more data for a request in the DPC, the request goes on and expects no interrupt any more, so that only
a bus reset ends it (exception of `Awaited`).  The DMA engine is not stopped when the device interrupts while it is busy and the engine still has words
to move (4851-4859): a device that ends such a command early leaves it running, for its own request and for those after it, until another interrupt
stops it (exception of `EngineDone`).  The other path that leaves it, an early interrupt without `g_WaitBusyInISR` (4889-4891),
is never taken, since that variable is 1 (87) and nothing assigns it.  Commands that set
the mode before the error state is looked at discard the sense data (7852; `SenseKept` speaks of PIO).
`AtapiSendCommand` returns on errors with `ExpectingInterrupt` still set (8085, 8126, 8139).  A packet that
waits for a seek has nobody to resume it (7865-7872) but the timer, whose call may
outlive a bus reset and serve the next request.  The comparisons with DPC_WAIT_BUSY0 (5371, 6567) are never
true.  PIO completion in the status phase counts all words as moved (`Untold`);
an error register without a known bit leaves SUCCESS.

**AHCI.**  The controller's interrupt bit is cleared before the port's (`id_sata.cpp` 1159-1160), so each
interrupt comes again with nothing behind it; that second one also rescues a
completion that collided with the first.  After an abort that failed, the retried
command is written to a stopped port and ignored (`Lost`).  An error that sets no error register is SUCCESS with
length 0 on the last try (exception of `Truthful`, which speaks of hard disks).  A device plugged in sends both events:
it is attached, then detached, and forgotten until the next bus reset.  The identification of an attached
device uses the slot of the running request.  For packet devices any interrupt is taken for the completion.

**Bring-up.**  `NeedAltInit` is never set (run `probe_gap`).  The registry value that would select the WDM
model is misspelt (10678, 10682), so no system uses it.  Under NT the second start of a simplex
controller clears the claim of the secondary port and finds an adapter without channels, so another may take the port
(`SecondPort` in `OneOwner`); the claim check looks at the first channel of a pair only, so an adapter with both ports takes the
second from another controller (`SecondPort`) or is started again after it has lost the first (`StartedAgain`);
claims stay after a failed start (`id_probe.cpp` 1796; `LegacyServed` excepts every machine where a start was refused); an excluded
channel in compatibility mode is found again by the ISA search; with identical controllers the port
driver may offer the other one's function (`Displaced`), and a native controller is started with the ranges of a twin
in compatibility mode that has not been claimed (`SameBase`).  Excluding a channel has no effect on native
controllers, and chips said to have three or four channels come out with two at most (`id_init.cpp` 111, 325) unless the option
`NumberChannels` asks for more; on Promise's chips the task files of the third and fourth channel are then at
the SATA registers of the first and third (804, 818).  On ALi's
SATA chips channels 0 and 1 share the task file (702-705); on Silicon Image chips the SATA
registers of channels overlap (899-900); both adapters of a controller in compatibility mode use the SATA registers
of channel 0.  Of the Intel ICH, SStatus of channel 0 is taken for absent, since its index is 0 (1314, 2820).

## 7. What is abstracted

Registers other than those named, port addresses in `ChanIo`, status polling and stalls; the
encoding of LBA28 and LBA48; data other than its place.  In `ChanIo` a command ends with success, with
an error or never, and waiting for BSY and DRQ in several steps is one step; `Packet` has these steps.  `ATA_REQ`s of SRBs other
than EXECUTE_SCSI and SMART have no life in the queue and are the action `Immediate`.  `ChanIo` is one channel of a
controller whose channels are independent (not simplex).  `DiskXfer` has one device, whose errors and
interrupts come one at a time.  `AhciPort` has one command slot, as the driver uses only slot 0; a link failure
(IF, OF) stops the command.  `ChipRegs` names a register by base address and offset; sizes of
the ranges are those the driver declares.

Finer points in which a module is coarser than its code:

* `IntrCheck`: an increment of `ExpectingInterrupt` (4452), which is not interlocked, is one step, so no update is lost; so are the two
  compare-exchanges of a lock attempt.  The list of delayed calls is one field per channel here (`timer`): a second call replaces the first.
* `Packet`: the status of its devices always has DRDY, so that the return at 4884 is in `IntrCheck` only.
* `ChanIo!Done` retries a failed DMA transfer up to `MAX_RETRIES`; in the code a request that has fallen back to PIO on the way ends with its next
  error (5473-5478).  `DiskXfer` has that; there a PIO error adds one to the retry count of a request that is given up, where the code may add two (5474-5475).
* `DiskXfer!Reinit`: for AHCI `AtapiDmaReinit` returns at once (`id_dma.cpp` 762-767), so AHCI disks are not among the families of the run.  Left out are the
  test of the last device for chips whose devices share a timing (841), and the branch for `HBAFLAGS_DMA_DISABLED_LBA48` (789-795), whose flag nobody
  sets as things are (section 6, **Disk**).
* `AhciPort`: the mask PxIE is left out, so every event interrupts; in the code none does during a reset (`id_sata.cpp` 1941), and only plug events do
  when a reset has found no device (1953-1954).  The error bit HBD (1189) is taken
  together with HBF.  The registers `UniataAhciEndTransaction` reads (2314, 2339, 2355) are read in one step.  The early returns of
  `UniataAhciBeginTransaction` for tables that are empty, too long or not aligned (2192-2218) do not occur.

Not modelled, and why:

* `UniataGetNextChannel` (simplex): the modules of requests have one channel.
* Bad blocks, IOCTL contents, user-mode tools: pure data and text, sequential.
* Detection of devices (`FindDevices`, `CheckDevice`, `IssueIdentify`) and setup registers (`AtapiChipInit`,
  `AtapiReadChipConfig`): sequential hardware programming whose outcome other modules
  take as any of those possible.
* `IdeVerify`, `IdeSendCommand` and SMART contents: kinds of `ChanIo` only.
* Power management: stops and restarts the adapter with no request outstanding; what a restart does to modes is
  the reset of `DiskXfer`.
* Port multipliers and the link control of SATA controllers without AHCI; Intel 31244; the change from AHCI to
  IDE on ICH and the AHCI function of JMicron chips.

## 8. Plan

1. Proofs: an invariant of `ChanIo` for a queue in which a request may be counted twice, to say how far the
   double removal goes.
2. `NextChannel`: the choice among the channels of a simplex controller, with `ChanQueue`.
3. `TimerDpc` composed with `IntrCheck`, to say which of the second calls that break the list the handlers can ask for.
4. Detection of devices, with the identification in the interrupt of `AhciPort`.
5. Bad blocks, as a pure algorithm against a reference definition.
