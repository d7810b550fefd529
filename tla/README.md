# TLA+ verification of Pico-PIO-USB

Pico-PIO-USB makes USB host and device ports out of the RP2040's PIO blocks: the
PIO programs shift bits, and a C library does everything above them, from bit
stuffing to transfers. The C code is two kinds of thread on one or two cores
(a 1 ms frame interrupt or a packet interrupt, and whoever calls the library)
which share plain structs without locks. That is what this project is about.

Paths below are relative to the repository; `host.c:700` is
`src/pio_usb_host.c` line 700, `usb.c` is `src/pio_usb.c`, `device.c` is
`src/pio_usb_device.c`, `ll.h` is `src/pio_usb_ll.h`.

## 1. Inventory

| Component | State it keeps | Operations | Hard behaviour | What makes it correct |
|---|---|---|---|---|
| Endpoint bookkeeping, `usb.c:544-749` | `endpoint_t`: `has_transfer`, lengths, `data_id`, `failed_count`, the encoded packet | configure, transfer start / continue / complete | published to another thread by its last store; uint16_t lengths | progress never passes the length; the encoded packet is the next one |
| Host frame handler, `host.c:660-849` | `root_port_t`: `connected`, `suspended`, `ints`, `ep_*` registers | SOF and disconnect check, transaction pass, connect check, interrupt call | preempts or runs beside every API call; retries; a device that goes away mid-transfer | every accepted transfer has exactly one outcome, at the right port |
| Host API, `host.c:859-1077` | the endpoint pool `pio_usb_ep_pool` | open, close, close_device, send_setup, endpoint_transfer, abort, port reset, add_port | abort handshakes with the frame handler through two flags | abort's answer is true; nothing stale in a reused entry |
| Host interrupt handler, `host.c:1388-1497` | clears `ints`, `ep_*`, sets `event` | tells the stack of every flagged endpoint | flags raised while it runs | nothing lost, nothing told twice |
| Bulk stream, `host.c:443-655, 1085-1195` | `pio_usb_bulk_ring_t`, `endpoint_t.bulk_ring` | attach, produce, detach; start, read, stop, stats | single-producer single-consumer ring and a seqlock across two cores; ownership of freed memory | bytes in order and intact; snapshot consistent; the ring untouched after detach |
| Bulk polling and burst, `host.c:530-655, 1242-1285` | `data_id`, `failed_count`, the stream's counters | one packet per frame and more in the rest of it, for a stream or a queued transfer | lost tokens, packets and ACKs; repeats | every packet of the device once and in order |
| Isochronous ring, `host.c:283-441` | `iso_ring_*` | receive into the ring, drop the oldest, hand over, set_iso_ring | a full ring, a silent device, a handler of the application between any two stores | a reader finds whole packets, and every gap marked |
| Microphone, `examples/host_iso_mic` | `mic`, `xfer_pending`, `ep_opened` | mount, stream, pause, resume, unmount | completions queued by the stack overtake pause and resume | never two transfers at once |
| Device controller, `device.c` | `ep0_*`, `new_devaddr`, `ints`, `ep_complete`, `ep_continue` | packet interrupt, device_task, irq_handler, setup stage, open, transfer | interrupt against task with non-atomic read-modify-write; bus reset at any time | a packet is ACKed once and kept once; the address changes after the status stage |
| Bus transactions, `usb.c:43-400` | PIO flags, `usb_rx_buffer` | send token, wait for handshake, receive and acknowledge | timeouts against late packets, SYNC realignment while bytes arrive | no wait is endless; a packet is ACKed only if its CRC is right |
| Line coding, `usb.c:599-666` | none (pure) | bit stuffing, NRZI, packing into PIO symbols | stuffing at boundaries; buffer length | the waveform decodes to the packet; the buffer never overflows |
| CRC, `src/usb_crc.c`, `device.c:33-42` | tables | CRC5, CRC16 | tables against polynomials | equal to bitwise division |
| Host timer control, `host.c:117-144` | `timer_active`, `start_timer_flag` | stop, restart | spin loops on another thread's flag | they end |
| Port bring-up and pin functions, `usb.c:420-540, 751-780`; PIO programs, `src/*.pio` | PIO registers | configure state machines | cycle timing | outside a model of control |

How they interact: the TinyUSB host stack (external) calls the host API; the API
writes `endpoint_t`; the frame handler reads it, drives the bus transaction
layer and raises bits in `root_port_t`; the interrupt handler turns these into
calls of the stack (`handle_endpoint_irq`, application hooks) and clears them.
The device controller uses the same endpoint bookkeeping from a packet interrupt
on one side and `pio_usb_device_task` on the other.

## 2. Modules

`PioUsbLL` - the endpoint bookkeeping as operators on one endpoint record. No
variables. What the record leaves out: `app_buf` (it is the start of the buffer
plus the offset of the next packet) and the waveform (`encoded` is the data
packet it was made from: PID, offset, length). `PioUsbLLProofs` - what each
operator returns, for the proofs of both controllers.

`HostController` - the host controller, default build (`PIO_USB_HOST_ISOCHRONOUS`,
`PIO_USB_HOST_BULK_STREAM`, `PIO_USB_HOST_BULK_IN_BURST` off). Two threads and
an environment:

* `frame`: `pio_usb_host_frame` as a machine with a program counter: `SendSof` or
  `ConnectionLost` per port, `EnterPort` per port, `SkipSlot` or `VisitLive` -
  `StartTransaction` - one of `SetupTransaction`, `InTransaction`,
  `OutTransaction` per pool entry, `CheckConnect` per port, `IrqHandler` per port.
  The device's reply is an input: any PID of `Replies`, or `"NONE"` for silence
  and for every packet that is not sound.
* `api`: the host stack's thread, one API call at a time, cut where an interrupt
  between two stores matters: `EndpointOpen`/`EndpointBind` (the entry is valid
  before it is bound), `SendSetup` or `EndpointTransfer` / `TransferFill` /
  `TransferPublish` (has_transfer is stored last), the six steps of abort, the two
  halves of `port_reset_end`, `CloseDevice` slot by slot.
* `LineChange`: a device is plugged in or out at any moment.

`SameCore` says whether the frame interrupt runs on the caller's core (the
caller is stopped while it runs; default alarm pool) or on the other one
(`skip_alarm_pool`). `Disciplined` is what is assumed of the stack: it does not
submit to a control endpoint, nor close any endpoint, while a transfer it queued
there is unsettled. TinyUSB serialises control transfers and aborts before
closing; the library itself does not check either.

`owed` and `unreset` are ghosts: the transfers whose outcome the stack has not
been told, and the ports whose device has not seen a bus reset. An outcome is told by
an event (`Told`) or by what abort answers (`AbortClear`); `AbortedOnce` relates the two.
Of `handle_endpoint_irq` only the register is modelled, not the control pipe (section 7).

`HostControllerProofs` - the theorems, about outcomes, then about addresses, events and
the progress of a transfer. `MCHost` - values of the constants for TLC.

`ByteFifo` - the abstract promise of a bulk stream's ring: a bounded queue of
bytes, written a packet at a time and read from its front, nothing lost,
reordered or altered.

`BulkRing` - `bulk_ring_write` on the frame handler's core against
`pio_usb_host_bulk_stream_read` on the application's, each copying a byte at a
time: `WriteBegin` - `CopyIn`* - `Publish`, `ReadBegin` - `CopyOut`* - `Release` -
`ReadReturn`. The positions run modulo `PosMod`, standing for 2^32, and wrap
within a run. The refinement mapping takes the queue to be the bytes between
the published positions. `BulkRingProofs` - the theorems.

`BulkStream` - who may touch a ring and when: one endpoint, one ring, one port,
three threads. `frame` is the part of `pio_usb_host_frame` that sees the stream
(begin, disconnect check, SETUP pass, normal pass, bursts, connect check, end,
with `DetachFlag`, `DetachNull`, `DetachActive` the three stores of
`bulk_stream_detach`, and `NormalTurn`, `NormalLoad`, `NormalStart` the test of the
transfer, the load of the ring and the store of `transfer_started`); `app` starts, stops
and frees the ring and takes its statistics; `stack` opens and closes the endpoint,
submits and aborts transfers, sends SETUP and resets the port. `PIO_USB_HOST_BULK_IN_BURST`
may be built in or not: `BurstTurn` leaves both open. `threads` is fixed in a behaviour: whether the frame
interrupt is on the callers' core (`same_core`) and whether application and
stack are one thread (`serial`). `BulkStreamProofs` - the theorems.

`BulkPoll` - what a polled bulk IN endpoint delivers. The frame handler counts
in the words of the ring's header (`FrameBegin` - `FrameCount` - `FrameUnlock` per
frame; `Exchange` - `Lock` - `CountPoll` - `JudgeNew` - `CountBytes` - `Write` or
`JudgeOther` - `Unlock` per packet, one action per update another core can see) or,
for a queued transfer, takes the packet in one step (`Transfer`); the application
reads and takes snapshots (`SnapBegin` to `SnapCheck`, the two halves of the copy
apart). `Exchange` is the bus: the answer is missing, damaged or sound, the
device hears the host's ACK or does not, and repeats what was not acknowledged.
`BulkPollProofs` - the theorems.

`IsoRing` - the isochronous ring, byte by byte, as operators on one record:
`copy_in`, `copy_out`, `drop_oldest`, `Store` (what a reception adds) and `HandOver`
(what a transfer takes), and the example's `process_records`. `IsoStream` - the
ring in use: `Frame` (`FrameReceives`, `FramePacket`, `FrameSkips`) against
`SetIsoRing`, `Queue` - `RingReset` - `RingAttach` - `Start` - `Publish`
(`endpoint_transfer`, store by store), the stack's events in their order, and the
example's callbacks (`Mount`, `InterfaceDone`, `RateDone`, `PauseDone`,
`IsoComplete`, `Remove`, its pause and resume). The device is an input: sound
packets (numbered, so that a gap shows), damaged ones, ones of which the host hears
nothing because SYNC or PID are lost too (`"vanished"`), silence, unplugging.
`IsoStreamProofs` - the theorems about the transfers queued and the gaps marked.

`Crc` - the two table-driven CRCs with their tables, and division by the USB
polynomials as the reference. `LineCoding` - `encode_tx_data` (stuffing, NRZI, end
of packet, padding), the packets the library builds, and `Captured`, what the
receiver's decoder program makes of them, early bits included.

`BusTransaction` - a transaction below the level at which `HostController` has a
reply as an input. Three parties: the CPU, cut at every access to a flag, the
FIFO or the timer (`ParkReceiver`, `TxStart` - `TxSent`, `StartTime`/`StartFlag`,
`RxFifo`/`RxFlag`/`RxTime`, `HsTime`/`HsFifo`/`HsFlag`, `Finish`, `End`); the PIO
programs as far as they share flags with it (`TxGap` - `TxStall`, the edge
detector `det`, the bytes of the decoder); and the device. An interrupt may stop
the CPU anywhere: nothing bounds the steps of the others in between, and a time
limit may pass between any two steps. The result is what `usb_in_transaction` and
`usb_out_transaction` go by: the length, the payload and the byte in the PID's place
(`usb_rx_buffer[1]`), whatever became of the reception. `BusTransactionProofs` - the theorems. `MCBus` -
values of the constants for TLC.

`DeviceController` - the device side: the packet interrupt (`IsrSetup`, `IsrIn0`,
`IsrIn1`, `IsrOut0`) against `pio_usb_device_task`. The interrupt runs to its
end in one step, together with the host's token and handshake. The task is cut
at every access to what the interrupt changes: `task.todo` lists the accesses
left in the current call, and `|=`, `&=` on a register are a `Load` and a
`Store`. The rest of the task is one action per part: `TaskPoll`, `HandleSetup`,
`HandleComplete`, `HandleContinue`, `HandlerEnd`, `TaskDesc`, `BusReset`,
`LineIdle`. For a report the device makes room for `ReportRoom` bytes, 8 in the code,
whatever the host sends. Application calls of `pio_usb_set_out_data` come from the other core.
The host is external: it carries out control transfers and polls endpoint 1.
`DeviceControllerProofs` - the theorems. `MCDevice` - values of the constants for TLC.

How the modules fit: `PioUsbLL` is used by `HostController` and
`DeviceController`; `BulkRing` refines
`ByteFifo`; `BusTransaction` is built on `LineCoding` and `Crc`; `IsoStream` on
`IsoRing`. The layers are checked apart and meet at an interface each: what
`BusTransaction` returns (`AcceptedIsSent`: a sound packet or a handshake of this
transaction, or neither) is what `HostController`, `BulkPoll` and `IsoStream` take as replies;
`BulkPoll` writes its ring in one step, which `BulkRing` shows it may, and has a
ring attached as long as `BulkStream` shows it is.

## 3. What each run checks

| Run | Question |
|---|---|
| `host_core` | two ports, one pool entry, control and interrupt transfers of two packets, every reply, plug and unplug, abort, close, reset: `Accounted`, `AbortedOnce`, `TransactionOwned`, `NothingLeftOver`, `ProgressInBounds`, `EncodedInSync`, `FlagsScoped`, `ConnectEventCurrent`, `DisconnectRetires` |
| `host_pool` | two entries, two devices that never answer: search, reuse and closing of entries (`OneSlotPerAddress`); under fairness their transfers are given up (`SilentDeviceRetires`); plugging out is noticed and leaves the event for the application, plugging in is noticed (`LineNoticed`) |
| `host_reset_connect` | violated: a device connected during `port_reset_end` is driven without reset |
| `bulk_ring` | the ring implements `ByteFifo` (`FifoSpec`) while producer and consumer copy at the same time and no byte of the storage is used by both (`NoDataRace`) |
| `bulk_stream` | the frame handler never touches a freed ring (`FrameKeepsOff`), nor does a call that found it detached (`CallsKeepOff`); a lost device is told apart from a stop (`LossReported`); every stop is honoured (`StopHonoured`); where callers do not overlap, no transfer is queued on the stream's endpoint, nor in a transaction if the frame handler is on the callers' core (`ExclusiveOwner`), it stays a bulk IN endpoint (`AttachedToBulkIn`), and the stream is gone before SETUP reaches the device (`DetachedBeforeSetup`) |
| `bulk_use_freed` | violated: a call on another core uses a ring its owner has freed |
| `bulk_poll` | a stream or a queued transfer over a bus that loses tokens, packets and ACKs: each packet of the device is taken once and in order (`DeliveredOnce`), and a snapshot of the counters is of one moment and agrees with the ring (`SnapshotConsistent`) |
| `poll_bad_pid` | violated: with the check bits of its PID damaged and its CRC right, a packet of a queued transfer is acknowledged and thrown away (`DeliveredOnce`) |
| `iso` | from the bus through ring, transfer and stack to the application: records arrive whole, and between two of them the host has heard of no other packet or there is a marker (`GapsMarked`); transfers never overlap (`NeverQueuedTwice`); none waits for a silent device for ever (`SilentTransferFails`) |
| `bus` | replies that are late, shifted, damaged, cut or endless: the host never receives its own packet (`OwnPacketUnheard`), hears a reply from its first bit where the PIO arms the receiver (`WholeReplies`), accepts a payload, an ACK, a NAK or a STALL only if the device sent it in answer to this transaction (`AcceptedIsSent`), and comes to an end (`TransactionEnds`); what it sends is decoded to itself, divides by the polynomials and fits its buffer, and no piece of a reply passes for another (`LineSound`) |
| `device_core` | enumeration, descriptors, reports that fit the device's room and one that does not, and transfers given up: `AnswersRequest`, `StartsWithData1Alone`, `AddressAgreed`, `ReportStored`, `TransferEnds` |
| `device_stale_continue` | violated: with a second endpoint in use a data stage starts with DATA0 |

Bounds. One entry suffices for what happens inside a transfer because entries
share nothing but the loops and the registers; the loops and the reuse of entries
need two (`host_pool`). `host_core` has two ports, the second of which the
application adds and a low-speed device is plugged into, with nothing at the
first; `host_pool` has a full-speed device at port 0. Devices at several ports at once
are left to the proofs, which are for any number of ports. Packets of two bytes
and transfers of three make a full packet, a short packet and the
boundary between them; `MaxRetry = 2` makes one failure that is retried and one
that is not. Interval 2 makes one frame in two due.
The ring has four bytes and positions modulo 8, packets of none, one, three and
four bytes: one fits, fills, wraps at the end of the storage and does not fit,
and the positions wrap too. The polled endpoint (`bulk_poll`) has packets of no or
one byte, a ring of one and transfers of two, so that an empty packet, a short
one, a full ring and an overrun occur, one packet per burst, and a transfer fails
at its third damaged answer in a row; `PollLimit = 4` tokens is enough for a packet to be lost, repeated,
taken and followed by another. The model stops there, hence `CHECK_DEADLOCK FALSE`
in its runs. The isochronous ring (`iso`) has eight bytes: two records of one byte
and a marker fit, a third drops the oldest; packets are numbered modulo 3, and two
frames without a packet stop the polling (`MaxSilent`, 32 in the code). On the bus (`bus`) a
payload is empty, a byte of ones (it needs stuffing) or two bytes, one more than
the buffer takes; replies arrive up to two bits early, with the last bit of a byte damaged, or
cut anywhere; `FifoDepth = 1` assumes that the CPU empties the receive FIFO
before the next byte. The device has packets of two bytes, a device
descriptor of one packet and a configuration descriptor of a full and a short
packet; it has room for a report of one byte, and is sent one of two as well. To bound the runs its host gives up at most one transfer in a row, none
while it polls endpoint 1 (`MayStart`), and there it asks for the configuration
and its descriptor only.

Fairness (`FairSpec`). `WF(FrameStep)`: the repeating alarm fires for ever and
the handler contains no wait on another thread. `SF(ApiStep)`: a call in progress
gets the core between two frames; a frame takes less than its millisecond, so
the caller is enabled again and again but not continuously. Nothing is assumed
of the devices or of the stack's willingness to call. In `BulkStream` it is
`WF(FrameStep)` alone: a stop must be honoured whatever the callers do. In `BusTransaction` the CPU comes back from
every interrupt and the PIO runs (`WF` of `CpuWork` and `TxStep`, and the CPU does not
stay at `Finish`), and time passes (`WF` of `TickQuiet` and `TickTotal`); the device
may stop or talk for ever. In `IsoStream` frames keep coming (`WF(Skip)`, and the
same of `Poll`, written out) and an abort ends (`WF(AbortTake)`: it waits at most
8 ms); nothing is assumed of the device and of the rest of the application.
In `DeviceController` the task loops for ever (`WF(TaskStep)`) and the host goes on
polling a transfer it began (`WF` of `IsrIn0` and `IsrOut0`).

What the runs assume, and why:

* `ExclusiveOwner` and `AttachedToBulkIn` are stated of serial callers, because
  `pio_usb_host_bulk_stream_start` tests the endpoint and stores to it later:
  a close, an open or a transfer on the other core in between breaks both. Serial callers
  do not keep the frame handler of another core from polling a ring as if for the
  transfer before it (section 5); so there `ExclusiveOwner` speaks of the
  queue only, and of `transfer_started` on one core.
  `DetachedBeforeSetup` is stated of callers on the frame handler's core:
  `send_setup` asks for the detach and, on another core, the frame handler may
  already be polling.
* `AcceptedIsSent` rests on the CRC and on the form of packets, which a coincidence can
  defeat: `NoChanceMatch` (part of what `LineSound` checks) says that no piece of the
  instance's replies passes for a sound packet that was not sent, nor the end of one for a
  handshake. The code looks at `usb_rx_buffer[1]` alone (host.c:1287, 1325): the tail of a
  late packet whose second byte is `d2`, `5a` or `1e` would be one. The payload of two
  bytes is `01 80` because the CRC of `01 02` has a `1e` in that place.
* a byte that arrives between the last look into the FIFO and the look at the
  flag is not read; the packet is then too short, its CRC fails, and it counts
  as damaged.
* a transfer buffer takes any record (`BufLen >= MaxLen + 2`), and the ring's
  application is on the frame handler's core, as in the only one there is.
* `Patient`: the device's host sends SETUP and OUT data only when the task has
  handled everything before. Without it a completion or a CONTINUE of the
  request before is applied to the new one, and OUT data that arrives early
  overwrites the SETUP packet in the receive buffer. A host that gives up a
  transfer waits tens of milliseconds, far longer than a turn of the task; for
  the OUT data it is an assumption about speed, and the hazard is listed.
* the host sees a SET_ADDRESS through: it neither gives it up nor resets the bus during it.
  `new_devaddr` outlives the request and a bus reset, and would be taken by a later
  transfer; `AddressAgreed` does not hold then, and the theorem does not claim it.
* `GapsMarked` is of the packets the host hears of, from where polling begins: one that
  loses its PID counts as silence (host.c:366-368), and records still in the ring are
  dropped where a transfer starts polling anew, both without a marker.
* `AnswersRequest`, `StartsWithData1Alone`, `AddressAgreed` and `TransferEnds`
  are stated of behaviours in which only endpoint 0 is in use; with a second
  one they fail in the way `device_stale_continue` shows.

## 4. What is proved

By TLAPS, for every number of ports, pool entries and retries, every set of
descriptors, lengths and replies (`HostAssumption`):

* `TypeCorrect`: `Spec => []TypeOK`, on one core or two.
* `OutcomesAccounted`, `OnlyOwnedTransactions`, `RegistersDrained`: with
  `SameCore` and `Disciplined`, `Spec` implies `[]Accounted`,
  `[]TransactionOwned` and `[]NothingLeftOver`.
* `AbortsAnswerOnce`: with the same, `[]AbortedOnce`.

The inductive invariant is `TypeOK /\ HostInv`, `HostInv` being `Accounted`,
`NothingLeftOver`, `HandlerInv` and `CallInv`. `Accounted` alone is not
inductive: a call that closes or rebinds an entry would break it if a register
bit were still set for the entry, which `NothingLeftOver` excludes on one core;
`NothingLeftOver` needs to know how far the interrupt loop has come
(`HandlerInv`), and `HandlerInv` keeps what the transaction loop tested (port
operating, transfer live) until the transaction ends. `CallInv` holds what a
call relies on between its steps: an entry without a size has no transfer, the
entry being filled is still open. The proof has one lemma for the end of a
transaction (`EndTransactionInv`, over any outcome `Leaves` allows), one for the
quiet frame steps, one for a disconnect, one for the interrupt handler and one
(`CallerInv`) for every call. Both assumptions are needed: with `SameCore = FALSE` `host_core.cfg` violates
`TransactionOwned` (section 5), and without `Disciplined` a closed entry keeps a
live transfer.

`Accounted` does not see what abort answers. For that `AbortInv` says that from the mark
on the frame handler is in no transaction on the entry and enters none, so that only a
disconnect can end the transfer between abort's test and its answer, and then the port is
suspended and stays so, since only another call resumes it. The exception is real: without
it TLC finds the unplug of section 5.

About the ring (`BulkRingProofs`), for every capacity, every width of the
positions that is a multiple of it and every packet and read length
(`RingAssumption`):

* `TypeCorrect` and `RaceFree`: `[]TypeOK` and `[]NoDataRace`.
* `ImplementsFifo`: `Spec => FifoSpec`, the refinement of `ByteFifo`.

The inductive invariant `Inv` adds to `TypeOK` that at most `Capacity` bytes lie
between the positions, that a packet being stored still fits behind them and is
in place as far as it is copied (`StoreInv`), and that a read takes bytes that are
there and has copied them from the front (`LoadInv`). `NoDataRace` alone is not
inductive: the consumer may release bytes while a packet is copied, which only
makes room, and the producer may publish while bytes are read, which only adds
some; `StoreInv` and `LoadInv` say that of the two snapshots. The arithmetic is in
lemmas on remainders: cells are the same exactly when their positions are
congruent modulo the capacity (`CellOf`, `CellsApart`), and publishing or
releasing n bytes changes the distance by n although the positions wrap
(`DistancePublish`, `DistanceRelease`).

About the polled endpoint (`BulkPollProofs`), for every packet size, ring,
transfer length, number of retries and burst (`PollAssumption`):

* `DeliversOnce`: with `~PidDamage`, `Spec` implies `[]DeliveredOnce`. `poll_bad_pid`
  shows that the assumption is needed.
* `SnapshotsConsistent`: `Spec => []SnapshotConsistent`, PIDs damaged or not.

`DeliveredOnce` speaks of the moments between transactions only. Its inductive
invariant `DeliveryInv` says what holds inside one: the packet that has come in is
the last one the device has seen acknowledged or the one after it, it carries
the toggle of its number, and the host has taken the packets before it and
perhaps the packet itself (`Incoming`); so the toggle alone tells a new packet
from a repeat (`IsNewIncoming`). Every step is an exchange, or takes the packet,
throws it away or lets it wait (`Steps`), and there is one lemma for each.
`CountInv`, the invariant of the counters, has what each update of a transaction
still owes them (`PacketsCounted`, `BytesCounted`, `FramesCounted`), that the
sequence is odd exactly during the updates (`LockHeld`), and that what a snapshot
has copied is what is counted as long as the sequence stands (`Copied`). A copy
whose sequence has not moved was begun and checked outside every update, where
nothing is owed (`CheckedCopy`). The sequence does not wrap in the model.

About the host's transfers (`HostControllerProofs`, from `FlagsNeverLeftBehind` on). The first three hold on one
core or two and for any stack; the last three need `SameCore` and `Disciplined`:

* `FlagsNeverLeftBehind`: `[]FlagsScoped`, inductive as it stands.
* `AddressesUnique`: `[]OneSlotPerAddress`, from `AddressInv`: two entries agree
  on port, device and address only while a call is about to bind one of them.
* `ConnectEventsCurrent`: `[]ConnectEventCurrent`, from `EventInv`: a port with a
  connect on its way is connected, or has a disconnect on its way that overrides it,
  and the interrupt loop leaves no disconnect behind.
* `ProgressStaysInBounds`, `EncodedStaysInSync`, `DisconnectEndsTransfers`:
  `[]ProgressInBounds`, `[]EncodedInSync`, `DisconnectRetires`. `TransferInv` says
  that every entry with a transfer is `Healthy` (what is acknowledged lies within
  the length, the packet encoded is the next one with the toggle the entry is at)
  and that the entry a call is filling is healthy already, although its
  `has_transfer` is still to be stored; that a disconnect leaves
  no transfer behind also needs that an entry with a transfer has a size (`CallInv`),
  since `connection_check` passes over entries without one.

About the stream's life cycle (`BulkStreamProofs`), for the threads on one core or
two, serial or not:

* `FrameHandlerKeepsOff`, `CallsKeepOffTheRing`, `StreamOwnsEndpoint`,
  `PolledOnBulkIn`, `LossIsReported`: `[]FrameKeepsOff`, `[]CallsKeepOff`,
  `[]ExclusiveOwner`, `[]AttachedToBulkIn`, `[]LossReported`.
* `RingGoneBeforeSetup`: the action property `DetachedBeforeSetup`.

None is inductive. `StreamInv` has a clause for each reason: `PcsOK` excludes
interleavings that one core or one thread rules out, `Ownership` ties the ring's
state to what each thread has in hand (nobody frees a ring the endpoint still
points to or a detach is about to write), `LossKept` follows a lost device from
the flag to the report through the three stores of the detach, `SerialCalls` says
what a call has tested is still so when callers do not overlap, `VisitKept` that on
one core what the frame handler has tested is still so when it stores `transfer_started`
(the step that fails on two, section 5), and `DoomKept` that
a ring `send_setup` has asked to stop is detached by the frame's first steps.
Each action preserves each clause by a lemma of its own.

About the device (`DeviceControllerProofs`), for every packet and descriptor size,
every set of requests and every number of addresses (`DeviceAssumption`):

* `DeviceTypes`: `[]TypeOK`, for every host, patient or not.
* `ReportsArrive`: `[]ReportStored`, with `Patient` and `ReportFits` (the room for a report
  is at most a packet), whatever else is polled: of a report that is acknowledged the
  device has the first `ReportRoom` bytes, which is all of one that fits.
* `StagesStartWithData1`, `AddressesAgree`: `[]StartsWithData1Alone` and
  `[]AddressAgreed`, with `Patient`, and a host that sees a SET_ADDRESS through.
* `AnswersInFull`: `[]AnswersRequest`, with `Patient` and `Answerable`: the host gets
  every byte of what it asked for, once and in order.

`PatientInv` is about behaviours in which only endpoint 0 is used, and has six parts.
`Plan` says which accesses the task may have left at each stage of a control
transfer: without it nothing stops a late `Store` from undoing the interrupt.
`SetupBit` and `SetupKept`: a SETUP the task has not seen is in its register bit, or in
the value the task has loaded, and its packet is the request. `StageKept` gives the
endpoint's toggle, length and direction in each stage; `AddressKept` follows the new
address from the request through `new_devaddr` to the status stage; `VirginKept` says
that nothing speaks of a CONTINUE before the host has taken a packet, and that the
first one is DATA1. `AnswerKept` adds the data stage: between two packets the
endpoint holds the one that was taken last (`Taken`) or the one to be taken next
(`Awaited`), and a CONTINUE, in its register or in the task's hands, means the former
(`ContinueKept`); the bytes the host got are the first ones (`GotRight`); more is
owed exactly as long as the transfer is active (`More`); and between the setup stage
and the first packet the buffer is loaded with the descriptor and the toggle is new
(`Loaded`, `Fresh`, `Settled`).
`Answerable` asks three things of the requests, each because the code needs it: a
descriptor has less than 256 bytes (`prepare_ep0_data` takes a uint8_t), the device
descriptor is asked for whole, and a descriptor shorter than what was asked for does
not end on a full packet (section 5).

About a transaction on the bus (`BusTransactionProofs`), for every payload, buffer size,
FIFO depth, damage and set of early bits, with the programs in one PIO block or in two:

* `DeafWhileSending`, `RepliesHeardWhole`: `[]OwnPacketUnheard` and `[]WholeReplies`.
* `BusTypes`: `[]TypeOK`, with the bound on the receive buffer.
* `AcceptedWasSent`: with `NoChanceMatch`, `Spec` implies `[]AcceptedIsSent`.

`BusInv`, which gives the first two, relates three parties that never wait for each other.
`PlanKept`: what the CPU has left to send, of which only the last packet before the
reception is answered. `TxKept`: while the transmitter sends, the CPU waits for that packet;
slot 0 is patched exactly from the start of an answered packet to the CPU's wait for its
end, and no flag an earlier packet left can end that wait. `DetKept`: the detector is
parked between transactions and until the answered packet is out, and again when the
CPU has seen the end of a reply. `AskKept`: the device is asked by that packet and not before,
and a detector that the PIO armed is then ready. `RoomKept` adds the lengths.

`HeardKept` says what has been read of which reply: while the host listens, the bytes in
the buffer, the bytes in the FIFO and the bytes still to come are three neighbouring
slices of one reply (`HeardOf`), which begin at its first byte only if it answers this
transaction; before that both are empty (`Hush`). So what `Finish` judges, and the byte it
leaves in the PID's place when it refuses (`Refused`), is of a slice of a reply (`Pieces`). That no slice passes for something else is not a matter of
control: a CRC of 16 bits cannot tell all damages apart. `NoChanceMatch` states it of the
constants, and `LineSound` checks it on the instance. The proof shows that
nothing but such a coincidence can make the host accept what was not sent to it: no
stale reply, no interrupt, no limit. Of the coding the theorems use only that it gives bytes
(`ReplyAssumption`, which TLC evaluates; a proof would be induction over data).

About the isochronous stream (`IsoStreamProofs`): `NeverQueuesTwice`, that is
`[]NeverQueuedTwice`. The application, the stack and the library each keep a flag for the
one transfer (`xfer_pending`, the stack's busy flag, `has_transfer`), and they disagree for as
long as an event is on its way; an abort clears all three, although a completion may already
be queued. `QueuedInv` says what the queue of events can hold, and in which order
(`EventsKept`: one completion and one control request at a time, a completion before the
request that starts the stream again, the removal last), and relates the flags to it:
while the completion is due nothing else is queued (`TransferKept`), a request that starts
the stream is under way only when no transfer is left and a completion still due will not
make the application queue another (`StartKept`), and a paused stream has no transfer once
the abort is over (`PauseKept`). There is one lemma for each step.

`GapsAreMarked`, that is `[]GapsMarked`, in the same module: of the packets the host hears
of, no hole in the application's stream without a marker, for every `Size`, `MaxLen`, `BufLen`, `MaxSilent` and `Ids` that
`IsoAssumption` admits. It has three layers.

* Bytes. The ring's two indices and its count say where each byte lies; `copy_in` and
  `copy_out` write and read around the end (`CopyIn`, `CopyOut`).
* Records. `Coded(b, rs)`: the bytes `b` are the records `rs`, one after the other - the least
  relation that holds of nothing and is kept by a record more at the front, so that a proof
  over records needs no induction theorem (it shows that a set of pairs is closed). `ProcessCoded`
  says that the example's walk over a buffer (`process_records`) gives back exactly the
  records, `HoldingHead` that `drop_oldest` and `HandOver` find one at the ring's tail.
* Order. `Path(p, s, q)`: from `p` over the records `s` to `q`, neighbours follow each other
  or one of them is a gap. `Carries` is that of a ring: from the last record before it to the packet
  the device sends next, of those that are heard. A dropped record leaves a gap (`CarriesDrop`), and so do
  the iterations of it that make room, of which there are at most as many as bytes
  (`CarriesRoom`); a reception adds a packet, or a gap if anything was lost
  (`StoreKeeps`); what a transfer takes and what it leaves are one path (`HandOverCarries`).

`GapsInv` is `QueuedInv` with four parts. `StreamKept` is the path, over the application's
buffer and then the ring, from `last` to the device's next packet (to a gap while nobody polls,
since what is sent then is lost), and that the frame handler never leaves a ring that is to be
used with `lost` set. It is not inductive alone, because a completion that reports a failure
ends what is in the buffer without reading it, and a new stream empties the ring:
`BufKept` says that the buffer is empty unless a completion of a sound transfer is
due; `MicKept` that an application without a microphone has no transfer, call or
completion under way; `RingKept` who owns the ring, and that it is empty and `last` a gap
between its reset and its being attached. TLC found these three, `ring_on => ~ring.lost`
and `GapsMarked` to hold on a ring of eight bytes with packets of up to two (2,023,186 states) before they were proved;
`Coded`, and with it `StreamKept`, quantifies over every set and is beyond TLC.

Model-checked only: liveness (`SilentDeviceRetires`, `LineNoticed`, `StopHonoured`,
`SilentTransferFails`, `TransactionEnds`, `TransferEnds`), which TLAPS does not reach;
and `LineSound`, which computes over the bits of packets with recursive functions (induction over data).

## 5. Disagreements found

* `host_reset_connect`: the frame handler suspends a new device because it "needs
  a bus reset before operating" (host.c:817); `port_reset_end` clears `suspended`
  after its 100 us wait without looking, so a device connected in the wait is
  driven without one.
* `bulk_use_freed`: `endpoint_close`, `close_device` and `send_setup` load
  `ep->bulk_ring` and use it afterwards (host.c:955, 888, 998); between the two a
  frame may detach it and the owner, which "may free the ring as soon as it sees
  active == false" (host.c:471-472), free it.
* `device_stale_continue`: the interrupt flags CONTINUE between the load and the
  store of `ints &= ~ints` (device.c:572). The event is lost and its bit of
  `ep_continue` stays. While the device only answers endpoint 0 the next CONTINUE
  is that endpoint's own and sets the same bit, but one of another endpoint moves
  the next request on endpoint 0 past its first packet, and the data stage starts with DATA0 though
  the interrupt set "DATA1 for both data and status stage" (device.c:242).
* `poll_bad_pid`: the receive path acknowledges a packet whose CRC16 is right
  (usb.c:324); the CRC does not cover the PID, and its check bits are looked at
  only when the packet had to be realigned. In the trace the packet belongs to a queued
  transfer: its PID is neither DATA0 nor DATA1, so the host takes it for a mismatch,
  "0 for re-try next frame" (host.c:1283), and drops the data. There is no
  retry: the device has its ACK and never sends the packet again.

Known, and without a run of their own. TLC shows each of the first four when the property
named is changed as said:

* abort reads `has_transfer` (host.c:1071), and before it answers the frame interrupt finds
  the device gone, fails the transfer with `connection_check`, which does not look at
  `transfer_aborted`, and the stack gets an error event. Abort returns true all the
  same: "still active means transfer is successfully aborted" (host.c:1077). The outcome
  is told twice; `AbortedOnce` without its exception.
* with the frame handler on the other core, between its test of the transfer
  (host.c:720) and its load of the ring (host.c:726), the stack closes the device and opens
  the entry again and the application starts a stream, one call after the other. The ring is then
  polled with `transfer_started` set, where "it is polled but transfer_started stays
  false: abort must not wait on it" (host.c:718-719); `ExclusiveOwner` with
  `transfer_started` in its first half.
* `wait_handshake` returns 0 for an "invalid handshake" (usb.c:241), one that is not of two
  bytes or does not begin with SYNC. The SETUP transaction uses what it returns
  (host.c:1364), the OUT transaction does not (host.c:1322) and takes the second byte for
  the answer; `AcceptedIsSent` with the bytes received in place of `dev.sent`.
* the realignment is tried when "the aligned CRC fails on data that is actually valid"
  (usb.c:329-330). But the CRC of the bytes as captured is tried first (usb.c:324), and may
  match: an empty DATA1 (`80 4b 00 00`) captured a bit early is `01 97 00 00`, whose CRC is
  right. It is acknowledged and returned with the PID `97`; the host takes it for a mismatch,
  and the device considers it delivered. `AcceptedIsSent` with the PID, which no CRC covers.
* with the frame handler on the other core (`SameCore = FALSE` in `host_core.cfg`)
  abort can finish between the handler's evaluation of `live` and its store to
  `transfer_started` (host.c:720-730); the wait "1 usb frame for transaction to
  complete" (host.c:1063) is then skipped and the transaction runs after the abort.
* `pio_usb_bulk_stream.h:34-35` says packets and bytes are those "accepted into the
  ring"; they are counted before `bulk_ring_write` may drop the packet
  (host.c:550-553). `SnapshotConsistent` subtracts the overruns for that reason.
* the realignment "recovers any small offset" (usb.c:336) only if the bits it cannot
  recover, the last ones of the CRC, are zero; the comment's example (`01 a5` for
  `80 d2`) is what `Captured` gives for a handshake one bit early. The 1200 us limit of
  the receive loop is never the one that ends it: the check for oversize
  packets comes first.
* in the microphone example, `tuh_umount_cb` cleans up only while `mic.daddr` is set;
  after a request that failed, `ep_opened` stays true and the endpoint of a device
  plugged in again is never opened. Abort does not stop the polling of the
  endpoint ("Polling stops"), only the transfer. Records still in the ring when
  the device fell silent are dropped without a marker by the next transfer.
* an isochronous packet whose PID is damaged counts as a silent frame (host.c:366-368): no
  marker, and 32 such frames in a row stop the polling.
* a SET_REPORT of more than the 8 bytes the device makes room for (device.c:498) is
  acknowledged and cut (device.c:218-221). The buffer is not used.
* a descriptor that is shorter than the host asked for and ends on a full packet is
  not followed by an empty packet; the host waits for one (`TransferEnds` and
  `AnswersRequest` fail with such sizes). No line of the repository says otherwise,
  and the 59 bytes of the device example's configuration end on a short packet.
* the device descriptor is sent as 18 bytes whatever `wLength` asks for
  (device.c:460), and lengths passed to `prepare_ep0_data` are cut to eight bits.

## 6. Plan

1. (done) `PioUsbLL`, `HostController`, their runs and proofs.
2. (done) `BulkRing` against `ByteFifo`; `BulkStream`.
3. (done) `DeviceController`: packet interrupt, task, setup stage, bus reset.
4. (done) `BulkPoll`: packets exactly once over a lossy bus, counters, snapshot.
5. (done) `IsoRing` and `IsoStream`: framing, drop-oldest, the microphone example.
6. (done) `Crc`, `LineCoding`, `BusTransaction`: from a packet's bits to its handshake.
7. (done) Theorems about every module, the isochronous stream last: the invariant that
   ties the stack's queue of events to `xfer_pending`, and the ring read record by record.
8. Left: of the models what section 7 lists, the second endpoint and the long records of
   the isochronous ring first.

## 7. Not modelled

* Port bring-up, PIO programs and cycle timing: configuration and I/O.
* `pio_usb_host_stop` and `pio_usb_host_restart`: they spin until a flag is
  cleared that nothing in the library clears; a hazard is listed.
* The TinyUSB stack: only what it may call, as `ApiCall`.
* The control pipe of `handle_endpoint_irq` (host.c:1407-1459): it runs for a
  `usb_device_t` that is `connected`, and nothing in the library connects one; the stages
  of a control transfer are the stack's.
* Of the bus: PRE and the low-speed turnaround, SETUP (sent as OUT is), the
  device's own receive calls (their outcome is in `DeviceController`).
* Of the bulk stream: the times and `high_water_bytes` and `unarmed_frames` among the
  counters, and a `stats_seq` that wraps by 2^32 during one copy.
* Of the isochronous ring: a second isochronous endpoint, records longer than the
  transfer's buffer, an application on another core. Of the microphone example:
  its packet mode, the parsing of descriptors and the printing.
* Of the device: string and HID report descriptors (answered on the configuration
  descriptor's path), `device_init`, the cached address CRC, STALL (nothing in the
  library sets `stalled`), and packets lost on the bus.
* The other examples and the SDK compatibility header: they call the library and
  print.
