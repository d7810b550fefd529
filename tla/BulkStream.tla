------------------------------ MODULE BulkStream ------------------------------
(* Who may touch the ring of a bulk stream, and when                          *)
(* (PIO_USB_HOST_BULK_STREAM).  Three parties:                                *)
(*   - frame: the host frame handler, the producer, which polls the endpoint  *)
(*     the ring is attached to and detaches the ring;                         *)
(*   - app: the application, which owns the ring's memory, starts and stops   *)
(*     the stream and frees the ring when it is told it may;                  *)
(*   - stack: the USB host stack, which opens and closes the endpoint, queues *)
(*     transfers on it, aborts them and sends SET_CONFIGURATION or            *)
(*     SET_INTERFACE.                                                         *)
(* One pool entry (the stream's), one ring and one port are modelled; what is *)
(* in the ring is BulkRing, its counters are BulkStats.                       *)
EXTENDS Naturals

VARIABLES
  threads,  \* how the parties run, fixed in a behaviour.  same_core: the frame
            \* handler interrupts the stack's core.  serial: no call of the
            \* application overlaps a call of the stack
  ep,       \* endpoint_t: open (size # 0), bulk_in (its descriptor), bulk_ring
            \* (not NULL), has_transfer, transfer_started, transfer_aborted
  root,     \* root_port_t: connected, suspended
  ring,     \* pio_usb_bulk_ring_t: active, stop_requested, disconnected
  freed,    \* the application has freed the ring
  may_free, \* ... or has been told that it may
  setup,    \* a SET_CONFIGURATION or SET_INTERFACE is queued on endpoint 0
  frame,    \* where the frame handler is; gone, back and live are its locals
  app, stack,   \* where the other two are in a call
  doomed,   \* ghost: send_setup asked the frame handler to detach the ring
  lost      \* ghost: the device went away while the ring was attached

vars == <<threads, ep, root, ring, freed, may_free, setup, frame, app, stack, doomed, lost>>

NewRing == [active |-> FALSE, stop_requested |-> FALSE, disconnected |-> FALSE]
Detaching == {"detach", "detach_null", "detach_active"}
FrameIdle == [pc |-> "idle", gone |-> FALSE, back |-> "idle", live |-> FALSE]

Init ==
  /\ threads \in [same_core : BOOLEAN, serial : BOOLEAN]
  /\ ep = [open |-> FALSE, bulk_in |-> FALSE, bulk_ring |-> FALSE,
           has_transfer |-> FALSE, transfer_started |-> FALSE, transfer_aborted |-> FALSE]
  /\ root = [connected |-> FALSE, suspended |-> FALSE]
  /\ ring = NewRing /\ freed = FALSE /\ may_free = TRUE
  /\ setup = FALSE
  /\ frame = FrameIdle /\ app = "idle" /\ stack = "idle"
  /\ doomed = FALSE /\ lost = FALSE

TypeOK ==
  /\ threads \in [same_core : BOOLEAN, serial : BOOLEAN]
  /\ ep \in [open : BOOLEAN, bulk_in : BOOLEAN, bulk_ring : BOOLEAN,
             has_transfer : BOOLEAN, transfer_started : BOOLEAN, transfer_aborted : BOOLEAN]
  /\ root \in [connected : BOOLEAN, suspended : BOOLEAN]
  /\ ring \in [active : BOOLEAN, stop_requested : BOOLEAN, disconnected : BOOLEAN]
  /\ {freed, may_free, setup, doomed, lost} \subseteq BOOLEAN
  /\ frame.back \in (IF frame.pc \in Detaching THEN {"sof", "retire"} ELSE {"idle"})
  /\ frame.gone => frame.pc \in Detaching
  /\ frame.live \in BOOLEAN
  /\ frame.live => frame.pc \in {"load", "start_poll", "start_transfer"}

-----------------------------------------------------------------------------
(* The frame handler.                                                         *)

Operating == root.connected /\ ~root.suspended

Goto(pc) == frame' = [frame EXCEPT !.pc = pc]

\* The call of bulk_stream_detach in the frame handler, and where it returns to.
CallDetach(gone, back) ==
  frame' = [FrameIdle EXCEPT !.pc = "detach", !.gone = gone, !.back = back]

Quiet == UNCHANGED <<freed, may_free, app, stack>>

\* bulk_stream_frame_begin loads ep->bulk_ring ...
FrameBegin ==
  /\ frame.pc = "idle"
  /\ Goto(IF ep.bulk_ring THEN "begin" ELSE "sof")
  /\ Quiet /\ UNCHANGED <<ep, root, ring, setup, doomed, lost>>

\* Mutant: a suspended port is not looked at.
BeginTest_Operating ==
  /\ frame.pc = "begin"
  /\ IF (ring.stop_requested \/ ~ep.open \/ ~root.connected) /\ ~root.suspended
     THEN CallDetach(~root.connected, "sof")
     ELSE Goto("sof")
  /\ Quiet /\ UNCHANGED <<ep, root, ring, setup, doomed, lost>>

\* ... and decides whether the ring stays attached.
BeginTest ==
  /\ frame.pc = "begin"
  /\ IF ring.stop_requested \/ ~ep.open \/ ~root.connected
     THEN CallDetach(~root.connected, "sof")
     ELSE Goto("sof")
  /\ Quiet /\ UNCHANGED <<ep, root, ring, setup, doomed, lost>>

\* Mutant: the flag is not kept.
DetachFlag_Lost ==
  /\ frame.pc = "detach"
  /\ Goto("detach_null")
  /\ Quiet /\ UNCHANGED <<ep, root, ring, setup, doomed, lost>>

\* Mutant: active is cleared first, with the flag.
DetachFlag_ActiveFirst ==
  /\ frame.pc = "detach"
  /\ ring' = [ring EXCEPT !.disconnected = @ \/ frame.gone, !.active = FALSE]
  /\ Goto("detach_null")
  /\ Quiet /\ UNCHANGED <<ep, root, setup, doomed, lost>>

\* bulk_stream_detach: disconnected |= gone, then bulk_ring = NULL, then
\* active = false, the producer's last access.
DetachFlag ==
  /\ frame.pc = "detach"
  /\ ring' = [ring EXCEPT !.disconnected = @ \/ frame.gone]
  /\ Goto("detach_null")
  /\ Quiet /\ UNCHANGED <<ep, root, setup, doomed, lost>>

\* Mutant: the endpoint keeps its pointer to the ring.
DetachNull_Kept ==
  /\ frame.pc = "detach_null"
  /\ Goto("detach_active")
  /\ Quiet /\ UNCHANGED <<ep, root, ring, setup, doomed, lost>>

DetachNull ==
  /\ frame.pc = "detach_null"
  /\ ep' = [ep EXCEPT !.bulk_ring = FALSE]
  /\ doomed' = FALSE
  /\ Goto("detach_active")
  /\ Quiet /\ UNCHANGED <<root, ring, setup, lost>>

DetachActive ==
  /\ frame.pc = "detach_active"
  /\ ring' = [ring EXCEPT !.active = FALSE]
  /\ frame' = [FrameIdle EXCEPT !.pc = frame.back]
  /\ Quiet /\ UNCHANGED <<ep, root, setup, doomed, lost>>

\* SOF, or connection_check finds the device gone: the port goes down ...
Sof ==
  /\ frame.pc = "sof"
  /\ \/ Goto("setup") /\ UNCHANGED root
     \/ /\ Operating
        /\ root' = [connected |-> FALSE, suspended |-> TRUE]
        /\ Goto("drop")
  /\ Quiet /\ UNCHANGED <<ep, ring, setup, doomed, lost>>

\* ... the ring is detached ...
DropRing ==
  /\ frame.pc = "drop"
  /\ lost' = (lost \/ ep.bulk_ring)
  /\ IF ep.bulk_ring THEN CallDetach(TRUE, "retire") ELSE Goto("retire")
  /\ Quiet /\ UNCHANGED <<ep, root, ring, setup, doomed>>

\* ... and the queued transfer is failed.
Retire ==
  /\ frame.pc = "retire"
  /\ ep' = [ep EXCEPT !.has_transfer = @ /\ ~ep.open]
  /\ Goto("setup")
  /\ Quiet /\ UNCHANGED <<root, ring, setup, doomed, lost>>

\* Endpoint 0 comes before the stream's endpoint in the pool.
SetupTurn ==
  /\ frame.pc = "setup"
  /\ setup' = (setup /\ ~Operating)
  /\ Goto("normal")
  /\ Quiet /\ UNCHANGED <<ep, root, ring, doomed, lost>>

\* The stream's endpoint has its turn: live is evaluated ...
NormalTurn ==
  /\ frame.pc = "normal"
  /\ IF Operating /\ ep.open
     THEN frame' = [frame EXCEPT !.pc = "load", !.live = ep.has_transfer /\ ~ep.transfer_aborted]
     ELSE Goto("burst")
  /\ Quiet /\ UNCHANGED <<ep, root, ring, setup, doomed, lost>>

\* ... then bulk_ring is loaded, which says what is polled, if anything ...
NormalLoad ==
  /\ frame.pc = "load"
  /\ Goto(IF ep.bulk_ring THEN "start_poll" ELSE IF frame.live THEN "start_transfer" ELSE "burst")
  /\ Quiet /\ UNCHANGED <<ep, root, ring, setup, doomed, lost>>

\* ... and transfer_started = live is stored before the transaction.
NormalStart ==
  /\ frame.pc \in {"start_poll", "start_transfer"}
  /\ ep' = [ep EXCEPT !.transfer_started = frame.live]
  /\ frame' = [frame EXCEPT !.pc = IF @ = "start_poll" THEN "poll" ELSE "transfer", !.live = FALSE]
  /\ Quiet /\ UNCHANGED <<root, ring, setup, doomed, lost>>

\* usb_bulk_ring_transaction; a STALL asks for the stop.
Poll ==
  /\ frame.pc = "poll"
  /\ \/ UNCHANGED ring
     \/ ring' = [ring EXCEPT !.stop_requested = TRUE]
  /\ Goto("polled")
  /\ Quiet /\ UNCHANGED <<ep, root, setup, doomed, lost>>

\* usb_in_transaction for a queued transfer, which may complete it.
Transfer ==
  /\ frame.pc = "transfer"
  /\ \/ UNCHANGED ep
     \/ ep' = [ep EXCEPT !.has_transfer = FALSE]
  /\ Goto("polled")
  /\ Quiet /\ UNCHANGED <<root, ring, setup, doomed, lost>>

Polled ==
  /\ frame.pc = "polled"
  /\ ep' = [ep EXCEPT !.transfer_started = FALSE]
  /\ Goto("burst")
  /\ Quiet /\ UNCHANGED <<root, ring, setup, doomed, lost>>

\* The extra transactions.  bulk_ring is loaded again; without a ring a live transfer
\* of a bulk IN endpoint has some too (PIO_USB_HOST_BULK_IN_BURST, if built in) ...
BurstTurn ==
  /\ frame.pc = "burst"
  /\ LET visited == Operating /\ ep.open
     IN  \/ visited /\ ep.bulk_ring /\ Goto("extra")
         \/ /\ visited /\ ~ep.bulk_ring
            /\ ep.bulk_in /\ ep.has_transfer /\ ~ep.transfer_aborted
            /\ Goto("in_burst")
         \/ ~(visited /\ ep.bulk_ring) /\ Goto("connect")
  /\ Quiet /\ UNCHANGED <<ep, root, ring, setup, doomed, lost>>

\* ... and transactions follow until a stop or an abort is seen, the device has no
\* more data, or the frame's time is up.
BurstPoll ==
  /\ frame.pc = "extra"
  /\ \/ Goto("connect") /\ UNCHANGED ring
     \/ /\ ~ring.stop_requested /\ ~ep.transfer_aborted
        /\ UNCHANGED frame
        /\ \/ UNCHANGED ring
           \/ ring' = [ring EXCEPT !.stop_requested = TRUE]
  /\ Quiet /\ UNCHANGED <<ep, root, setup, doomed, lost>>

\* usb_bulk_in_burst: transfer_started is set before the transfer is looked at again,
\* and cleared in any case.
InBurstStart ==
  /\ frame.pc = "in_burst"
  /\ ep' = [ep EXCEPT !.transfer_started = TRUE]
  /\ Goto("in_extra")
  /\ Quiet /\ UNCHANGED <<root, ring, setup, doomed, lost>>

InBurstPoll ==
  /\ frame.pc = "in_extra"
  /\ \/ UNCHANGED ep
     \/ /\ ep.has_transfer /\ ~ep.transfer_aborted
        /\ ep' = [ep EXCEPT !.has_transfer = FALSE]
  /\ Goto("in_done")
  /\ Quiet /\ UNCHANGED <<root, ring, setup, doomed, lost>>

InBurstDone ==
  /\ frame.pc = "in_done"
  /\ ep' = [ep EXCEPT !.transfer_started = FALSE]
  /\ Goto("connect")
  /\ Quiet /\ UNCHANGED <<root, ring, setup, doomed, lost>>

\* A device is found on a port that has none; bulk_stream_frame_end follows.
Connect ==
  /\ frame.pc = "connect"
  /\ \/ UNCHANGED root
     \/ ~root.connected /\ root' = [connected |-> TRUE, suspended |-> TRUE]
  /\ Goto(IF ep.bulk_ring THEN "end" ELSE "idle")
  /\ Quiet /\ UNCHANGED <<ep, ring, setup, doomed, lost>>

FrameEnd ==
  /\ frame.pc = "end"
  /\ Goto("idle")
  /\ Quiet /\ UNCHANGED <<ep, root, ring, setup, doomed, lost>>

FrameStep ==
  \/ FrameBegin \/ BeginTest \/ DetachFlag \/ DetachNull \/ DetachActive
  \/ Sof \/ DropRing \/ Retire \/ SetupTurn
  \/ NormalTurn \/ NormalLoad \/ NormalStart \/ Poll \/ Transfer \/ Polled
  \/ BurstTurn \/ BurstPoll \/ InBurstStart \/ InBurstPoll \/ InBurstDone
  \/ Connect \/ FrameEnd

-----------------------------------------------------------------------------
(* The application.                                                           *)

AppFree == app = "idle" /\ (threads.serial => stack = "idle")

\* Mutant: an endpoint with a transfer in flight is accepted.
Startable_InFlight ==
  /\ ~ring.active
  /\ ep.open /\ ep.bulk_in /\ ~ep.has_transfer /\ ~ep.bulk_ring
  /\ Operating

\* The tests of pio_usb_host_bulk_stream_start.
Startable ==
  /\ ~ring.active
  /\ ep.open /\ ep.bulk_in /\ ~ep.has_transfer /\ ~ep.bulk_ring /\ ~ep.transfer_started
  /\ Operating

StartTest ==
  /\ AppFree /\ ~freed
  /\ Startable
  /\ app' = "start"
  /\ UNCHANGED <<ep, root, ring, freed, may_free, setup, frame, stack, doomed, lost>>

StartInit ==
  /\ app = "start"
  /\ ring' = [NewRing EXCEPT !.active = TRUE]
  /\ ep' = [ep EXCEPT !.transfer_aborted = FALSE]
  /\ may_free' = FALSE /\ lost' = FALSE
  /\ app' = "attach"
  /\ UNCHANGED <<root, freed, setup, frame, stack, doomed>>

StartAttach ==
  /\ app = "attach"
  /\ ep' = [ep EXCEPT !.bulk_ring = TRUE]
  /\ app' = "idle"
  /\ UNCHANGED <<root, ring, freed, may_free, setup, frame, stack, doomed, lost>>

StopRequest ==
  /\ AppFree /\ ~freed
  /\ ring' = [ring EXCEPT !.stop_requested = TRUE]
  /\ app' = "stop"
  /\ UNCHANGED <<ep, root, freed, may_free, setup, frame, stack, doomed, lost>>

\* stop returns true once active is false, or false after its timeout.
StopReturn ==
  /\ app = "stop"
  /\ may_free' = (may_free \/ ~ring.active)
  /\ app' = "idle"
  /\ UNCHANGED <<ep, root, ring, freed, setup, frame, stack, doomed, lost>>

\* pio_usb_host_bulk_stream_stats reports active.
Stats ==
  /\ AppFree /\ ~freed
  /\ may_free' = (may_free \/ ~ring.active)
  /\ UNCHANGED <<ep, root, ring, freed, setup, frame, app, stack, doomed, lost>>

Free ==
  /\ AppFree /\ ~freed /\ may_free
  /\ freed' = TRUE
  /\ UNCHANGED <<ep, root, ring, may_free, setup, frame, app, stack, doomed, lost>>

\* A new ring, zeroed.
Allocate ==
  /\ AppFree /\ freed
  /\ freed' = FALSE /\ may_free' = TRUE /\ ring' = NewRing /\ lost' = FALSE
  /\ UNCHANGED <<ep, root, setup, frame, app, stack, doomed>>

AppStep ==
  \/ StartTest \/ StartInit \/ StartAttach \/ StopRequest \/ StopReturn
  \/ Stats \/ Free \/ Allocate

-----------------------------------------------------------------------------
(* The host stack.                                                            *)

StackRuns == threads.same_core => frame.pc = "idle"
StackFree == StackRuns /\ stack = "idle" /\ (threads.serial => app = "idle")
StackEnv == UNCHANGED <<root, freed, may_free, frame, app, lost>>

\* pio_usb_host_endpoint_open; configure_endpoint leaves bulk_ring and the state of
\* a transfer.
Open ==
  /\ StackFree
  /\ ~ep.open
  /\ \E bulk_in \in BOOLEAN : ep' = [ep EXCEPT !.open = TRUE, !.bulk_in = bulk_in]
  /\ StackEnv /\ UNCHANGED <<ring, setup, stack, doomed>>

\* Mutant: the endpoint is closed without stopping its stream.
CloseTest_NoStop ==
  /\ StackFree /\ ep.open
  /\ stack' = "close"
  /\ StackEnv /\ UNCHANGED <<ep, ring, setup, doomed>>

\* pio_usb_host_endpoint_close and close_device: with a ring attached they stop
\* the stream first and leave the endpoint open when that times out.
CloseTest ==
  /\ StackFree /\ ep.open
  /\ stack' = IF ep.bulk_ring THEN "close_stop" ELSE "close"
  /\ StackEnv /\ UNCHANGED <<ep, ring, setup, doomed>>

CloseStop ==
  /\ StackRuns /\ stack = "close_stop"
  /\ ring' = [ring EXCEPT !.stop_requested = TRUE]
  /\ stack' = "close_wait"
  /\ StackEnv /\ UNCHANGED <<ep, setup, doomed>>

CloseWait ==
  /\ StackRuns /\ stack = "close_wait"
  /\ stack' = IF ring.active THEN "idle" ELSE "close"
  /\ StackEnv /\ UNCHANGED <<ep, ring, setup, doomed>>

\* close_device drops a queued transfer, endpoint_close leaves it.
Close ==
  /\ StackRuns /\ stack = "close"
  /\ \E kept \in BOOLEAN : ep' = [ep EXCEPT !.open = FALSE, !.has_transfer = @ /\ kept]
  /\ stack' = "idle"
  /\ StackEnv /\ UNCHANGED <<ring, setup, doomed>>

\* pio_usb_host_endpoint_transfer: refused while the stream owns the endpoint.
TransferTest ==
  /\ StackFree /\ ep.open /\ ~ep.bulk_ring
  /\ stack' = "transfer"
  /\ StackEnv /\ UNCHANGED <<ep, ring, setup, doomed>>

\* transfer_start refuses a second transfer.
TransferStart ==
  /\ StackRuns /\ stack = "transfer"
  /\ ep' = IF ep.has_transfer THEN ep
           ELSE [ep EXCEPT !.has_transfer = TRUE, !.transfer_started = FALSE,
                           !.transfer_aborted = FALSE]
  /\ stack' = "idle"
  /\ StackEnv /\ UNCHANGED <<ring, setup, doomed>>

\* pio_usb_host_endpoint_abort_transfer: the transfer is marked ...
AbortTest ==
  /\ StackFree /\ ep.open /\ ep.has_transfer
  /\ stack' = "abort_mark"
  /\ StackEnv /\ UNCHANGED <<ep, ring, setup, doomed>>

AbortMark ==
  /\ StackRuns /\ stack = "abort_mark"
  /\ ep' = [ep EXCEPT !.transfer_aborted = TRUE]
  /\ stack' = "abort_take"
  /\ StackEnv /\ UNCHANGED <<ring, setup, doomed>>

\* ... taken once it is not in a transaction, or after 8 ms ...
AbortTake ==
  /\ StackRuns /\ stack = "abort_take"
  /\ ep' = [ep EXCEPT !.has_transfer = FALSE]
  /\ stack' = "abort_clear"
  /\ StackEnv /\ UNCHANGED <<ring, setup, doomed>>

\* ... and the mark is removed.
AbortClear ==
  /\ StackRuns /\ stack = "abort_clear"
  /\ ep' = [ep EXCEPT !.transfer_aborted = FALSE]
  /\ stack' = "idle"
  /\ StackEnv /\ UNCHANGED <<ring, setup, doomed>>

\* send_setup of a request that reconfigures the device: its rings are asked
\* to stop ...
SetupTest ==
  /\ StackFree /\ ~setup
  /\ stack' = IF ep.bulk_ring THEN "setup_stop" ELSE "setup"
  /\ StackEnv /\ UNCHANGED <<ep, ring, setup, doomed>>

\* Mutant: the rings are not asked to stop.
SetupStop_NotAsked ==
  /\ StackRuns /\ stack = "setup_stop"
  /\ doomed' = ep.bulk_ring
  /\ stack' = "setup"
  /\ StackEnv /\ UNCHANGED <<ep, ring, setup>>

SetupStop ==
  /\ StackRuns /\ stack = "setup_stop"
  /\ ring' = [ring EXCEPT !.stop_requested = TRUE]
  /\ doomed' = ep.bulk_ring
  /\ stack' = "setup"
  /\ StackEnv /\ UNCHANGED <<ep, setup>>

\* ... and the transfer is queued.
SetupStart ==
  /\ StackRuns /\ stack = "setup"
  /\ setup' = TRUE
  /\ stack' = "idle"
  /\ StackEnv /\ UNCHANGED <<ep, ring, doomed>>

\* pio_usb_host_port_reset_start and _end.
PortReset ==
  /\ StackFree
  /\ root.connected
  /\ root' = [root EXCEPT !.suspended = ~@]
  /\ UNCHANGED <<ep, ring, freed, may_free, setup, frame, app, stack, doomed, lost>>

StackStep ==
  \/ Open \/ CloseTest \/ CloseStop \/ CloseWait \/ Close
  \/ TransferTest \/ TransferStart \/ AbortTest \/ AbortMark \/ AbortTake \/ AbortClear
  \/ SetupTest \/ SetupStop \/ SetupStart \/ PortReset

Next == (FrameStep \/ AppStep \/ StackStep) /\ UNCHANGED threads

Spec == Init /\ [][Next]_vars

\* The frame handler runs every millisecond and to its end: the deadline ends
\* every burst.  Nothing is assumed of the other two.
FairSpec == Spec /\ WF_vars(FrameStep /\ UNCHANGED threads)

-----------------------------------------------------------------------------

\* The steps at which each party is about to read or write the ring.
FrameUses == frame.pc \in Detaching \union {"begin", "poll", "extra", "end"}
StackUses == stack \in {"close_stop", "close_wait", "setup_stop"}

\* The frame handler's last access to the ring is the store that tells the
\* application it may free it.
FrameKeepsOff == FrameUses => ~freed

\* Nor do close, close_device and send_setup touch a ring its owner has freed ...
RingOutlivesCalls == StackUses => ~freed

\* ... as long as the owner does not stop and free the ring during such a call.
CallsKeepOff == threads.serial => RingOutlivesCalls

\* The stream owns its endpoint: no transfer is queued beside it, and where the frame
\* handler interrupts the stack none is running either.  Start, endpoint_transfer and the
\* frame handler all test first and store later.  On two cores a transfer may end and a
\* stream start between the handler's test (host.c:720) and its load of the ring (726),
\* and the ring is then polled with transfer_started set.
ExclusiveOwner ==
  threads.serial /\ ep.bulk_ring =>
    /\ ~ep.has_transfer
    /\ threads.same_core => ~ep.transfer_started /\ frame.pc \notin {"transfer", "in_extra"}

\* A ring is only ever polled on a bulk IN endpoint, although the entry it is
\* attached to may be closed and reused.
AttachedToBulkIn ==
  threads.serial /\ frame.pc \in {"poll", "extra"} => ep.bulk_in

\* A ring attached when send_setup was called is detached before the device
\* sees the request.
DetachedBeforeSetup ==
  [][threads.same_core /\ setup /\ ~setup' => ~doomed]_vars

\* When the device went away under the stream, a detached ring says so.
LossReported == ~ring.active /\ lost /\ ~freed => ring.disconnected

\* A stop is honoured, whatever the port does.
StopHonoured ==
  (ep.bulk_ring /\ ring.stop_requested) ~> ~ep.bulk_ring
=============================================================================
