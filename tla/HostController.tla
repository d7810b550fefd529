---------------------------- MODULE HostController ----------------------------
(* The host controller of pio_usb_host.c in its default build (isochronous    *)
(* and bulk stream options off): the 1 ms frame handler, which polls the bus  *)
(* and runs transactions, against the endpoint and port functions the USB     *)
(* host stack calls.                                                          *)
(*                                                                            *)
(* The frame handler is a timer interrupt.  With SameCore = TRUE it runs on   *)
(* the core of the caller: it may preempt an API function between any two of  *)
(* its statements, and the caller is stopped until it returns.  With SameCore *)
(* = FALSE (skip_alarm_pool, pio_usb_host_frame called on the other core) the *)
(* two interleave freely.  The line and the devices change at any time.       *)
(*                                                                            *)
(* The USB host stack is one thread (api), and the following is assumed of it *)
(* when Disciplined = TRUE: it never submits to a control endpoint nor closes *)
(* an endpoint while a transfer it queued there has not been settled.         *)
EXTENDS PioUsbLL, FiniteSets

CONSTANTS
  PortCnt,      \* PIO_USB_ROOT_PORT_CNT
  PoolCnt,      \* PIO_USB_EP_POOL_CNT
  MaxRetry,     \* TRANSACTION_MAX_RETRY
  DevAddrs,     \* device addresses the stack uses
  Descs,        \* endpoint descriptors of the devices
  Lens,         \* lengths of the transfers the stack asks for
  Replies,      \* what a device may answer; "NONE" stands for no sound answer
  Lines,        \* what the devices plugged in and out of a port show on its wires
  RxLens,       \* payload lengths a device may send
  SameCore, Disciplined

ASSUME HostAssumption ==
  /\ PortCnt \in Nat \ {0} /\ PoolCnt \in Nat \ {0} /\ MaxRetry \in Nat \ {0}
  /\ Lens \subseteq 0 .. U16 - 1 /\ DevAddrs \subseteq Nat /\ RxLens \subseteq Nat
  /\ Descs \subseteq Descriptors /\ \A d \in Descs : d.max_size \in 1 .. U16 - 1
  /\ Replies \subseteq DataPids \cup {"ACK", "NAK", "STALL", "NONE"}
  /\ Lines \in [0 .. PortCnt - 1 -> SUBSET {"SE0", "FS_IDLE", "LS_IDLE", "SE1"}]
  /\ \A p \in 0 .. PortCnt - 1 : "SE0" \in Lines[p]
  /\ SameCore \in BOOLEAN /\ Disciplined \in BOOLEAN

Ports == 0 .. PortCnt - 1
Slots == 0 .. PoolCnt - 1
LineStates == {"SE0", "FS_IDLE", "LS_IDLE", "SE1"}

VARIABLES
  ep,        \* pio_usb_ep_pool
  root,      \* root_port_t: initialized, connected, suspended, is_fullspeed, event
  ints,      \* root_port_t.ints, the set of its bits
  ep_reg,    \* root_port_t.ep_complete, ep_error, ep_stalled: sets of slots
  line,      \* what a device (or none) puts on the two wires
  driven,    \* the port forces SE0 (bus reset)
  frame,     \* the frame handler: where it is in its loops
  api,       \* the host stack's thread: which call it is in and where
  owed,      \* ghost: slots with an accepted transfer whose outcome the stack
             \* has not been told, by an event, an abort or a close
  unreset    \* ghost: ports whose device has not seen a bus reset since it connected

vars == <<ep, root, ints, ep_reg, line, driven, frame, api, owed, unreset>>

RootPorts == [initialized : BOOLEAN, connected : BOOLEAN, suspended : BOOLEAN,
              is_fullspeed : BOOLEAN, event : {"none", "connect", "disconnect"}]
FramePcs == {"idle", "sof", "pass", "visit", "start", "txn", "connect", "irq"}
ApiPcs == {"idle", "bind", "submit", "publish", "abort_mark", "abort_wait", "abort_read",
           "abort_clear", "abort_done", "close_device", "reset_resume"}

FrameIdle == [pc |-> "idle", port |-> 0, slot |-> 0]
ApiIdle == [pc |-> "idle", slot |-> 0, port |-> 0, addr |-> 0, len |-> 0, still |-> FALSE]

TypeOK ==
  /\ ep \in [Slots -> Endpoints]
  /\ root \in [Ports -> RootPorts]
  /\ ints \in [Ports -> SUBSET IntFlags]
  /\ ep_reg \in [Ports -> [EpFlags -> SUBSET Slots]]
  /\ line \in [Ports -> LineStates]
  /\ driven \in [Ports -> BOOLEAN]
  /\ frame \in [pc : FramePcs, port : Ports, slot : Slots]
  /\ api \in [pc : ApiPcs, slot : Slots, port : Ports, addr : Nat, len : 0 .. U16 - 1, still : BOOLEAN]
  /\ owed \in SUBSET Slots
  /\ unreset \in SUBSET Ports

\* pio_usb_host_init brings up port 0 and starts the timer.
Init ==
  /\ ep = [s \in Slots |-> UnusedEndpoint]
  /\ root = [p \in Ports |-> [initialized |-> p = 0, connected |-> FALSE, suspended |-> FALSE,
                              is_fullspeed |-> FALSE, event |-> "none"]]
  /\ ints = [p \in Ports |-> {}]
  /\ ep_reg = [p \in Ports |-> [f \in EpFlags |-> {}]]
  /\ line = [p \in Ports |-> "SE0"]
  /\ driven = [p \in Ports |-> FALSE]
  /\ frame = FrameIdle
  /\ api = ApiIdle
  /\ owed = {}
  /\ unreset = {}

-----------------------------------------------------------------------------
(* The frame handler, pio_usb_host_frame.                                     *)

get_line_state(p) == IF driven[p] THEN "SE0" ELSE line[p]
Operating(p) == root[p].initialized /\ root[p].connected /\ ~root[p].suspended

\* Goto the next port of the current loop, or the first port of the next one.
NextPort(after) ==
  IF frame.port + 1 < PortCnt
  THEN frame' = [frame EXCEPT !.port = @ + 1, !.slot = 0]
  ELSE frame' = [pc |-> after, port |-> 0, slot |-> 0]

NextSlot ==
  IF frame.slot + 1 < PoolCnt
  THEN frame' = [frame EXCEPT !.pc = "visit", !.slot = @ + 1]
  ELSE IF frame.port + 1 < PortCnt
       THEN frame' = [pc |-> "pass", port |-> frame.port + 1, slot |-> 0]
       ELSE frame' = [pc |-> "connect", port |-> 0, slot |-> 0]

FrameStart ==
  /\ frame.pc = "idle"
  /\ frame' = [frame EXCEPT !.pc = "sof"]
  /\ UNCHANGED <<ep, root, ints, ep_reg, line, driven, api, owed, unreset>>

\* Mutant: SOF is sent without connection_check.
SendSof_NoCheck ==
  /\ frame.pc = "sof"
  /\ NextPort("pass")
  /\ UNCHANGED <<ep, root, ints, ep_reg, line, driven, api, owed, unreset>>

\* SOF or keep-alive to a port that operates and still has its device.
SendSof ==
  /\ frame.pc = "sof"
  /\ Operating(frame.port) => get_line_state(frame.port) # "SE0"
  /\ NextPort("pass")
  /\ UNCHANGED <<ep, root, ints, ep_reg, line, driven, api, owed, unreset>>

\* Mutants: a port going down flags idle endpoints, or passes over aborted ones.
Retired_Idle(p) == {s \in Slots : ep[s].root_idx = p /\ ep[s].size # 0}
Retired_NotAborted(p) ==
  {s \in Slots : /\ ep[s].root_idx = p /\ ep[s].size # 0
                 /\ ep[s].has_transfer /\ ~ep[s].transfer_aborted}

Retired(p) == {s \in Slots : ep[s].root_idx = p /\ ep[s].size # 0 /\ ep[s].has_transfer}

\* connection_check finds SE0: the port goes down and every transfer queued on
\* it is failed.
ConnectionLost ==
  LET p == frame.port
  IN  /\ frame.pc = "sof"
      /\ Operating(p)
      /\ get_line_state(p) = "SE0"
      /\ root' = [root EXCEPT ![p].connected = FALSE, ![p].suspended = TRUE]
      /\ ints' = [ints EXCEPT ![p] = @ \cup {"disconnect"}
                                       \cup (IF Retired(p) = {} THEN {} ELSE {"error"})]
      /\ ep_reg' = [ep_reg EXCEPT ![p]["error"] = @ \cup Retired(p)]
      /\ ep' = [s \in Slots |-> IF s \in Retired(p) THEN transfer_complete(ep[s]) ELSE ep[s]]
      /\ unreset' = unreset \ {p}
      /\ NextPort("pass")
      /\ UNCHANGED <<line, driven, api, owed>>

\* Mutant: a suspended port is driven too.
EnterPort_Suspended ==
  /\ frame.pc = "pass"
  /\ IF root[frame.port].initialized /\ root[frame.port].connected
     THEN frame' = [frame EXCEPT !.pc = "visit", !.slot = 0]
     ELSE NextPort("connect")
  /\ UNCHANGED <<ep, root, ints, ep_reg, line, driven, api, owed, unreset>>

\* The transaction loop looks at a port: skip it, or visit the pool for it.
EnterPort ==
  /\ frame.pc = "pass"
  /\ IF Operating(frame.port) THEN frame' = [frame EXCEPT !.pc = "visit", !.slot = 0]
                              ELSE NextPort("connect")
  /\ UNCHANGED <<ep, root, ints, ep_reg, line, driven, api, owed, unreset>>

\* Mutant: the test of the interval counter is inverted.
Due_Inverted(s) == ep[s].attr = "interrupt" => ep[s].interval_counter # 0

Due(s) == ep[s].attr = "interrupt" => ep[s].interval_counter = 0

\* Not an endpoint of this port, or nothing to do for it in this frame.
SkipSlot ==
  LET e == ep[frame.slot]
  IN  /\ frame.pc = "visit"
      /\ ~(e.root_idx = frame.port /\ e.size # 0 /\ Due(frame.slot)
           /\ e.has_transfer /\ ~e.transfer_aborted)
      /\ ep' = IF e.root_idx = frame.port /\ e.size # 0 /\ ~Due(frame.slot)
               THEN [ep EXCEPT ![frame.slot].interval_counter = @ - 1]
               ELSE ep
      /\ NextSlot
      /\ UNCHANGED <<root, ints, ep_reg, line, driven, api, owed, unreset>>

\* Mutant: an aborted transfer is live.
VisitLive_Aborted ==
  LET e == ep[frame.slot]
  IN  /\ frame.pc = "visit"
      /\ e.root_idx = frame.port /\ e.size # 0 /\ Due(frame.slot)
      /\ e.has_transfer
      /\ frame' = [frame EXCEPT !.pc = "start"]
      /\ UNCHANGED <<ep, root, ints, ep_reg, line, driven, api, owed, unreset>>

\* live is evaluated ...
VisitLive ==
  LET e == ep[frame.slot]
  IN  /\ frame.pc = "visit"
      /\ e.root_idx = frame.port /\ e.size # 0 /\ Due(frame.slot)
      /\ e.has_transfer /\ ~e.transfer_aborted
      /\ frame' = [frame EXCEPT !.pc = "start"]
      /\ UNCHANGED <<ep, root, ints, ep_reg, line, driven, api, owed, unreset>>

\* ... and only then is transfer_started set.
StartTransaction ==
  /\ frame.pc = "start"
  /\ ep' = [ep EXCEPT ![frame.slot].transfer_started = TRUE]
  /\ frame' = [frame EXCEPT !.pc = "txn"]
  /\ UNCHANGED <<root, ints, ep_reg, line, driven, api, owed, unreset>>

\* transfer_complete raises flag for slot s in the registers of its port.
RaiseFlag(s, flag) ==
  LET p == ep[s].root_idx
  IN  /\ ints' = [ints EXCEPT ![p] = @ \cup {flag}]
      /\ ep_reg' = [ep_reg EXCEPT ![p][flag] = @ \cup {s}]

\* The end of a transaction on slot s, which left e: e.has_transfer = FALSE
\* says it completed the transfer, with flag.
EndTransaction(s, e, flag) ==
  /\ ep' = [ep EXCEPT ![s] = [e EXCEPT !.transfer_started = FALSE]]
  /\ IF flag # "none" THEN RaiseFlag(s, flag) ELSE UNCHANGED <<ints, ep_reg>>
  /\ NextSlot
  /\ UNCHANGED <<root, line, driven, api, owed, unreset>>

\* A periodic endpoint is not due again for interval frames (uint8_t).
Rearmed(e) ==
  IF e.attr = "interrupt" THEN [e EXCEPT !.interval_counter = (e.interval - 1) % U8] ELSE e

Sound(e) == [e EXCEPT !.failed_count = 0]
\* Mutant: a failed transaction is not counted.
Failed_NotCounted(e) == e

Failed(e) ==
  LET f == [e EXCEPT !.failed_count = @ + 1]
  IN  IF f.failed_count >= MaxRetry THEN transfer_complete(f) ELSE f
FailedFlag(e) == IF e.failed_count + 1 >= MaxRetry THEN "error" ELSE "none"

IsSetup(e) == e.ep_num = EP0 /\ e.data_id = USB_PID_SETUP

SetupTransaction(reply) ==
  LET s == frame.slot
      e == ep[s]
  IN  /\ frame.pc = "txn"
      /\ IsSetup(e)
      /\ IF reply = "ACK"
         THEN EndTransaction(s, Sound(transfer_complete([e EXCEPT !.data_id = 0,
                                                                  !.actual_len = SETUP_LEN])), "complete")
         ELSE EndTransaction(s, Failed(e), FailedFlag(e))

ContinueFlag(e, n) == IF transfer_finished(e, n) THEN "complete" ELSE "none"

\* A DATA reply is ACKed by the receiver; only the expected one counts.
InTransaction(reply, n) ==
  LET s == frame.slot
      e == ep[s]
      len == IF n > transaction_len(e) THEN transaction_len(e) ELSE n
  IN  /\ frame.pc = "txn"
      /\ ~IsSetup(e) /\ e.ep_num.in
      /\ CASE reply = DataPid(e.data_id) ->
                EndTransaction(s, Rearmed(Sound(transfer_continue(e, len))), ContinueFlag(e, len))
           [] reply \in DataPids \ {DataPid(e.data_id)} \/ reply = "NAK" ->
                EndTransaction(s, Rearmed(Sound(e)), "none")
           [] reply = "STALL" ->
                EndTransaction(s, Rearmed(Sound(transfer_complete(e))), "stalled")
           [] OTHER ->
                EndTransaction(s, Rearmed(Failed(e)), FailedFlag(e))

OutTransaction(reply) ==
  LET s == frame.slot
      e == ep[s]
      len == transaction_len(e)
  IN  /\ frame.pc = "txn"
      /\ ~IsSetup(e) /\ ~e.ep_num.in
      /\ CASE reply = "ACK" ->
                EndTransaction(s, Rearmed(Sound(transfer_continue(e, len))), ContinueFlag(e, len))
           [] reply = "NAK" ->
                EndTransaction(s, Rearmed(Sound(e)), "none")
           [] reply = "STALL" ->
                EndTransaction(s, Rearmed(Sound(transfer_complete(e))), "stalled")
           [] OTHER ->
                EndTransaction(s, Rearmed(Failed(e)), FailedFlag(e))

\* An idle line on a port without device: a device was plugged in.
CheckConnect ==
  LET p == frame.port
      l == get_line_state(p)
  IN  /\ frame.pc = "connect"
      /\ IF root[p].initialized /\ ~root[p].connected /\ l \in {"FS_IDLE", "LS_IDLE"}
         THEN /\ root' = [root EXCEPT ![p].is_fullspeed = (l = "FS_IDLE"),
                                      ![p].connected = TRUE, ![p].suspended = TRUE]
              /\ ints' = [ints EXCEPT ![p] = @ \cup {"connect"}]
              /\ unreset' = unreset \cup {p}
         ELSE UNCHANGED <<root, ints, unreset>>
      /\ NextPort("irq")
      /\ UNCHANGED <<ep, ep_reg, line, driven, api, owed>>

\* The slots the stack is told of: handle_endpoint_irq goes through the registers
\* whose bit is set in ints, and so does the stack's handler in its place.  The rest
\* of handle_endpoint_irq drives control_pipe of a connected usb_device_t, and no
\* code under src/ ever sets that flag in a host build.
Told(p) == UNION {ep_reg[p][f] : f \in EpFlags \cap ints[p]}

\* Mutant: the disconnect bit is not looked at.
EventOf_Connect(p) == IF "connect" \in ints[p] THEN "connect" ELSE root[p].event

EventOf(p) ==
  CASE "disconnect" \in ints[p] -> "disconnect"
    [] "disconnect" \notin ints[p] /\ "connect" \in ints[p] -> "connect"
    [] OTHER -> root[p].event

\* Mutant: the registers are cleared, the interrupt bits of errors are not.
IrqHandler_ErrorLeft ==
  LET p == frame.port
  IN  /\ frame.pc = "irq"
      /\ root' = [root EXCEPT ![p].event = EventOf(p)]
      /\ owed' = owed \ Told(p)
      /\ ep_reg' = [ep_reg EXCEPT ![p] = [f \in EpFlags |-> {}]]
      /\ ints' = [ints EXCEPT ![p] = @ \cap {"error"}]
      /\ NextPort("idle")
      /\ UNCHANGED <<ep, line, driven, api, unreset>>

\* pio_usb_host_irq_handler: the stack learns of every flagged endpoint and the
\* registers are cleared.
IrqHandler ==
  LET p == frame.port
  IN  /\ frame.pc = "irq"
      /\ root' = [root EXCEPT ![p].event = EventOf(p)]
      /\ owed' = owed \ Told(p)
      /\ ep_reg' = [ep_reg EXCEPT ![p] = [f \in EpFlags |-> IF f \in ints[p] THEN {} ELSE @[f]]]
      /\ ints' = [ints EXCEPT ![p] = {}]
      /\ NextPort("idle")
      /\ UNCHANGED <<ep, line, driven, api, unreset>>

FrameStep ==
  \/ FrameStart \/ SendSof \/ ConnectionLost \/ EnterPort
  \/ SkipSlot \/ VisitLive \/ StartTransaction
  \/ \E reply \in Replies : SetupTransaction(reply) \/ OutTransaction(reply)
  \/ \E reply \in Replies, n \in RxLens : InTransaction(reply, n)
  \/ CheckConnect \/ IrqHandler

-----------------------------------------------------------------------------
(* The functions the host stack calls.                                        *)

\* On one core the caller runs only while the frame handler does not.
CallerRuns == SameCore => frame.pc = "idle"

Calling == CallerRuns /\ api.pc = "idle"

\* _find_ep: 0x00 and 0x80 are the same control endpoint.
Matches(e, p, addr, a) ==
  /\ e.root_idx = p /\ e.dev_addr = addr /\ e.size # 0
  /\ e.ep_num = a \/ (a.num = 0 /\ e.ep_num.num = 0)

Found(p, addr, a) == {s \in Slots : Matches(ep[s], p, addr, a)}

\* The loops over the pool stop at the first entry of S.
IsFirst(s, S) == s \in S /\ \A t \in S : s <= t

\* pio_usb_host_add_port
AddPort ==
  /\ Calling
  /\ \E p \in Ports :
       /\ ~root[p].initialized
       /\ \A q \in Ports : q < p => root[q].initialized
       /\ root' = [root EXCEPT ![p].initialized = TRUE]
  /\ UNCHANGED <<ep, ints, ep_reg, line, driven, frame, api, owed, unreset>>

\* Mutant: an endpoint already open is not looked for.
EndpointOpen_Again(s, p, addr, d) ==
  /\ Calling
  /\ IsFirst(s, {t \in Slots : ep[t].size = 0})
  /\ ep' = [ep EXCEPT ![s] = configure_endpoint(@, d)]
  /\ api' = [ApiIdle EXCEPT !.pc = "bind", !.slot = s, !.port = p, !.addr = addr]
  /\ UNCHANGED <<root, ints, ep_reg, line, driven, frame, owed, unreset>>

\* pio_usb_host_endpoint_open: configure_endpoint makes the entry valid (size) ...
EndpointOpen(s, p, addr, d) ==
  /\ Calling
  /\ Found(p, addr, d.epaddr) = {}
  /\ IsFirst(s, {t \in Slots : ep[t].size = 0})
  /\ ep' = [ep EXCEPT ![s] = configure_endpoint(@, d)]
  /\ api' = [ApiIdle EXCEPT !.pc = "bind", !.slot = s, !.port = p, !.addr = addr]
  /\ UNCHANGED <<root, ints, ep_reg, line, driven, frame, owed, unreset>>

\* ... and then it is bound to its port and device.
EndpointBind ==
  /\ CallerRuns
  /\ api.pc = "bind"
  /\ ep' = [ep EXCEPT ![api.slot].root_idx = api.port, ![api.slot].dev_addr = api.addr,
                      ![api.slot].is_tx = ~ep[api.slot].ep_num.in]
  /\ api' = ApiIdle
  /\ UNCHANGED <<root, ints, ep_reg, line, driven, frame, owed, unreset>>

\* pio_usb_host_endpoint_close: unlike close_device it leaves has_transfer.
EndpointClose(s, p, addr, a) ==
  /\ Calling
  /\ IsFirst(s, Found(p, addr, a))
  /\ Disciplined => s \notin owed
  /\ ep' = [ep EXCEPT ![s].size = 0]
  /\ owed' = owed \ {s}
  /\ UNCHANGED <<root, ints, ep_reg, line, driven, frame, api, unreset>>

CloseDevice(p, addr) ==
  /\ Calling
  /\ api' = [ApiIdle EXCEPT !.pc = "close_device", !.port = p, !.addr = addr]
  /\ UNCHANGED <<ep, root, ints, ep_reg, line, driven, frame, owed, unreset>>

\* One turn of pio_usb_host_close_device's loop over the pool.
CloseDeviceSlot ==
  LET s == api.slot
  IN  /\ CallerRuns
      /\ api.pc = "close_device"
      /\ IF ep[s].root_idx = api.port /\ ep[s].dev_addr = api.addr /\ ep[s].size # 0
         THEN /\ ep' = [ep EXCEPT ![s].size = 0, ![s].has_transfer = FALSE]
              /\ owed' = owed \ {s}
         ELSE UNCHANGED <<ep, owed>>
      /\ api' = IF s + 1 < PoolCnt THEN [api EXCEPT !.slot = s + 1] ELSE ApiIdle
      /\ UNCHANGED <<root, ints, ep_reg, line, driven, frame, unreset>>

\* pio_usb_host_send_setup: the control endpoint is turned to SETUP, whether or
\* not a transfer is queued on it ...
SendSetup(s, p, addr) ==
  /\ Calling
  /\ IsFirst(s, Found(p, addr, EP0))
  /\ Disciplined => s \notin owed
  /\ ep' = [ep EXCEPT ![s].ep_num = EP0, ![s].data_id = USB_PID_SETUP, ![s].is_tx = TRUE]
  /\ api' = [ApiIdle EXCEPT !.pc = "submit", !.slot = s, !.len = SETUP_LEN]
  /\ UNCHANGED <<root, ints, ep_reg, line, driven, frame, owed, unreset>>

\* pio_usb_host_endpoint_transfer: a control endpoint is turned to the asked
\* direction and DATA1 ...
EndpointTransfer(s, p, addr, a, len) ==
  /\ Calling
  /\ IsFirst(s, Found(p, addr, a))
  /\ Disciplined /\ a.num = 0 => s \notin owed
  /\ ep' = IF a.num = 0
           THEN [ep EXCEPT ![s].ep_num = a, ![s].is_tx = ~a.in, ![s].data_id = 1]
           ELSE ep
  /\ api' = [ApiIdle EXCEPT !.pc = "submit", !.slot = s, !.len = len]
  /\ UNCHANGED <<root, ints, ep_reg, line, driven, frame, owed, unreset>>

\* ... then pio_usb_ll_transfer_start refuses a second transfer, or prepares ...
TransferFill ==
  LET s == api.slot
  IN  /\ CallerRuns
      /\ api.pc = "submit"
      /\ IF ep[s].has_transfer
         THEN api' = ApiIdle /\ UNCHANGED ep
         ELSE /\ ep' = [ep EXCEPT ![s] = transfer_fill(@, api.len)]
              /\ api' = [ApiIdle EXCEPT !.pc = "publish", !.slot = s]
      /\ UNCHANGED <<root, ints, ep_reg, line, driven, frame, owed, unreset>>

\* ... and publishes it.
TransferPublish ==
  /\ CallerRuns
  /\ api.pc = "publish"
  /\ ep' = [ep EXCEPT ![api.slot] = transfer_publish(@)]
  /\ owed' = owed \cup {api.slot}
  /\ api' = ApiIdle
  /\ UNCHANGED <<root, ints, ep_reg, line, driven, frame, unreset>>

\* pio_usb_host_endpoint_abort_transfer
AbortTransfer(s, p, addr, a) ==
  /\ Calling
  /\ IsFirst(s, Found(p, addr, a))
  /\ ep[s].has_transfer
  /\ api' = [ApiIdle EXCEPT !.pc = "abort_mark", !.slot = s]
  /\ UNCHANGED <<ep, root, ints, ep_reg, line, driven, frame, owed, unreset>>

AbortMark ==
  /\ CallerRuns
  /\ api.pc = "abort_mark"
  /\ ep' = [ep EXCEPT ![api.slot].transfer_aborted = TRUE]
  /\ api' = [api EXCEPT !.pc = "abort_wait"]
  /\ UNCHANGED <<root, ints, ep_reg, line, driven, frame, owed, unreset>>

\* The wait is left once the frame handler is out of the transaction, or after
\* 8 ms whether it is or not.
AbortWait ==
  /\ CallerRuns
  /\ api.pc = "abort_wait"
  /\ api' = [api EXCEPT !.pc = "abort_read"]
  /\ UNCHANGED <<ep, root, ints, ep_reg, line, driven, frame, owed, unreset>>

AbortRead ==
  /\ CallerRuns
  /\ api.pc = "abort_read"
  /\ api' = [api EXCEPT !.pc = "abort_clear", !.still = ep[api.slot].has_transfer]
  /\ UNCHANGED <<ep, root, ints, ep_reg, line, driven, frame, owed, unreset>>

AbortClear ==
  /\ CallerRuns
  /\ api.pc = "abort_clear"
  /\ IF api.still
     THEN /\ ep' = [ep EXCEPT ![api.slot].has_transfer = FALSE]
          /\ owed' = owed \ {api.slot}
     ELSE UNCHANGED <<ep, owed>>
  /\ api' = [api EXCEPT !.pc = "abort_done"]
  /\ UNCHANGED <<root, ints, ep_reg, line, driven, frame, unreset>>

\* Mutant: transfer_aborted is not reset.
AbortDone_LeavesFlag ==
  /\ CallerRuns
  /\ api.pc = "abort_done"
  /\ api' = ApiIdle
  /\ UNCHANGED <<ep, root, ints, ep_reg, line, driven, frame, owed, unreset>>

AbortDone ==
  /\ CallerRuns
  /\ api.pc = "abort_done"
  /\ ep' = [ep EXCEPT ![api.slot].transfer_aborted = FALSE]
  /\ api' = ApiIdle
  /\ UNCHANGED <<root, ints, ep_reg, line, driven, frame, owed, unreset>>

\* pio_usb_host_port_reset_start: traffic stops, SE0 is forced on the bus.
PortResetStart(p) ==
  /\ Calling
  /\ ~driven[p]
  /\ root' = [root EXCEPT ![p].suspended = TRUE]
  /\ driven' = [driven EXCEPT ![p] = TRUE]
  /\ unreset' = unreset \ {p}
  /\ UNCHANGED <<ep, ints, ep_reg, line, frame, api, owed>>

\* pio_usb_host_port_reset_end: the wires are released, and 100 us later ...
PortResetRelease(p) ==
  /\ Calling
  /\ driven[p]
  /\ driven' = [driven EXCEPT ![p] = FALSE]
  /\ api' = [ApiIdle EXCEPT !.pc = "reset_resume", !.port = p]
  /\ UNCHANGED <<ep, root, ints, ep_reg, line, frame, owed, unreset>>

\* ... traffic is allowed again.
PortResetResume ==
  /\ CallerRuns
  /\ api.pc = "reset_resume"
  /\ root' = [root EXCEPT ![api.port].suspended = FALSE]
  /\ api' = ApiIdle
  /\ UNCHANGED <<ep, ints, ep_reg, line, driven, frame, owed, unreset>>

EpAddresses == {d.epaddr : d \in Descs} \cup {[num |-> 0, in |-> TRUE]}

ApiCall ==
  \/ AddPort
  \/ \E p \in Ports : PortResetStart(p) \/ PortResetRelease(p)
  \/ \E p \in Ports, addr \in DevAddrs : CloseDevice(p, addr)
  \/ \E s \in Slots, p \in Ports, addr \in DevAddrs :
       \/ SendSetup(s, p, addr)
       \/ \E d \in Descs : EndpointOpen(s, p, addr, d)
       \/ \E a \in EpAddresses : EndpointClose(s, p, addr, a) \/ AbortTransfer(s, p, addr, a)
       \/ \E a \in EpAddresses, len \in Lens : EndpointTransfer(s, p, addr, a, len)

\* The rest of a call, once it has been made.
ApiStep ==
  \/ EndpointBind \/ CloseDeviceSlot \/ TransferFill \/ TransferPublish
  \/ AbortMark \/ AbortWait \/ AbortRead \/ AbortClear \/ AbortDone
  \/ PortResetResume

\* A device is plugged in or out.
LineChange ==
  /\ \E p \in Ports : \E l \in Lines[p] :
       /\ (line[p] = "SE0") # (l = "SE0")
       /\ line' = [line EXCEPT ![p] = l]
  /\ UNCHANGED <<ep, root, ints, ep_reg, driven, frame, api, owed, unreset>>

Next == FrameStep \/ ApiCall \/ ApiStep \/ LineChange

Spec == Init /\ [][Next]_vars

\* The repeating alarm calls the frame handler for ever and it runs to its end;
\* a call the stack has made goes on between two frames, which leave the core
\* to it most of each millisecond.
FairSpec == Spec /\ WF_vars(FrameStep) /\ SF_vars(ApiStep)

-----------------------------------------------------------------------------
(* What must hold on one core, with a disciplined stack.                      *)

Pending(s) == \E p \in Ports, f \in EpFlags : s \in ep_reg[p][f]

\* A transfer the stack is owed an outcome for is still queued, or exactly one
\* event for it is on its way, in the registers of its own port and with its
\* interrupt bit set: transfer_complete, connection_check and the interrupt
\* handler neither lose an outcome nor raise a second event for it.  What abort
\* answers besides is the business of AbortedOnce.
Account(s) ==
  /\ s \in owed <=> ep[s].has_transfer \/ Pending(s)
  /\ ~(ep[s].has_transfer /\ Pending(s))
  /\ \A p, q \in Ports, f, g \in EpFlags :
       s \in ep_reg[p][f] /\ s \in ep_reg[q][g] => p = q /\ f = g
  /\ \A p \in Ports, f \in EpFlags :
       s \in ep_reg[p][f] => p = ep[s].root_idx /\ f \in ints[p]

Accounted == \A s \in Slots : Account(s)

\* The answer abort is about to give.
AnswersAborted == api.pc = "abort_clear" /\ api.still

\* Abort answers "successfully aborted" only of a transfer no event was raised for:
\* the transaction it waits for, and those it holds off with transfer_aborted, do not
\* complete the transfer between its test and its answer.  A device that is unplugged
\* there does (connection_check does not look at transfer_aborted): the one exception,
\* told by the port being suspended.
AbortedOnce == AnswersAborted => api.slot \in owed \/ root[ep[api.slot].root_idx].suspended

\* The frame handler only puts a transaction on the bus for a transfer the
\* stack still waits for, of an open endpoint bound to the port it is driving,
\* while that port is connected and not suspended.
TransactionOwned ==
  frame.pc = "txn" =>
    /\ frame.slot \in owed
    /\ ep[frame.slot].size # 0
    /\ ep[frame.slot].root_idx = frame.port
    /\ Operating(frame.port)

Drained(p) == ints[p] = {} /\ \A f \in EpFlags : ep_reg[p][f] = {}

\* Outside the frame handler no interrupt bit or register bit is left over:
\* the test of ints in the frame never hides a flagged endpoint.
NothingLeftOver == frame.pc = "idle" => \A p \in Ports : Drained(p)

\* What makes the three inductive, with type correctness: how far the interrupt
\* loop has come, what the transaction loop has tested and what a call relies on.
HandlerInv ==
  /\ frame.pc = "irq" => \A p \in Ports : p < frame.port => Drained(p)
  /\ frame.pc \in {"visit", "start", "txn"} => Operating(frame.port)
  /\ frame.pc \in {"start", "txn"} =>
       /\ ep[frame.slot].has_transfer
       /\ ep[frame.slot].size # 0
       /\ ep[frame.slot].root_idx = frame.port

CallInv ==
  /\ \A s \in Slots : ep[s].root_idx \in Ports /\ (ep[s].has_transfer => ep[s].size # 0)
  /\ api.pc \in {"submit", "publish"} => ep[api.slot].size # 0
  /\ api.pc \in {"bind", "publish"} => ~ep[api.slot].has_transfer

HostInv == Accounted /\ NothingLeftOver /\ HandlerInv /\ CallInv

\* A queued transfer has not used up its retries, and its byte count has not
\* passed its length: transaction_len's uint16_t subtraction never wraps.
ProgressInBounds ==
  \A s \in Slots : ep[s].has_transfer =>
    ep[s].failed_count < MaxRetry /\ ep[s].actual_len <= ep[s].total_len

\* The packet waiting encoded in ep->buffer is always the next one of the
\* transfer: its data toggle, its place in the caller's buffer and its length.
EncodedInSync ==
  \A s \in Slots : ep[s].has_transfer /\ ep[s].is_tx =>
    ep[s].encoded = [pid |-> DataPid(ep[s].data_id), off |-> ep[s].actual_len,
                     len |-> transaction_len(ep[s])]

AbortPcs == {"abort_wait", "abort_read", "abort_clear", "abort_done"}

\* The two flags the frame handler and abort talk through do not outlive their
\* purpose: a leftover transfer_aborted would starve the endpoint for ever, a
\* leftover transfer_started would hold every abort for 8 ms.
FlagsScoped ==
  \A s \in Slots :
    /\ ep[s].transfer_aborted => api.pc \in AbortPcs /\ api.slot = s
    /\ ep[s].transfer_started => frame.pc = "txn" /\ frame.slot = s

\* Two open endpoints never answer to one address, so the first match _find_ep
\* returns is the only one; a control endpoint answers to 0x00 and 0x80.
OneSlotPerAddress ==
  api.pc # "bind" =>
    \A p \in Ports, addr \in DevAddrs, a \in EpAddresses : Cardinality(Found(p, addr, a)) <= 1

\* The event left by the default handler never says "connect" of a port that
\* has lost its device since.
ConnectEventCurrent ==
  frame.pc = "idle" => \A p \in Ports : root[p].event = "connect" => root[p].connected

\* Losing the device ends every transfer queued on the port, in the same step
\* that marks the port disconnected.
DisconnectRetires ==
  [][\A p \in Ports : root[p].connected /\ ~root'[p].connected =>
       \A s \in Slots : ep[s].root_idx = p => ~ep'[s].has_transfer]_vars

\* A newly connected device is not operated before it has been reset: the
\* frame handler suspends its port because it "needs a bus reset before
\* operating".
ResetBeforeUse == \A p \in Ports : Operating(p) => p \notin unreset

\* A device that never answers: each transfer to it is given up, unless its
\* port is suspended (in a reset, or gone).
SilentDeviceRetires ==
  \A s \in Slots :
    (s \in owed /\ Operating(ep[s].root_idx))
      ~> (s \notin owed \/ ~Operating(ep[s].root_idx))

\* A device that stays unplugged from a port in operation is noticed and reported: the
\* port is marked disconnected and the event left for the application says so.  One
\* that stays plugged in is noticed (what is reported of it is ConnectEventCurrent's
\* business: a loss in the same frame takes precedence, and then the event stays
\* "disconnect").  connection_check needs the port running and the connect check needs
\* it disconnected, so neither sees the line in every state.
LineNoticed ==
  \A p \in Ports :
    /\ (Operating(p) /\ line[p] = "SE0")
         ~> \/ ~root[p].connected /\ root[p].event = "disconnect"
            \/ line[p] # "SE0" \/ driven[p]
    /\ (root[p].initialized /\ line[p] # "SE0")
         ~> (root[p].connected \/ line[p] = "SE0" \/ driven[p])
=============================================================================
