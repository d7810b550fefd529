--------------------------- MODULE DeviceController ---------------------------
(* The device controller of pio_usb_device.c: the packet interrupt answers    *)
(* the host's tokens while the task, which it interrupts anywhere, handles    *)
(* what it flagged, prepares the answers to SETUP packets and watches for a   *)
(* bus reset.  Interrupt and task share the endpoints and the registers of    *)
(* the root port, and neither locks nor disables the other.                   *)
(*                                                                            *)
(* A token of the host, the interrupt it causes and the host's handshake are  *)
(* one step (Isr...): the interrupt runs to its end.  The task is cut at each *)
(* of its accesses to what the interrupt changes: what is left of the current *)
(* call is a list of such accesses (task.todo), and a read-modify-write of a  *)
(* register is two of them.                                                   *)
(*                                                                            *)
(* External: the host, which carries out control transfers on endpoint 0 and  *)
(* polls endpoint 1 IN; packets and handshakes are not lost.  Nothing in the  *)
(* library stalls an endpoint.                                                *)
EXTENDS PioUsbLL, Sequences, FiniteSets

CONSTANTS
  Requests,     \* control transfers of the host: [kind, len], len is wLength,
                \* of a SET_REPORT what the host sends, in one packet; with
                \* endpoint 1 polled (TRUE) and without
  DescLen,      \* kind of descriptor -> its length
  ReportRoom,   \* bytes the device has room for in a SET_REPORT
  Address,      \* the address the host assigns
  EpSize,       \* packet size of every endpoint
  Patient       \* the host sends SETUP and OUT data only when the task has
                \* handled everything before

Kinds == {"device", "config", "address", "configure", "report"}
InKinds == {"device", "config"}

ASSUME DeviceAssumption ==
  /\ Requests \in [BOOLEAN -> SUBSET [kind : Kinds, len : 0 .. U16 - 1]]
  /\ \A b \in BOOLEAN : \A r \in Requests[b] : r.kind = "report" => r.len \in 1 .. EpSize
  /\ DescLen \in [InKinds -> Nat] /\ ReportRoom \in Nat
  /\ Address \in Nat \ {0} /\ EpSize \in Nat \ {0}
  /\ Patient \in BOOLEAN

VARIABLES
  polled,       \* the host polls endpoint 1 and the application fills it, or
                \* only endpoint 0 is in use; fixed in a behaviour
  ep,           \* pio_usb_ep_pool: "out0", "in0" and "in1"
  data,         \* endpoint -> whose data app_buf holds
  torn,         \* endpoints whose packet is being encoded
  root,         \* root_port_t: ints, ep_complete, ep_continue, dev_addr
  setup_packet, \* what the receive buffer, where setup_packet points, holds
  new_devaddr,
  stage,        \* control_pipe.stage
  desc_request, \* ep0_desc_request_type and _len
  task,         \* pio_usb_device_task: where it is, the ints it has seen, and
                \* what is left of the call in progress
  app,          \* pio_usb_set_out_data on the other core
  host          \* the control transfer in progress, and the line

vars == <<polled, ep, data, torn, root, setup_packet, new_devaddr, stage, desc_request, task, app, host>>

Eps == {"out0", "in0", "in1"}
InEps == <<"in0", "in1">>
DeviceInts == {"reset", "setup", "complete", "continue"}
None == [kind |-> "none", len |-> 0]

Init ==
  /\ polled \in BOOLEAN
  /\ ep = [e \in Eps |-> UnusedEndpoint]
  /\ data = [e \in Eps |-> "none"] /\ torn = {}
  /\ root = [ints |-> {}, ep_complete |-> {}, ep_continue |-> {}, dev_addr |-> 0]
  /\ setup_packet = None /\ new_devaddr = 0
  /\ stage = "setup" /\ desc_request = None
  /\ task = [pc |-> "poll", seen |-> {}, todo |-> <<>>]
  /\ app = "idle"
  /\ host = [request |-> None, stage |-> "reset", pid |-> "DATA1", got |-> <<>>,
             addr |-> 0, configured |-> FALSE, gave_up |-> FALSE]

-----------------------------------------------------------------------------
(* The packet interrupt.                                                      *)

Caught == root.ints = {} /\ task.todo = <<>> /\ task.pc \in {"poll", "desc", "line"} /\ desc_request = None

Other(pid) == IF pid = "DATA0" THEN "DATA1" ELSE "DATA0"

Addressed == host.addr = root.dev_addr
TaskAside == UNCHANGED <<polled, stage, desc_request, task>>

\* The first stage after SETUP.
FirstStage(request) ==
  IF request.kind \in InKinds THEN "in"
  ELSE IF request.kind = "report" THEN "out" ELSE "status_in"

\* The host may start a transfer, instead of one it gives up: but not of a
\* SET_ADDRESS, and, to bound the runs, not of two in a row and not while it
\* also polls endpoint 1.
MayStart ==
  \/ host.stage = "idle"
  \/ /\ host.stage # "reset" /\ host.request.kind # "address"
     /\ ~host.gave_up /\ ~polled

Started(request) ==
  [host EXCEPT !.request = request, !.stage = FirstStage(request), !.pid = "DATA1",
               !.got = <<>>, !.gave_up = host.stage # "idle"]

\* Mutant: the transfers of the request before stay.
IsrSetup_KeepsTransfer(request) ==
  /\ MayStart /\ Addressed /\ (Patient => Caught)
  /\ host' = Started(request)
  /\ setup_packet' = request
  /\ root' = [root EXCEPT !.ints = @ \union {"setup"}]
  /\ ep' = [e \in Eps |-> IF e = "in1" THEN ep[e] ELSE [ep[e] EXCEPT !.data_id = 1]]
  /\ UNCHANGED <<data, torn, new_devaddr, app>> /\ TaskAside

\* Mutant: the toggles go on from the request before.
IsrSetup_KeepsToggle(request) ==
  /\ MayStart /\ Addressed /\ (Patient => Caught)
  /\ host' = Started(request)
  /\ setup_packet' = request
  /\ root' = [root EXCEPT !.ints = @ \union {"setup"}]
  /\ ep' = [e \in Eps |-> IF e = "in1" THEN ep[e] ELSE [ep[e] EXCEPT !.has_transfer = FALSE]]
  /\ UNCHANGED <<data, torn, new_devaddr, app>> /\ TaskAside

\* SETUP: acknowledged whatever the task is doing.
IsrSetup(request) ==
  /\ MayStart /\ Addressed /\ (Patient => Caught)
  /\ host' = Started(request)
  /\ setup_packet' = request
  /\ root' = [root EXCEPT !.ints = @ \union {"setup"}]
  /\ ep' = [e \in Eps |-> IF e = "in1" THEN ep[e]
                          ELSE [ep[e] EXCEPT !.has_transfer = FALSE, !.data_id = 1]]
  /\ UNCHANGED <<data, torn, new_devaddr, app>> /\ TaskAside

\* A packet the host takes: whose data, from where, and its length.
Packet(e) == [data |-> data[e], off |-> ep[e].encoded.off, len |-> ep[e].encoded.len]

\* The bytes of a control IN the host waits for.
Wanted == host.request.len

\* What the host does with the packet it is sent.  A packet that is torn is not
\* acknowledged; one with the toggle of the last is acknowledged and dropped.
HostTakes(e) ==
  IF e \in torn \/ ep[e].encoded.pid # host.pid THEN UNCHANGED host
  ELSE IF host.stage = "status_in"
  THEN host' = [host EXCEPT !.stage = "idle",
                            !.addr = IF host.request.kind = "address" THEN Address ELSE @,
                            !.configured = @ \/ host.request.kind = "configure"]
  ELSE LET p == Packet(e)
       IN  host' = [host EXCEPT !.got = Append(@, p), !.pid = Other(@),
                                !.stage = IF p.len < EpSize \/ p.off + p.len >= Wanted
                                          THEN "status_out" ELSE "in"]

\* After its packet, with or without the host's ACK, endpoint e goes on.
Flagged(e) == [root EXCEPT !.ints = @ \union {"continue"}, !.ep_continue = @ \union {e}]

\* IN to endpoint 0.  Without a transfer it is a NAK, which changes nothing.
IsrIn0 ==
  /\ host.stage \in {"in", "status_in"} /\ Addressed
  /\ ep["in0"].has_transfer
  /\ HostTakes("in0")
  /\ IF new_devaddr > 0
     THEN root' = [Flagged("in0") EXCEPT !.dev_addr = new_devaddr] /\ new_devaddr' = 0
     ELSE root' = Flagged("in0") /\ UNCHANGED new_devaddr
  /\ UNCHANGED <<ep, data, torn, setup_packet, app>> /\ TaskAside

\* IN to endpoint 1.
IsrIn1 ==
  /\ polled /\ host.configured /\ host.stage # "reset" /\ Addressed
  /\ ep["in1"].has_transfer
  /\ root' = Flagged("in1")
  /\ UNCHANGED <<ep, data, torn, setup_packet, new_devaddr, app, host>> /\ TaskAside

\* OUT to endpoint 0, data or status.  The packet lands in the receive buffer
\* even if it is NAKed.  What the transfer has no room for is acknowledged and
\* dropped.
IsrOut0 ==
  LET len == IF host.stage = "out" THEN host.request.len ELSE 0
      res == IF len > transaction_len(ep["out0"]) THEN transaction_len(ep["out0"]) ELSE len
      acked == ep["out0"].has_transfer
  IN  /\ host.stage \in {"out", "status_out"} /\ Addressed
      /\ Patient /\ host.stage = "out" => Caught
      /\ setup_packet' = None
      /\ IF acked
         THEN /\ ep' = [ep EXCEPT !["out0"] = transfer_continue(@, res)]
              /\ root' = IF transfer_finished(ep["out0"], res)
                         THEN [root EXCEPT !.ints = @ \union {"complete"},
                                           !.ep_complete = @ \union {"out0"}]
                         ELSE root
              /\ host' = IF host.stage = "out"
                         THEN [host EXCEPT !.stage = "status_in", !.pid = "DATA1",
                                           !.got = <<[data |-> data["out0"], off |-> 0, len |-> res]>>]
                         ELSE [host EXCEPT !.stage = "idle"]
         ELSE UNCHANGED <<ep, root, host>>
      /\ UNCHANGED <<data, torn, new_devaddr, app>> /\ TaskAside

\* The host drives SE0.
HostReset ==
  /\ MayStart
  /\ host' = [host EXCEPT !.stage = "reset", !.addr = 0, !.configured = FALSE]
  /\ UNCHANGED <<ep, data, torn, root, setup_packet, new_devaddr, app>> /\ TaskAside

Isr == IsrIn0 \/ IsrIn1 \/ IsrOut0 \/ HostReset \/ \E r \in Requests[polled] : IsrSetup(r)

-----------------------------------------------------------------------------
(* The task: what is left of a call.                                          *)

Start(e, d, len) == [op |-> "start", e |-> e, data |-> d, len |-> len]
Rmw(field, add, del) == [op |-> "load", field |-> field, add |-> add, del |-> del]

Doing(op) == task.todo # <<>> /\ Head(task.todo).op = op
Op == Head(task.todo)
\* The head of the list is replaced by ops.
Then(ops) == task' = [task EXCEPT !.todo = ops \o Tail(@)]

IsrAside == UNCHANGED <<polled, setup_packet, app, host>>

\* transfer_start, up to the store that publishes the transfer ...
TransferFill ==
  /\ Doing("start")
  /\ IF ep[Op.e].has_transfer
     THEN Then(<<>>) /\ UNCHANGED <<ep, data>>
     ELSE /\ ep' = [ep EXCEPT ![Op.e] = transfer_fill(@, Op.len)]
          /\ data' = [data EXCEPT ![Op.e] = Op.data]
          /\ Then(<<[op |-> "publish", e |-> Op.e]>>)
  /\ IsrAside /\ UNCHANGED <<torn, root, new_devaddr, stage, desc_request>>

\* ... and that store.
TransferPublish ==
  /\ Doing("publish")
  /\ ep' = [ep EXCEPT ![Op.e] = transfer_publish(@)]
  /\ Then(<<>>)
  /\ IsrAside /\ UNCHANGED <<data, torn, root, new_devaddr, stage, desc_request>>

\* reg |= add, reg &= ~del: the load ...
Load ==
  /\ Doing("load")
  /\ Then(<<[op |-> "store", field |-> Op.field, value |-> (root[Op.field] \ Op.del) \union Op.add]>>)
  /\ IsrAside /\ UNCHANGED <<ep, data, torn, root, new_devaddr, stage, desc_request>>

\* ... and the store, which undoes what the interrupt did in between.
Store ==
  /\ Doing("store")
  /\ root' = [root EXCEPT ![Op.field] = Op.value]
  /\ Then(<<>>)
  /\ IsrAside /\ UNCHANGED <<ep, data, torn, new_devaddr, stage, desc_request>>

\* transfer_continue: the packet after the one sent is encoded in its place, or
\* the transfer is complete.
TransferContinue ==
  LET len == transaction_len(ep[Op.e])
  IN  /\ Doing("continue")
      /\ ep' = [ep EXCEPT ![Op.e] = transfer_progress(@, len)]
      /\ IF transfer_finished(ep[Op.e], len)
         THEN /\ Then(<<Rmw("ints", {"complete"}, {}), Rmw("ep_complete", {Op.e}, {}),
                        [op |-> "done", e |-> Op.e]>>)
              /\ UNCHANGED torn
         ELSE /\ Then(<<[op |-> "encode", e |-> Op.e]>>)
              /\ torn' = torn \union {Op.e}
      /\ IsrAside /\ UNCHANGED <<data, root, new_devaddr, stage, desc_request>>

\* Mutant: the buffer is left half encoded.
EncodeEnd_Torn ==
  /\ Doing("encode")
  /\ ep' = [ep EXCEPT ![Op.e] = prepare_tx_data(@)]
  /\ Then(<<>>)
  /\ IsrAside /\ UNCHANGED <<data, torn, root, new_devaddr, stage, desc_request>>

EncodeEnd ==
  /\ Doing("encode")
  /\ ep' = [ep EXCEPT ![Op.e] = prepare_tx_data(@)]
  /\ torn' = torn \ {Op.e}
  /\ Then(<<>>)
  /\ IsrAside /\ UNCHANGED <<data, root, new_devaddr, stage, desc_request>>

\* transfer_complete's last store.
TransferDone ==
  /\ Doing("done")
  /\ ep' = [ep EXCEPT ![Op.e].has_transfer = FALSE]
  /\ Then(<<>>)
  /\ IsrAside /\ UNCHANGED <<data, torn, root, new_devaddr, stage, desc_request>>

-----------------------------------------------------------------------------
(* The task: pio_usb_device_task and the interrupt handler it calls.          *)

\* Mutant: the status stage is not prepared.
PrepareData_NoStatus(d, len) == <<Start("in0", d, len % U8)>>

\* Mutant: no room is made for the data.
PrepareRx_Empty(d, len) == <<Start("out0", d, 0), Start("in0", "none", 0)>>

\* prepare_ep0_data and prepare_ep0_rx; len is a uint8_t.
PrepareData(d, len) ==
  IF len % U8 = 0 THEN <<Start("in0", d, 0)>>
  ELSE <<Start("in0", d, len % U8), Start("out0", "none", 0)>>
PrepareRx(d, len) == <<Start("out0", d, len), Start("in0", "none", 0)>>

At(pc) == task.pc = pc /\ task.todo = <<>>
GoOn(pc, todo) == task' = [task EXCEPT !.pc = pc, !.todo = todo]

\* The handler is called when ints is not 0, and works on what it sees now.
TaskPoll ==
  /\ At("poll")
  /\ task' = [task EXCEPT !.pc = IF root.ints = {} THEN "desc" ELSE "setup", !.seen = root.ints]
  /\ IsrAside /\ UNCHANGED <<ep, data, torn, root, new_devaddr, stage, desc_request>>

\* process_device_setup_stage: the transfers it starts ...
SetupTransfers(r) ==
  CASE r.kind = "device" -> PrepareData("device", DescLen["device"])
    [] r.kind \in {"address", "configure"} -> PrepareData("none", 0)
    [] r.kind = "report" -> PrepareRx("report", ReportRoom)
    [] OTHER -> <<>>

\* ... and the endpoint that SET_CONFIGURATION opens.
Endpoint1 == [epaddr |-> [num |-> 1, in |-> TRUE], attr |-> "interrupt",
              max_size |-> EpSize, interval |-> 1]

\* Mutant: the new address is taken at once.
HandleSetup_AddressNow ==
  LET r == IF "setup" \in task.seen THEN setup_packet ELSE None
  IN  /\ At("setup")
      /\ stage' = "data"
      /\ root' = IF r.kind = "address" THEN [root EXCEPT !.dev_addr = Address] ELSE root
      /\ desc_request' = IF r.kind = "config" THEN r ELSE desc_request
      /\ GoOn("complete", SetupTransfers(r))
      /\ IsrAside /\ UNCHANGED <<ep, data, torn, new_devaddr>>

HandleSetup ==
  LET r == IF "setup" \in task.seen THEN setup_packet ELSE None
  IN  /\ At("setup")
      /\ stage' = IF "setup" \in task.seen THEN "data"
                  ELSE IF "reset" \in task.seen THEN "setup" ELSE stage
      /\ new_devaddr' = IF r.kind = "address" THEN Address ELSE new_devaddr
      /\ desc_request' = IF r.kind = "config" THEN r ELSE desc_request
      /\ ep' = IF r.kind = "configure"
               THEN [ep EXCEPT !["in1"] = [configure_endpoint(@, Endpoint1) EXCEPT !.is_tx = TRUE]]
               ELSE ep
      /\ GoOn("complete", SetupTransfers(r))
      /\ IsrAside /\ UNCHANGED <<data, torn, root>>

\* The completions seen move the control pipe on.
HandleComplete ==
  LET all == IF "complete" \in task.seen THEN root.ep_complete ELSE {}
      moved == IF "out0" \notin all THEN stage
               ELSE IF stage = "status" THEN "complete"
               ELSE IF stage = "data" THEN "status" ELSE stage
      answer == IF "out0" \in all /\ stage = "data" THEN PrepareData("none", 0) ELSE <<>>
      clear == IF "complete" \in task.seen THEN <<Rmw("ep_complete", {}, all)>> ELSE <<>>
  IN  /\ At("complete")
      /\ stage' = IF "in0" \in all /\ moved = "status" THEN "complete" ELSE moved
      /\ GoOn("in0", answer \o clear)
      /\ IsrAside /\ UNCHANGED <<ep, data, torn, root, new_devaddr, desc_request>>

\* For endpoint 0, then endpoint 1.
HandleContinue ==
  /\ At("in0") \/ At("in1")
  /\ GoOn(IF task.pc = "in0" THEN "in1" ELSE "clear",
          IF "continue" \in task.seen /\ task.pc \in root.ep_continue
          THEN <<[op |-> "continue", e |-> task.pc], Rmw("ep_continue", {}, {task.pc})>>
          ELSE <<>>)
  /\ IsrAside /\ UNCHANGED <<ep, data, torn, root, new_devaddr, stage, desc_request>>

HandlerEnd ==
  /\ At("clear")
  /\ GoOn("desc", <<Rmw("ints", {}, task.seen)>>)
  /\ IsrAside /\ UNCHANGED <<ep, data, torn, root, new_devaddr, stage, desc_request>>

\* A descriptor asked for is prepared after the handler.
TaskDesc ==
  LET len == DescLen["config"]
  IN  /\ At("desc")
      /\ GoOn("line", IF desc_request = None THEN <<>>
                      ELSE PrepareData("config", IF desc_request.len > len THEN len ELSE desc_request.len))
      /\ desc_request' = None
      /\ IsrAside /\ UNCHANGED <<ep, data, torn, root, new_devaddr, stage>>

\* A millisecond of SE0: the pool is cleared, endpoint 0 is set up.  Nothing is
\* sent on the bus meanwhile; the host ends the reset after the device has seen it.
Ep0(in) == [UnusedEndpoint EXCEPT !.size = EpSize, !.ep_num.in = in, !.is_tx = in]

BusReset ==
  /\ At("line") /\ host.stage = "reset"
  /\ ep' = [out0 |-> Ep0(FALSE), in0 |-> Ep0(TRUE), in1 |-> UnusedEndpoint]
  /\ root' = [root EXCEPT !.dev_addr = 0, !.ep_complete = {}]
  /\ host' = [host EXCEPT !.stage = "idle"]
  /\ GoOn("poll", <<Rmw("ints", {"reset"}, {})>>)
  /\ UNCHANGED <<polled, data, torn, setup_packet, app, new_devaddr, stage, desc_request>>

LineIdle ==
  /\ At("line") /\ host.stage # "reset"
  /\ GoOn("poll", <<>>)
  /\ IsrAside /\ UNCHANGED <<ep, data, torn, root, new_devaddr, stage, desc_request>>

TaskStep ==
  \/ TransferFill \/ TransferPublish \/ Load \/ Store
  \/ TransferContinue \/ EncodeEnd \/ TransferDone
  \/ TaskPoll \/ HandleSetup \/ HandleComplete \/ HandleContinue \/ HandlerEnd
  \/ TaskDesc \/ BusReset \/ LineIdle

-----------------------------------------------------------------------------
(* The application on the other core fills endpoint 1.                        *)

SetOutData ==
  /\ polled /\ app = "idle"
  /\ ~ep["in1"].has_transfer /\ ep["in1"].is_tx
  /\ ep' = [ep EXCEPT !["in1"] = transfer_fill(@, 1)]
  /\ data' = [data EXCEPT !["in1"] = "in1"]
  /\ app' = "publish"
  /\ TaskAside /\ UNCHANGED <<torn, root, setup_packet, new_devaddr, host>>

SetOutPublish ==
  /\ app = "publish"
  /\ ep' = [ep EXCEPT !["in1"] = transfer_publish(@)]
  /\ app' = "idle"
  /\ TaskAside /\ UNCHANGED <<data, torn, root, setup_packet, new_devaddr, host>>

Next == Isr \/ TaskStep \/ SetOutData \/ SetOutPublish

Spec == Init /\ [][Next]_vars

\* The task loops for ever, and the host goes on polling a transfer it began.
FairSpec == Spec /\ WF_vars(TaskStep) /\ WF_vars(IsrIn0) /\ WF_vars(IsrOut0)

-----------------------------------------------------------------------------

TypeOK ==
  /\ ep \in [Eps -> Endpoints]
  /\ torn = (IF Doing("encode") THEN {Op.e} ELSE {})
  /\ root.ints \subseteq DeviceInts
  /\ root.ep_complete \subseteq Eps /\ root.ep_continue \subseteq {"in0", "in1"}
  /\ root.dev_addr \in {0, Address} /\ new_devaddr \in {0, Address}

\* What the host has of a control IN is the descriptor it asked for, from its
\* start and without a gap, and all of it at the end; as long as no other
\* endpoint raises the event an earlier transfer lost.
DescLenOf(r) == IF r.len < DescLen[r.kind] THEN r.len ELSE DescLen[r.kind]

Sent(n) == (n - 1) * EpSize

AnswersRequest ==
  ~polled /\ host.request.kind \in InKinds /\ host.stage \in {"in", "status_out"} =>
    LET total == DescLenOf(host.request)
    IN  /\ \A i \in 1 .. Len(host.got) :
             /\ host.got[i].data = host.request.kind
             /\ host.got[i].off = Sent(i)
             /\ host.got[i].len = IF total - Sent(i) < EpSize THEN total - Sent(i) ELSE EpSize
        /\ host.stage = "status_out" => Sent(Len(host.got)) + EpSize >= total

\* The data and the status stage start with DATA1, as device.c:242 says ...
StartsWithData1 ==
  host.stage \in {"in", "status_in"} /\ host.pid = "DATA1" /\ host.got = <<>>
    /\ ep["in0"].has_transfer /\ "in0" \notin torn
    => ep["in0"].encoded.pid = "DATA1"

\* ... which holds while only endpoint 0 is in use.
StartsWithData1Alone == ~polled => StartsWithData1

\* Host and device agree on the address at every moment while only endpoint 0 is
\* in use: the device takes a new one with the ACK of the status stage, neither
\* earlier nor later.  The host sees a SET_ADDRESS through (MayStart): after one it
\* gives up new_devaddr stays, and the next IN of endpoint 0 would take it up.
AddressAgreed == ~polled /\ host.stage # "reset" => root.dev_addr = host.addr

\* Of a report it has acknowledged the device has all that it made room for, from the
\* report's start: a report of at most ReportRoom bytes (8 in device.c:498) is whole, of
\* a longer one the rest is lost without the host's being told.
Stored(len) == IF len > ReportRoom THEN ReportRoom ELSE len

ReportStored ==
  host.request.kind = "report" /\ host.got # <<>> =>
    host.got = <<[data |-> "report", off |-> 0, len |-> Stored(host.request.len)]>>

\* Every control transfer comes to its end while only endpoint 0 is in use.
TransferEnds ==
  (~polled /\ host.stage \notin {"idle", "reset"}) ~> (host.stage = "idle")
=============================================================================
