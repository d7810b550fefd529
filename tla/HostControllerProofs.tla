------------------------- MODULE HostControllerProofs -------------------------
(* Theorems about HostController, for every number of ports and pool entries, *)
(* every set of descriptors, lengths and replies: first what becomes of a     *)
(* transfer, then its progress, the flags the two threads talk through, the   *)
(* address each endpoint answers to, and what the stack is told of a port.    *)
EXTENDS HostController, PioUsbLLProofs, FiniteSetTheorems

-----------------------------------------------------------------------------
(* What the frame handler's updates of an endpoint return.                    *)

\* The frame handler's updates of an endpoint return endpoints.
LEMMA UpdateType ==
  ASSUME NEW e \in Endpoints
  PROVE  /\ transfer_complete(e) \in Endpoints
         /\ Sound(e) \in Endpoints
         /\ Failed(e) \in Endpoints
         /\ Rearmed(e) \in Endpoints
         /\ [e EXCEPT !.transfer_started = FALSE] \in Endpoints
<1>1. \A f \in Endpoints : transfer_complete(f) \in Endpoints
  BY DEF transfer_complete, Endpoints
<1>2. Sound(e) \in Endpoints
  BY DEF Sound, Endpoints
<1>3. [e EXCEPT !.failed_count = @ + 1] \in Endpoints
  BY DEF Endpoints
<1>4. Failed(e) \in Endpoints
  BY <1>1, <1>3 DEF Failed
<1>5. Rearmed(e) \in Endpoints
  BY DEF Rearmed, Endpoints, U8
<1>6. [e EXCEPT !.transfer_started = FALSE] \in Endpoints
  BY DEF Endpoints
<1> QED
  BY <1>1, <1>2, <1>4, <1>5, <1>6

-----------------------------------------------------------------------------
(* Type correctness.                                                          *)

Frames == [pc : FramePcs, port : Ports, slot : Slots]
Apis == [pc : ApiPcs, slot : Slots, port : Ports, addr : Nat, len : 0 .. U16 - 1, still : BOOLEAN]

\* There is a port 0 and a pool entry 0: the loops start there.
LEMMA Zero == 0 \in Ports /\ 0 \in Slots
BY HostAssumption DEF Ports, Slots

\* The resting states of the two threads are typed.
LEMMA IdleTypes == FrameIdle \in Frames /\ ApiIdle \in Apis
BY Zero DEF FrameIdle, ApiIdle, Frames, Apis, FramePcs, ApiPcs, U16

\* The loop counters of the frame handler stay inside their arrays.
LEMMA NextPortType ==
  ASSUME frame \in Frames, NEW after \in FramePcs, NextPort(after)
  PROVE  frame' \in Frames
<1>1. CASE frame.port + 1 < PortCnt
  <2>1. frame.port + 1 \in Ports
    BY <1>1, HostAssumption DEF Frames, Ports
  <2>2. frame' = [frame EXCEPT !.port = @ + 1, !.slot = 0]
    BY <1>1 DEF NextPort
  <2> QED
    BY <2>1, <2>2, Zero DEF Frames
<1>2. CASE ~(frame.port + 1 < PortCnt)
  BY <1>2, Zero DEF NextPort, Frames
<1> QED
  BY <1>1, <1>2

\* The same for the loop over the pool.
LEMMA NextSlotType ==
  ASSUME frame \in Frames, NextSlot
  PROVE  frame' \in Frames
<1>1. CASE frame.slot + 1 < PoolCnt
  <2>1. frame.slot + 1 \in Slots
    BY <1>1, HostAssumption DEF Frames, Slots
  <2>2. frame' = [frame EXCEPT !.pc = "visit", !.slot = @ + 1]
    BY <1>1 DEF NextSlot
  <2> QED
    BY <2>1, <2>2 DEF Frames, FramePcs
<1>2. CASE ~(frame.slot + 1 < PoolCnt) /\ frame.port + 1 < PortCnt
  <2>1. frame.port + 1 \in Ports
    BY <1>2, HostAssumption DEF Frames, Ports
  <2> QED
    BY <1>2, <2>1, Zero DEF NextSlot, Frames, FramePcs
<1>3. CASE ~(frame.slot + 1 < PoolCnt) /\ ~(frame.port + 1 < PortCnt)
  BY <1>3, Zero DEF NextSlot, Frames, FramePcs
<1> QED
  BY <1>1, <1>2, <1>3

\* transfer_complete raises known bits in the registers of a port.
LEMMA RaiseFlagType ==
  ASSUME ints \in [Ports -> SUBSET IntFlags],
         ep_reg \in [Ports -> [EpFlags -> SUBSET Slots]],
         NEW s \in Slots, NEW flag \in EpFlags, RaiseFlag(s, flag)
  PROVE  /\ ints' \in [Ports -> SUBSET IntFlags]
         /\ ep_reg' \in [Ports -> [EpFlags -> SUBSET Slots]]
<1> DEFINE p == ep[s].root_idx
<1>1. ints' = [ints EXCEPT ![p] = ints[p] \cup {flag}]
  BY DEF RaiseFlag
<1>2. ep_reg' = [ep_reg EXCEPT ![p] = [ep_reg[p] EXCEPT ![flag] = ep_reg[p][flag] \cup {s}]]
  BY DEF RaiseFlag
<1>3. flag \in IntFlags
  BY DEF IntFlags
<1>4. CASE p \in Ports
  <2>1. ints[p] \cup {flag} \in SUBSET IntFlags
    BY <1>3, <1>4
  <2>2. [ep_reg[p] EXCEPT ![flag] = ep_reg[p][flag] \cup {s}] \in [EpFlags -> SUBSET Slots]
    BY <1>4
  <2> QED
    BY <1>1, <1>2, <2>1, <2>2
<1>5. CASE p \notin Ports
  BY <1>1, <1>2, <1>5
<1> QED
  BY <1>4, <1>5

\* A transaction that leaves an endpoint in its slot keeps every variable typed.
LEMMA EndTransactionType ==
  ASSUME TypeOK, NEW e \in Endpoints, NEW flag \in EpFlags \cup {"none"},
         EndTransaction(frame.slot, e, flag)
  PROVE  TypeOK'
<1> DEFINE s == frame.slot
<1>1. s \in Slots
  BY DEF TypeOK
<1>2. [e EXCEPT !.transfer_started = FALSE] \in Endpoints
  BY UpdateType
<1>3. ep' \in [Slots -> Endpoints]
  BY <1>1, <1>2 DEF TypeOK, EndTransaction
<1>4. frame' \in Frames
  BY NextSlotType DEF TypeOK, EndTransaction, Frames
<1>5. /\ ints' \in [Ports -> SUBSET IntFlags]
      /\ ep_reg' \in [Ports -> [EpFlags -> SUBSET Slots]]
  <2>1. CASE flag = "none"
    BY <2>1 DEF TypeOK, EndTransaction
  <2>2. CASE flag # "none"
    <3>1. RaiseFlag(s, flag)
      BY <2>2 DEF EndTransaction
    <3>2. flag \in EpFlags
      BY <2>2
    <3> QED
      BY <1>1, <3>1, <3>2, RaiseFlagType DEF TypeOK
  <2> QED
    BY <2>1, <2>2
<1> QED
  BY <1>3, <1>4, <1>5 DEF TypeOK, EndTransaction, Frames

\* A transaction reports one of the three outcomes, or none.
LEMMA FlagTypes ==
  ASSUME NEW e, NEW n
  PROVE  /\ FailedFlag(e) \in EpFlags \cup {"none"}
         /\ ContinueFlag(e, n) \in EpFlags \cup {"none"}
BY DEF FailedFlag, ContinueFlag, EpFlags

\* The three kinds of transaction, whatever the device replies.
LEMMA TransactionType ==
  ASSUME TypeOK, NEW reply \in Replies, NEW n \in Nat,
         SetupTransaction(reply) \/ InTransaction(reply, n) \/ OutTransaction(reply)
  PROVE  TypeOK'
<1> DEFINE e == ep[frame.slot]
<1>1. e \in Endpoints
  BY DEF TypeOK
<1>2. Failed(e) \in Endpoints /\ Rearmed(Failed(e)) \in Endpoints
  BY <1>1, UpdateType
<1>3. Rearmed(Sound(e)) \in Endpoints
  BY <1>1, UpdateType
<1>4. Rearmed(Sound(transfer_complete(e))) \in Endpoints
  BY <1>1, UpdateType
<1>5. "none" \in EpFlags \cup {"none"} /\ "stalled" \in EpFlags \cup {"none"}
      /\ "complete" \in EpFlags \cup {"none"}
  BY DEF EpFlags
<1>6. FailedFlag(e) \in EpFlags \cup {"none"}
  BY FlagTypes
<1>7. CASE SetupTransaction(reply)
  <2> DEFINE f == [e EXCEPT !.data_id = 0, !.actual_len = SETUP_LEN]
  <2>1. f \in Endpoints
    BY <1>1 DEF Endpoints, SETUP_LEN
  <2>2. Sound(transfer_complete(f)) \in Endpoints
    BY <2>1, UpdateType
  <2>3. \/ EndTransaction(frame.slot, Sound(transfer_complete(f)), "complete")
        \/ EndTransaction(frame.slot, Failed(e), FailedFlag(e))
    BY <1>7 DEF SetupTransaction
  <2> QED
    BY <1>2, <1>5, <1>6, <2>2, <2>3, EndTransactionType
<1>8. ASSUME NEW len \in Nat
      PROVE  /\ Rearmed(Sound(transfer_continue(e, len))) \in Endpoints
             /\ ContinueFlag(e, len) \in EpFlags \cup {"none"}
  BY <1>1, ContinueType, UpdateType, FlagTypes
<1>9. transaction_len(e) \in Nat
  BY <1>1, LenType
<1>10. CASE InTransaction(reply, n)
  <2> DEFINE len == IF n > transaction_len(e) THEN transaction_len(e) ELSE n
  <2>1. len \in Nat
    BY <1>9
  <2>2. \/ EndTransaction(frame.slot, Rearmed(Sound(transfer_continue(e, len))),
                          ContinueFlag(e, len))
        \/ EndTransaction(frame.slot, Rearmed(Sound(e)), "none")
        \/ EndTransaction(frame.slot, Rearmed(Sound(transfer_complete(e))), "stalled")
        \/ EndTransaction(frame.slot, Rearmed(Failed(e)), FailedFlag(e))
    BY <1>10 DEF InTransaction, DataPids
  <2> HIDE DEF len
  <2> QED
    BY <1>2, <1>3, <1>4, <1>5, <1>6, <1>8, <2>1, <2>2, EndTransactionType
<1>11. CASE OutTransaction(reply)
  <2> DEFINE len == transaction_len(e)
  <2>2. \/ EndTransaction(frame.slot, Rearmed(Sound(transfer_continue(e, len))),
                          ContinueFlag(e, len))
        \/ EndTransaction(frame.slot, Rearmed(Sound(e)), "none")
        \/ EndTransaction(frame.slot, Rearmed(Sound(transfer_complete(e))), "stalled")
        \/ EndTransaction(frame.slot, Rearmed(Failed(e)), FailedFlag(e))
    BY <1>11 DEF OutTransaction
  <2>3. len \in Nat
    BY <1>9
  <2> HIDE DEF len
  <2> QED
    BY <1>2, <1>3, <1>4, <1>5, <1>6, <1>8, <2>2, <2>3, EndTransactionType
<1> QED
  BY <1>7, <1>10, <1>11

\* The frame handler keeps every variable in its type.
LEMMA FrameStepType ==
  ASSUME TypeOK, FrameStep
  PROVE  TypeOK'
<1> USE DEF Frames
<1>1. CASE FrameStart
  BY <1>1 DEF TypeOK, FrameStart, FramePcs
<1>2. CASE SendSof
  <2>1. frame' \in Frames
    BY <1>2, NextPortType DEF TypeOK, SendSof, FramePcs
  <2> QED
    BY <1>2, <2>1 DEF TypeOK, SendSof
<1>3. CASE ConnectionLost
  <2> DEFINE p == frame.port
  <2>1. frame' \in Frames
    BY <1>3, NextPortType DEF TypeOK, ConnectionLost, FramePcs
  <2>2. p \in Ports
    BY DEF TypeOK
  <2>3. root' \in [Ports -> RootPorts]
    <3>1. root[p] \in RootPorts
      BY <2>2 DEF TypeOK
    <3>2. [root[p] EXCEPT !.connected = FALSE, !.suspended = TRUE] \in RootPorts
      BY <3>1 DEF RootPorts
    <3>3. root' = [root EXCEPT ![p] = [root[p] EXCEPT !.connected = FALSE, !.suspended = TRUE]]
      BY <1>3, <2>2 DEF ConnectionLost, TypeOK
    <3> QED
      BY <2>2, <3>2, <3>3 DEF TypeOK
  <2>4. ints' \in [Ports -> SUBSET IntFlags]
    BY <1>3, <2>2 DEF TypeOK, ConnectionLost, IntFlags, EpFlags
  <2>5. ep_reg' \in [Ports -> [EpFlags -> SUBSET Slots]]
    <3>1. Retired(p) \subseteq Slots
      BY DEF Retired
    <3>2. [ep_reg[p] EXCEPT !["error"] = ep_reg[p]["error"] \cup Retired(p)]
            \in [EpFlags -> SUBSET Slots]
      BY <2>2, <3>1 DEF TypeOK, EpFlags
    <3>3. ep_reg' = [ep_reg EXCEPT ![p] = [ep_reg[p] EXCEPT !["error"] =
                                             ep_reg[p]["error"] \cup Retired(p)]]
      BY <1>3 DEF ConnectionLost
    <3> QED
      BY <2>2, <3>2, <3>3 DEF TypeOK
  <2>6. ep' \in [Slots -> Endpoints]
    BY <1>3, UpdateType DEF TypeOK, ConnectionLost
  <2> QED
    BY <1>3, <2>1, <2>3, <2>4, <2>5, <2>6 DEF TypeOK, ConnectionLost
<1>4. CASE EnterPort
  <2>1. frame' \in Frames
    <3>1. CASE Operating(frame.port)
      BY <1>4, <3>1, Zero DEF TypeOK, EnterPort, FramePcs
    <3>2. CASE ~Operating(frame.port)
      BY <1>4, <3>2, NextPortType DEF TypeOK, EnterPort, FramePcs
    <3> QED
      BY <3>1, <3>2
  <2> QED
    BY <1>4, <2>1 DEF TypeOK, EnterPort
<1>5. CASE SkipSlot
  <2> DEFINE s == frame.slot
  <2>1. frame' \in Frames
    BY <1>5, NextSlotType DEF TypeOK, SkipSlot
  <2>2. s \in Slots /\ ep[s] \in Endpoints
    BY DEF TypeOK
  <2>3. ~Due(s) => [ep[s] EXCEPT !.interval_counter = @ - 1] \in Endpoints
    <3>1. ~Due(s) => ep[s].interval_counter - 1 \in 0 .. U8 - 1
      <4>1. ep[s].interval_counter \in 0 .. U8 - 1
        BY <2>2 DEF Endpoints
      <4>2. ~Due(s) => ep[s].interval_counter # 0
        BY DEF Due
      <4> QED
        BY <4>1, <4>2 DEF U8
    <3>2. \A k \in 0 .. U8 - 1 : [ep[s] EXCEPT !.interval_counter = k] \in Endpoints
      <4> DEFINE e == ep[s]
      <4>1. e \in Endpoints
        BY <2>2
      <4> HIDE DEF e
      <4>2. \A k \in 0 .. U8 - 1 : [e EXCEPT !.interval_counter = k] \in Endpoints
        BY <4>1 DEF Endpoints
      <4> QED
        BY <4>2 DEF e
    <3> QED
      BY <3>1, <3>2
  <2>4. ep' \in [Slots -> Endpoints]
    BY <1>5, <2>2, <2>3 DEF TypeOK, SkipSlot
  <2> QED
    BY <1>5, <2>1, <2>4 DEF TypeOK, SkipSlot
<1>6. CASE VisitLive
  BY <1>6 DEF TypeOK, VisitLive, FramePcs
<1>7. CASE StartTransaction
  <2>1. ep[frame.slot] \in Endpoints
    BY DEF TypeOK
  <2>2. [ep[frame.slot] EXCEPT !.transfer_started = TRUE] \in Endpoints
    BY <2>1 DEF Endpoints
  <2> QED
    BY <1>7, <2>2 DEF TypeOK, StartTransaction, FramePcs
<1>8. ASSUME NEW reply \in Replies, SetupTransaction(reply) \/ OutTransaction(reply)
      PROVE  TypeOK'
  <2>1. 0 \in Nat
    OBVIOUS
  <2> QED
    BY <1>8, <2>1, TransactionType
<1>11. ASSUME NEW reply \in Replies, NEW n \in RxLens, InTransaction(reply, n)
       PROVE  TypeOK'
  <2>1. n \in Nat
    BY HostAssumption
  <2> QED
    BY <1>11, <2>1, TransactionType
<1>9. CASE CheckConnect
  <2> DEFINE p == frame.port
             l == get_line_state(p)
  <2>1. frame' \in Frames
    BY <1>9, NextPortType DEF TypeOK, CheckConnect, FramePcs
  <2>2. p \in Ports
    BY DEF TypeOK
  <2>3. /\ root' \in [Ports -> RootPorts]
        /\ ints' \in [Ports -> SUBSET IntFlags]
        /\ unreset' \in SUBSET Ports
    <3>1. CASE root[p].initialized /\ ~root[p].connected /\ l \in {"FS_IDLE", "LS_IDLE"}
      <4>1. [root[p] EXCEPT !.is_fullspeed = (l = "FS_IDLE"), !.connected = TRUE,
                            !.suspended = TRUE] \in RootPorts
        <5>1. root[p] \in RootPorts /\ (l = "FS_IDLE") \in BOOLEAN
          BY <2>2 DEF TypeOK
        <5> QED
          BY <5>1 DEF RootPorts
      <4>2. root' = [root EXCEPT ![p] = [root[p] EXCEPT !.is_fullspeed = (l = "FS_IDLE"),
                                           !.connected = TRUE, !.suspended = TRUE]]
        BY <1>9, <2>2, <3>1 DEF CheckConnect, TypeOK
      <4>3. /\ ints' = [ints EXCEPT ![p] = ints[p] \cup {"connect"}]
            /\ unreset' = unreset \cup {p}
        BY <1>9, <3>1 DEF CheckConnect
      <4> QED
        BY <2>2, <4>1, <4>2, <4>3 DEF TypeOK, IntFlags
    <3>2. CASE ~(root[p].initialized /\ ~root[p].connected /\ l \in {"FS_IDLE", "LS_IDLE"})
      BY <1>9, <3>2 DEF CheckConnect, TypeOK
    <3> QED
      BY <3>1, <3>2
  <2> QED
    BY <1>9, <2>1, <2>3 DEF TypeOK, CheckConnect
<1>10. CASE IrqHandler
  <2> DEFINE p == frame.port
  <2>1. frame' \in Frames
    BY <1>10, NextPortType DEF TypeOK, IrqHandler, FramePcs
  <2>2. p \in Ports
    BY DEF TypeOK
  <2>3. root' \in [Ports -> RootPorts]
    <3>1. root[p] \in RootPorts
      BY <2>2 DEF TypeOK
    <3>2. EventOf(p) \in {"none", "connect", "disconnect"}
      BY <3>1 DEF EventOf, RootPorts
    <3>3. [root[p] EXCEPT !.event = EventOf(p)] \in RootPorts
      BY <3>1, <3>2 DEF RootPorts
    <3> QED
      BY <1>10, <2>2, <3>3 DEF TypeOK, IrqHandler
  <2>4. ep_reg' \in [Ports -> [EpFlags -> SUBSET Slots]]
    <3>1. [f \in EpFlags |-> IF f \in ints[p] THEN {} ELSE ep_reg[p][f]]
            \in [EpFlags -> SUBSET Slots]
      BY <2>2 DEF TypeOK
    <3>2. ep_reg' = [ep_reg EXCEPT ![p] = [f \in EpFlags |-> IF f \in ints[p] THEN {}
                                                             ELSE ep_reg[p][f]]]
      BY <1>10 DEF IrqHandler
    <3> QED
      BY <2>2, <3>1, <3>2 DEF TypeOK
  <2>5. ints' \in [Ports -> SUBSET IntFlags]
    BY <1>10, <2>2 DEF TypeOK, IrqHandler
  <2> QED
    BY <1>10, <2>1, <2>3, <2>4, <2>5 DEF TypeOK, IrqHandler
<1> QED
  BY <1>1, <1>2, <1>3, <1>4, <1>5, <1>6, <1>7, <1>8, <1>9, <1>10, <1>11 DEF FrameStep

\* The host stack's calls keep every variable in its type.
LEMMA ApiType ==
  ASSUME TypeOK, ApiCall \/ ApiStep
  PROVE  TypeOK'
<1> USE DEF Apis
<1>0. api \in Apis /\ ApiIdle \in Apis /\ ep \in [Slots -> Endpoints]
  BY IdleTypes DEF TypeOK
<1>1. ASSUME NEW p \in Ports, NEW r \in RootPorts PROVE [root EXCEPT ![p] = r] \in [Ports -> RootPorts]
  BY DEF TypeOK
<1>2. ASSUME NEW s \in Slots, NEW e \in Endpoints PROVE [ep EXCEPT ![s] = e] \in [Slots -> Endpoints]
  BY <1>0
<1>3. DevAddrs \subseteq Nat /\ Descs \subseteq Descriptors /\ Lens \subseteq 0 .. U16 - 1
  BY HostAssumption
<1>4. CASE AddPort
  <2>1. PICK p \in Ports : root' = [root EXCEPT ![p].initialized = TRUE]
    BY <1>4 DEF AddPort
  <2>2. [root[p] EXCEPT !.initialized = TRUE] \in RootPorts
    <3>1. root[p] \in RootPorts
      BY DEF TypeOK
    <3> QED
      BY <3>1 DEF RootPorts
  <2> QED
    BY <1>1, <1>4, <2>1, <2>2 DEF TypeOK, AddPort
<1>5. ASSUME NEW p \in Ports, PortResetStart(p) \/ PortResetRelease(p)
      PROVE  TypeOK'
  <2>1. root[p] \in RootPorts
    BY DEF TypeOK
  <2>2. [root[p] EXCEPT !.suspended = TRUE] \in RootPorts
    BY <2>1 DEF RootPorts
  <2>3. CASE PortResetStart(p)
    BY <1>1, <2>2, <2>3 DEF TypeOK, PortResetStart
  <2>4. CASE PortResetRelease(p)
    BY <1>0, <2>4 DEF TypeOK, PortResetRelease, ApiPcs
  <2> QED
    BY <1>5, <2>3, <2>4
<1>6. ASSUME NEW p \in Ports, NEW addr \in DevAddrs, CloseDevice(p, addr)
      PROVE  TypeOK'
  BY <1>0, <1>3, <1>6 DEF TypeOK, CloseDevice, ApiPcs
<1>7. ASSUME NEW s \in Slots, NEW p \in Ports, NEW addr \in DevAddrs, SendSetup(s, p, addr)
      PROVE  TypeOK'
  <2>1. ep[s] \in Endpoints /\ EP0 \in EpAddrs
    BY <1>0 DEF EP0, EpAddrs
  <2>2. [ep[s] EXCEPT !.ep_num = EP0, !.data_id = USB_PID_SETUP, !.is_tx = TRUE] \in Endpoints
    BY <2>1 DEF Endpoints, USB_PID_SETUP
  <2>3. [ApiIdle EXCEPT !.pc = "submit", !.slot = s, !.len = SETUP_LEN] \in Apis
    <3>1. SETUP_LEN \in 0 .. U16 - 1
      BY DEF SETUP_LEN, U16
    <3> QED
      BY <1>0, <3>1 DEF ApiPcs
  <2> QED
    BY <1>2, <1>7, <2>2, <2>3 DEF TypeOK, SendSetup
<1>8. ASSUME NEW s \in Slots, NEW p \in Ports, NEW addr \in DevAddrs, NEW d \in Descs,
             EndpointOpen(s, p, addr, d)
      PROVE  TypeOK'
  <2>1. configure_endpoint(ep[s], d) \in Endpoints
    BY <1>0, <1>3, ConfigureType
  <2>2. [ApiIdle EXCEPT !.pc = "bind", !.slot = s, !.port = p, !.addr = addr] \in Apis
    BY <1>0, <1>3 DEF ApiPcs
  <2> QED
    BY <1>2, <1>8, <2>1, <2>2 DEF TypeOK, EndpointOpen
<1>9. ASSUME NEW s \in Slots, NEW p \in Ports, NEW addr \in DevAddrs, NEW a \in EpAddresses,
             EndpointClose(s, p, addr, a) \/ AbortTransfer(s, p, addr, a)
      PROVE  TypeOK'
  <2>1. ep[s] \in Endpoints
    BY <1>0
  <2>2. [ep[s] EXCEPT !.size = 0] \in Endpoints
    BY <2>1 DEF Endpoints
  <2>3. CASE EndpointClose(s, p, addr, a)
    BY <1>2, <2>2, <2>3 DEF TypeOK, EndpointClose
  <2>4. CASE AbortTransfer(s, p, addr, a)
    BY <1>0, <2>4 DEF TypeOK, AbortTransfer, ApiPcs
  <2> QED
    BY <1>9, <2>3, <2>4
<1>10. ASSUME NEW s \in Slots, NEW p \in Ports, NEW addr \in DevAddrs, NEW a \in EpAddresses,
              NEW len \in Lens, EndpointTransfer(s, p, addr, a, len)
       PROVE  TypeOK'
  <2>1. ep[s] \in Endpoints
    BY <1>0
  <2>2. a \in EpAddrs
    <3>1. \A d \in Descs : d.epaddr \in EpAddrs
      BY <1>3 DEF Descriptors
    <3>2. [num |-> 0, in |-> TRUE] \in EpAddrs
      BY DEF EpAddrs
    <3> QED
      BY <3>1, <3>2 DEF EpAddresses
  <2>3. [ep[s] EXCEPT !.ep_num = a, !.is_tx = ~a.in, !.data_id = 1] \in Endpoints
    BY <2>1, <2>2 DEF Endpoints, EpAddrs
  <2>4. ep' \in [Slots -> Endpoints]
    BY <1>0, <1>2, <1>10, <2>3 DEF EndpointTransfer
  <2>5. [ApiIdle EXCEPT !.pc = "submit", !.slot = s, !.len = len] \in Apis
    BY <1>0, <1>3 DEF ApiPcs
  <2> QED
    BY <1>10, <2>4, <2>5 DEF TypeOK, EndpointTransfer
<1>11. CASE EndpointBind
  <2> DEFINE s == api.slot
             e == [ep[s] EXCEPT !.root_idx = api.port, !.dev_addr = api.addr,
                                !.is_tx = ~ep[s].ep_num.in]
  <2>1. s \in Slots /\ ep[s] \in Endpoints
    BY <1>0
  <2>2. api.port \in Nat /\ api.addr \in Nat
    BY <1>0 DEF Ports
  <2>3. (~ep[s].ep_num.in) \in BOOLEAN
    OBVIOUS
  <2>4. e \in Endpoints
    BY <2>1, <2>2, <2>3 DEF Endpoints
  <2>5. ep' = [ep EXCEPT ![s] = e]
    BY <1>0, <1>11, <2>1 DEF EndpointBind
  <2> QED
    BY <1>0, <1>2, <1>11, <2>1, <2>4, <2>5 DEF TypeOK, EndpointBind
<1>12. CASE CloseDeviceSlot
  <2> DEFINE s == api.slot
  <2>1. s \in Slots /\ ep[s] \in Endpoints
    BY <1>0
  <2>2. [ep[s] EXCEPT !.size = 0, !.has_transfer = FALSE] \in Endpoints
    BY <2>1 DEF Endpoints
  <2>3. ep' \in [Slots -> Endpoints] /\ owed' \in SUBSET Slots
    <3>1. CASE ep[s].root_idx = api.port /\ ep[s].dev_addr = api.addr /\ ep[s].size # 0
      <4>1. ep' = [ep EXCEPT ![s] = [ep[s] EXCEPT !.size = 0, !.has_transfer = FALSE]]
        BY <1>12, <2>1, <3>1 DEF CloseDeviceSlot, TypeOK
      <4> QED
        BY <1>2, <1>12, <2>1, <2>2, <3>1, <4>1 DEF CloseDeviceSlot, TypeOK
    <3>2. CASE ~(ep[s].root_idx = api.port /\ ep[s].dev_addr = api.addr /\ ep[s].size # 0)
      BY <1>12, <3>2 DEF CloseDeviceSlot, TypeOK
    <3> QED
      BY <3>1, <3>2
  <2>4. api' \in Apis
    <3>1. CASE s + 1 < PoolCnt
      <4>1. s + 1 \in Slots
        BY <2>1, <3>1, HostAssumption DEF Slots
      <4> QED
        BY <1>0, <1>12, <3>1, <4>1 DEF CloseDeviceSlot
    <3>2. CASE ~(s + 1 < PoolCnt)
      BY <1>0, <1>12, <3>2 DEF CloseDeviceSlot
    <3> QED
      BY <3>1, <3>2
  <2> QED
    BY <1>12, <2>3, <2>4 DEF TypeOK, CloseDeviceSlot
<1>13. CASE TransferFill
  <2> DEFINE s == api.slot
  <2>1. s \in Slots /\ ep[s] \in Endpoints /\ api.len \in Nat
    BY <1>0
  <2>2. transfer_fill(ep[s], api.len) \in Endpoints
    BY <2>1, FillType
  <2>3. [ApiIdle EXCEPT !.pc = "publish", !.slot = s] \in Apis
    BY <1>0, <2>1 DEF ApiPcs
  <2>4. ep' \in [Slots -> Endpoints] /\ api' \in Apis
    <3>1. CASE ep[s].has_transfer
      BY <1>0, <1>13, <3>1 DEF TransferFill
    <3>2. CASE ~ep[s].has_transfer
      BY <1>2, <1>13, <2>1, <2>2, <2>3, <3>2 DEF TransferFill
    <3> QED
      BY <3>1, <3>2
  <2> QED
    BY <1>13, <2>4 DEF TypeOK, TransferFill
<1>14. CASE TransferPublish
  <2>1. transfer_publish(ep[api.slot]) \in Endpoints
    BY <1>0, PublishType
  <2> QED
    BY <1>0, <1>2, <1>14, <2>1 DEF TypeOK, TransferPublish
<1>15. CASE AbortMark
  <2>1. ep[api.slot] \in Endpoints
    BY <1>0
  <2>2. [ep[api.slot] EXCEPT !.transfer_aborted = TRUE] \in Endpoints
    BY <2>1 DEF Endpoints
  <2> QED
    BY <1>0, <1>2, <1>15, <2>2 DEF TypeOK, AbortMark, ApiPcs
<1>16. CASE AbortWait
  BY <1>0, <1>16 DEF TypeOK, AbortWait, ApiPcs
<1>17. CASE AbortRead
  <2>1. ep[api.slot].has_transfer \in BOOLEAN
    BY <1>0 DEF Endpoints
  <2> QED
    BY <1>0, <1>17, <2>1 DEF TypeOK, AbortRead, ApiPcs
<1>18. CASE AbortClear
  <2>1. ep[api.slot] \in Endpoints
    BY <1>0
  <2>2. [ep[api.slot] EXCEPT !.has_transfer = FALSE] \in Endpoints
    BY <2>1 DEF Endpoints
  <2>3. ep' \in [Slots -> Endpoints] /\ owed' \in SUBSET Slots
    <3>1. CASE api.still
      <4>1. ep' = [ep EXCEPT ![api.slot] = [ep[api.slot] EXCEPT !.has_transfer = FALSE]]
        BY <1>18, <3>1 DEF AbortClear
      <4>2. owed' = owed \ {api.slot}
        BY <1>18, <3>1 DEF AbortClear
      <4>3. api.slot \in Slots
        BY <1>0
      <4> QED
        BY <1>2, <2>2, <4>1, <4>2, <4>3 DEF TypeOK
    <3>2. CASE ~api.still
      BY <1>18, <3>2 DEF TypeOK, AbortClear
    <3> QED
      BY <3>1, <3>2
  <2>4. api' \in Apis
    BY <1>0, <1>18 DEF AbortClear, ApiPcs
  <2> QED
    BY <1>18, <2>3, <2>4 DEF TypeOK, AbortClear
<1>19. CASE AbortDone
  <2>1. ep[api.slot] \in Endpoints
    BY <1>0
  <2>2. [ep[api.slot] EXCEPT !.transfer_aborted = FALSE] \in Endpoints
    BY <2>1 DEF Endpoints
  <2> QED
    BY <1>0, <1>2, <1>19, <2>2 DEF TypeOK, AbortDone
<1>20. CASE PortResetResume
  <2>1. root[api.port] \in RootPorts /\ api.port \in Ports
    BY <1>0 DEF TypeOK
  <2>2. [root[api.port] EXCEPT !.suspended = FALSE] \in RootPorts
    BY <2>1 DEF RootPorts
  <2> QED
    BY <1>0, <1>1, <1>20, <2>1, <2>2 DEF TypeOK, PortResetResume
<1>21. CASE ApiCall
  BY <1>4, <1>5, <1>6, <1>7, <1>8, <1>9, <1>10, <1>21 DEF ApiCall
<1>22. CASE ApiStep
  BY <1>11, <1>12, <1>13, <1>14, <1>15, <1>16, <1>17, <1>18, <1>19, <1>20, <1>22 DEF ApiStep
<1> QED
  BY <1>21, <1>22

\* The initial state is typed.
LEMMA InitType == Init => TypeOK
<1> SUFFICES ASSUME Init PROVE TypeOK
  OBVIOUS
<1>1. UnusedEndpoint \in Endpoints
  BY DEF UnusedEndpoint, Endpoints, EpAddrs, Attrs, DataPids, U8
<1>2. \A p \in Ports : [initialized |-> p = 0, connected |-> FALSE, suspended |-> FALSE,
                        is_fullspeed |-> FALSE, event |-> "none"] \in RootPorts
  BY DEF RootPorts
<1>3. frame \in Frames /\ api \in Apis
  BY IdleTypes DEF Init
<1>4. "SE0" \in LineStates
  BY DEF LineStates
<1> QED
  BY <1>1, <1>2, <1>3, <1>4 DEF Init, TypeOK, Frames, Apis

\* Every variable keeps its type in every step.
LEMMA NextType == TypeOK /\ [Next]_vars => TypeOK'
<1> SUFFICES ASSUME TypeOK, [Next]_vars PROVE TypeOK'
  OBVIOUS
<1>1. CASE FrameStep
  BY <1>1, FrameStepType
<1>2. CASE ApiCall \/ ApiStep
  BY <1>2, ApiType
<1>3. CASE LineChange
  <2>1. PICK p \in Ports : \E l \in Lines[p] : line' = [line EXCEPT ![p] = l]
    BY <1>3 DEF LineChange
  <2>2. Lines[p] \subseteq LineStates
    BY <2>1, HostAssumption DEF LineStates, Ports
  <2> QED
    BY <1>3, <2>1, <2>2 DEF TypeOK, LineChange
<1>4. CASE UNCHANGED vars
  BY <1>4 DEF TypeOK, vars
<1> QED
  BY <1>1, <1>2, <1>3, <1>4 DEF Next

\* The frame handler's loop counters stay inside the port array and the
\* endpoint pool, every counter inside its width, and every register bit
\* belongs to an entry of the pool, on one core or two.
THEOREM TypeCorrect == Spec => []TypeOK
<1>1. Init => TypeOK
  BY InitType
<1>2. TypeOK /\ [Next]_vars => TypeOK'
  BY NextType
<1> QED
  BY <1>1, <1>2, PTL DEF Spec

-----------------------------------------------------------------------------
(* Every outcome is accounted for: one core, disciplined stack.               *)

\* The account of a slot only looks at three fields of its endpoint.
LEMMA AccountKept ==
  ASSUME Accounted, NEW s \in Slots, ep_reg' = ep_reg, s \in owed' <=> s \in owed,
         \A p \in Ports : ints[p] \subseteq ints'[p],
         ep'[s].has_transfer = ep[s].has_transfer, ep'[s].root_idx = ep[s].root_idx
  PROVE  Account(s)'
<1>1. Account(s)
  BY DEF Accounted
<1> QED
  BY <1>1 DEF Account, Pending

\* Raising one flag for a slot settles its transfer and nobody else's.
LEMMA AccountRaised ==
  ASSUME TypeOK, Accounted, NEW s \in Slots, NEW flag \in EpFlags,
         ep[s].root_idx \in Ports, ep[s].has_transfer, RaiseFlag(s, flag), owed' = owed,
         ~ep'[s].has_transfer, ep'[s].root_idx = ep[s].root_idx,
         \A t \in Slots \ {s} : ep'[t] = ep[t]
  PROVE  Accounted'
<1> DEFINE p == ep[s].root_idx
<1>1. ints' = [ints EXCEPT ![p] = ints[p] \cup {flag}]
  BY DEF RaiseFlag
<1>2. ep_reg' = [ep_reg EXCEPT ![p] = [ep_reg[p] EXCEPT ![flag] = ep_reg[p][flag] \cup {s}]]
  BY DEF RaiseFlag
<1>3. \A q \in Ports : ints[q] \subseteq ints'[q]
  BY <1>1 DEF TypeOK
<1>4. \A q \in Ports, f \in EpFlags :
        ep_reg'[q][f] = IF q = p /\ f = flag THEN ep_reg[q][f] \cup {s} ELSE ep_reg[q][f]
  BY <1>2 DEF TypeOK
<1>5. ASSUME NEW t \in Slots \ {s} PROVE Account(t)'
  <2>1. Account(t)
    BY DEF Accounted
  <2>2. \A q \in Ports, f \in EpFlags : t \in ep_reg'[q][f] <=> t \in ep_reg[q][f]
    BY <1>4
  <2> QED
    BY <1>3, <2>1, <2>2 DEF Account, Pending
<1>6. Account(s)'
  <2>1. Account(s)
    BY DEF Accounted
  <2>2. \A q \in Ports, f \in EpFlags : s \in ep_reg'[q][f] <=> q = p /\ f = flag
    <3>1. \A q \in Ports, f \in EpFlags : s \notin ep_reg[q][f]
      BY <2>1 DEF Account, Pending
    <3> QED
      BY <1>4, <3>1
  <2>3. flag \in ints'[p]
    BY <1>1 DEF TypeOK
  <2> QED
    BY <2>1, <2>2, <2>3 DEF Account, Pending
<1> QED
  BY <1>5, <1>6 DEF Accounted

\* A frame step neither moves nor resizes an endpoint, nor starts a transfer.
LEMMA CallKept ==
  ASSUME TypeOK, CallInv, api' = api,
         \A t \in Slots : /\ ep'[t].size = ep[t].size
                          /\ ep'[t].root_idx = ep[t].root_idx
                          /\ ep'[t].has_transfer => ep[t].has_transfer
  PROVE  CallInv'
<1>1. api.slot \in Slots
  BY DEF TypeOK
<1> QED
  BY <1>1 DEF CallInv

\* Where the frame handler goes from the last slot or port of a loop.
LEMMA NextPortGoes ==
  ASSUME TypeOK, NEW after, NextPort(after)
  PROVE  /\ frame'.pc \in {frame.pc, after}
         /\ frame'.pc # after => frame'.port = frame.port + 1
         /\ after # frame.pc /\ frame'.pc = after => frame.port + 1 >= PortCnt /\ frame'.port = 0
<1>1. frame \in Frames
  BY DEF TypeOK, Frames
<1>2. CASE frame.port + 1 < PortCnt
  <2>1. frame' = [frame EXCEPT !.port = frame.port + 1, !.slot = 0]
    BY <1>2 DEF NextPort
  <2>2. frame'.pc = frame.pc /\ frame'.port = frame.port + 1
    BY <1>1, <2>1 DEF Frames
  <2> QED
    BY <1>2, <2>2
<1>3. CASE ~(frame.port + 1 < PortCnt)
  <2>1. frame' = [pc |-> after, port |-> 0, slot |-> 0]
    BY <1>3 DEF NextPort
  <2>2. frame.port + 1 \in Nat /\ PortCnt \in Nat
    BY <1>1, HostAssumption DEF Frames, Ports
  <2> QED
    BY <1>3, <2>1, <2>2
<1> QED
  BY <1>2, <1>3

\* A visit of the pool stays on the port it has tested.
LEMMA NextSlotGoes ==
  ASSUME TypeOK, NextSlot
  PROVE  /\ frame'.pc \in {"visit", "pass", "connect"}
         /\ frame'.pc = "visit" => frame'.port = frame.port
<1>1. frame \in Frames
  BY DEF TypeOK, Frames
<1>2. CASE frame' = [frame EXCEPT !.pc = "visit", !.slot = @ + 1]
  BY <1>1, <1>2 DEF Frames
<1>3. CASE \/ frame' = [pc |-> "pass", port |-> frame.port + 1, slot |-> 0]
           \/ frame' = [pc |-> "connect", port |-> 0, slot |-> 0]
  BY <1>3
<1> QED
  BY <1>2, <1>3 DEF NextSlot

\* What a transaction may leave in an endpoint that had a transfer.
Leaves(e, f, flag) ==
  /\ f \in Endpoints /\ f.root_idx = e.root_idx /\ f.size = e.size
  /\ f.has_transfer <=> flag = "none"
  /\ flag \in EpFlags \cup {"none"}

\* The end of a transaction reports exactly the outcome it leaves in the slot.
LEMMA EndTransactionInv ==
  ASSUME TypeOK, HostInv, frame.pc = "txn", NEW e, NEW flag, Leaves(ep[frame.slot], e, flag),
         EndTransaction(frame.slot, e, flag)
  PROVE  HostInv'
<1> DEFINE s == frame.slot
           g == [e EXCEPT !.transfer_started = FALSE]
<1>1. /\ s \in Slots /\ frame.port \in Ports /\ ep[s].root_idx \in Ports
      /\ ep[s].has_transfer
  BY DEF TypeOK, HostInv, HandlerInv, CallInv
<1>2. /\ g.root_idx = ep[s].root_idx /\ g.size = ep[s].size
      /\ g.has_transfer <=> flag = "none"
  BY DEF Leaves, Endpoints
<1>3. ep' = [ep EXCEPT ![s] = g] /\ root' = root /\ api' = api /\ owed' = owed
  BY DEF EndTransaction
<1>4. ep'[s] = g /\ \A t \in Slots \ {s} : ep'[t] = ep[t]
  <2> HIDE DEF g
  <2>1. ep \in [Slots -> Endpoints]
    BY DEF TypeOK
  <2> QED
    BY <1>1, <1>3, <2>1
<1>5. Accounted'
  <2>1. CASE flag = "none"
    <3>1. ints' = ints /\ ep_reg' = ep_reg
      BY <2>1 DEF EndTransaction
    <3>2. ep'[s].root_idx = ep[s].root_idx /\ ep'[s].has_transfer = ep[s].has_transfer
      BY <1>1, <1>2, <1>4, <2>1
    <3> HIDE DEF s, g
    <3>3. \A t \in Slots : Account(t)'
      BY <1>3, <1>4, <3>1, <3>2, AccountKept DEF HostInv
    <3> QED
      BY <3>3 DEF Accounted
  <2>2. CASE flag # "none"
    <3>1. RaiseFlag(s, flag) /\ flag \in EpFlags
      BY <2>2 DEF EndTransaction, Leaves
    <3> QED
      BY <1>1, <1>2, <1>3, <1>4, <2>2, <3>1, AccountRaised DEF HostInv
  <2> QED
    BY <2>1, <2>2
<1>6. /\ frame'.pc \in {"visit", "pass", "connect"}
      /\ frame'.pc = "visit" => frame'.port = frame.port
  BY NextSlotGoes DEF EndTransaction
<1>7. NothingLeftOver'
  BY <1>6 DEF NothingLeftOver
<1>8. HandlerInv'
  <2>1. Operating(frame.port)
    BY DEF HostInv, HandlerInv
  <2> QED
    BY <1>3, <1>6, <2>1 DEF HandlerInv, Operating
<1>9. CallInv'
  BY <1>1, <1>2, <1>3, <1>4, CallKept DEF HostInv
<1> QED
  BY <1>5, <1>7, <1>8, <1>9 DEF HostInv

\* The outcome a transaction reports is the one it leaves in the endpoint.
LEMMA OutcomeLeaves ==
  ASSUME NEW e \in Endpoints, e.has_transfer
  PROVE  /\ Leaves(e, Failed(e), FailedFlag(e))
         /\ Leaves(e, Rearmed(Failed(e)), FailedFlag(e))
         /\ Leaves(e, Rearmed(Sound(e)), "none")
         /\ Leaves(e, Rearmed(Sound(transfer_complete(e))), "stalled")
         /\ \A n \in Nat : Leaves(e, Rearmed(Sound(transfer_continue(e, n))), ContinueFlag(e, n))
<1>1. ASSUME NEW f \in Endpoints, NEW flag, Leaves(e, f, flag)
      PROVE  Leaves(e, Rearmed(f), flag) /\ Leaves(e, Sound(f), flag)
  <2>1. Rearmed(f) \in Endpoints /\ Sound(f) \in Endpoints
    BY UpdateType
  <2>2. /\ Rearmed(f).root_idx = f.root_idx /\ Rearmed(f).size = f.size
        /\ Rearmed(f).has_transfer = f.has_transfer
    BY DEF Rearmed, Endpoints
  <2>3. /\ Sound(f).root_idx = f.root_idx /\ Sound(f).size = f.size
        /\ Sound(f).has_transfer = f.has_transfer
    BY DEF Sound, Endpoints
  <2> QED
    BY <1>1, <2>1, <2>2, <2>3 DEF Leaves
<1>2. Failed(e) \in Endpoints /\ Sound(e) \in Endpoints /\ transfer_complete(e) \in Endpoints
  BY UpdateType
<1>3. Leaves(e, Failed(e), FailedFlag(e))
  <2> DEFINE f == [e EXCEPT !.failed_count = @ + 1]
  <2>1. /\ f.failed_count = e.failed_count + 1 /\ f.root_idx = e.root_idx
        /\ f.size = e.size /\ f.has_transfer = e.has_transfer
    BY DEF Endpoints
  <2>6. f \in Endpoints
    BY DEF Endpoints
  <2>2. /\ transfer_complete(f).root_idx = e.root_idx /\ transfer_complete(f).size = e.size
        /\ ~transfer_complete(f).has_transfer
    BY <2>1 DEF transfer_complete, Endpoints
  <2>3. Failed(e) = IF f.failed_count >= MaxRetry THEN transfer_complete(f) ELSE f
    BY DEF Failed
  <2> HIDE DEF f
  <2>4. CASE f.failed_count >= MaxRetry
    <3>1. FailedFlag(e) = "error" /\ Failed(e) = transfer_complete(f)
      BY <2>1, <2>3, <2>4 DEF FailedFlag
    <3> QED
      BY <1>2, <2>2, <3>1 DEF Leaves, EpFlags
  <2>5. CASE ~(f.failed_count >= MaxRetry)
    <3>1. FailedFlag(e) = "none" /\ Failed(e) = f
      BY <2>1, <2>3, <2>5 DEF FailedFlag
    <3> QED
      BY <2>1, <2>6, <3>1 DEF Leaves
  <2> QED
    BY <2>4, <2>5
<1>4. Leaves(e, e, "none")
  BY DEF Leaves
<1>5. Leaves(e, transfer_complete(e), "stalled")
  <2>1. /\ transfer_complete(e).root_idx = e.root_idx /\ transfer_complete(e).size = e.size
        /\ ~transfer_complete(e).has_transfer
    BY DEF transfer_complete, Endpoints
  <2> QED
    BY <1>2, <2>1 DEF Leaves, EpFlags
<1>6. ASSUME NEW n \in Nat
      PROVE  /\ transfer_continue(e, n) \in Endpoints
             /\ Leaves(e, transfer_continue(e, n), ContinueFlag(e, n))
  <2> DEFINE f == transfer_progress(e, n)
  <2>1. /\ f.root_idx = e.root_idx /\ f.size = e.size /\ f.has_transfer
    BY DEF transfer_progress, Endpoints
  <2>2. /\ [f EXCEPT !.has_transfer = FALSE].root_idx = e.root_idx
        /\ [f EXCEPT !.has_transfer = FALSE].size = e.size
        /\ ~[f EXCEPT !.has_transfer = FALSE].has_transfer
    BY DEF transfer_progress, Endpoints
  <2>3. /\ prepare_tx_data(f).root_idx = e.root_idx /\ prepare_tx_data(f).size = e.size
        /\ prepare_tx_data(f).has_transfer
    BY <2>1 DEF prepare_tx_data, transfer_progress, Endpoints
  <2>4. transfer_continue(e, n) \in Endpoints
    BY ContinueType
  <2>5. transfer_continue(e, n) = IF transfer_finished(e, n) THEN [f EXCEPT !.has_transfer = FALSE]
                                  ELSE IF f.is_tx THEN prepare_tx_data(f) ELSE f
    BY DEF transfer_continue
  <2> HIDE DEF f
  <2>6. CASE transfer_finished(e, n)
    BY <2>2, <2>4, <2>5, <2>6 DEF Leaves, ContinueFlag, EpFlags
  <2>7. CASE ~transfer_finished(e, n)
    BY <2>1, <2>3, <2>4, <2>5, <2>7 DEF Leaves, ContinueFlag
  <2> QED
    BY <2>4, <2>6, <2>7
<1>7. Leaves(e, Sound(e), "none") /\ Leaves(e, Sound(transfer_complete(e)), "stalled")
  BY <1>1, <1>2, <1>4, <1>5
<1>8. Sound(e) \in Endpoints /\ Sound(transfer_complete(e)) \in Endpoints
  BY <1>2, UpdateType
<1>9. ASSUME NEW n \in Nat
      PROVE  Leaves(e, Rearmed(Sound(transfer_continue(e, n))), ContinueFlag(e, n))
  <2>1. Leaves(e, Sound(transfer_continue(e, n)), ContinueFlag(e, n))
    BY <1>1, <1>6
  <2>2. Sound(transfer_continue(e, n)) \in Endpoints
    BY <1>6, UpdateType
  <2> QED
    BY <1>1, <2>1, <2>2
<1> QED
  BY <1>1, <1>2, <1>3, <1>7, <1>8, <1>9

\* SETUP, IN and OUT transactions keep the accounts, whatever the device replies.
LEMMA TransactionInv ==
  ASSUME TypeOK, HostInv, NEW reply \in Replies, NEW n \in Nat,
         SetupTransaction(reply) \/ InTransaction(reply, n) \/ OutTransaction(reply)
  PROVE  HostInv'
<1> DEFINE e == ep[frame.slot]
<1>1. frame.pc = "txn"
  BY DEF SetupTransaction, InTransaction, OutTransaction
<1>2. e \in Endpoints /\ e.has_transfer
  BY <1>1 DEF TypeOK, HostInv, HandlerInv
<1>3. /\ Leaves(e, Failed(e), FailedFlag(e))
      /\ Leaves(e, Rearmed(Failed(e)), FailedFlag(e))
      /\ Leaves(e, Rearmed(Sound(e)), "none")
      /\ Leaves(e, Rearmed(Sound(transfer_complete(e))), "stalled")
      /\ \A k \in Nat : Leaves(e, Rearmed(Sound(transfer_continue(e, k))), ContinueFlag(e, k))
  BY <1>2, OutcomeLeaves
<1>4. transaction_len(e) \in Nat
  BY <1>2, LenType
<1>5. CASE SetupTransaction(reply)
  <2> DEFINE f == [e EXCEPT !.data_id = 0, !.actual_len = SETUP_LEN]
  <2>1. f \in Endpoints /\ f.root_idx = e.root_idx /\ f.size = e.size
    BY <1>2 DEF Endpoints, SETUP_LEN
  <2> HIDE DEF f
  <2>2. /\ transfer_complete(f) \in Endpoints /\ ~transfer_complete(f).has_transfer
        /\ transfer_complete(f).root_idx = e.root_idx /\ transfer_complete(f).size = e.size
    <3>1. transfer_complete(f) \in Endpoints
      BY <2>1, UpdateType
    <3>2. /\ ~transfer_complete(f).has_transfer
          /\ transfer_complete(f).root_idx = f.root_idx /\ transfer_complete(f).size = f.size
      BY <2>1 DEF transfer_complete, Endpoints
    <3> QED
      BY <2>1, <3>1, <3>2
  <2> DEFINE g == transfer_complete(f)
  <2> HIDE DEF g
  <2>3. Leaves(e, Sound(g), "complete")
    <3>1. /\ g \in Endpoints /\ ~g.has_transfer /\ g.root_idx = e.root_idx /\ g.size = e.size
      BY <2>2 DEF g
    <3>2. Sound(g) \in Endpoints
      BY <3>1, UpdateType
    <3>3. ~Sound(g).has_transfer /\ Sound(g).root_idx = e.root_idx /\ Sound(g).size = e.size
      BY <3>1 DEF Sound, Endpoints
    <3> QED
      BY <3>2, <3>3 DEF Leaves, EpFlags
  <2>4. \/ EndTransaction(frame.slot, Sound(g), "complete")
        \/ EndTransaction(frame.slot, Failed(e), FailedFlag(e))
    BY <1>5 DEF SetupTransaction, f, g
  <2> QED
    BY <1>1, <1>3, <2>3, <2>4, EndTransactionInv
<1>6. CASE InTransaction(reply, n)
  <2> DEFINE len == IF n > transaction_len(e) THEN transaction_len(e) ELSE n
  <2>1. len \in Nat
    BY <1>4
  <2>2. \/ EndTransaction(frame.slot, Rearmed(Sound(transfer_continue(e, len))),
                          ContinueFlag(e, len))
        \/ EndTransaction(frame.slot, Rearmed(Sound(e)), "none")
        \/ EndTransaction(frame.slot, Rearmed(Sound(transfer_complete(e))), "stalled")
        \/ EndTransaction(frame.slot, Rearmed(Failed(e)), FailedFlag(e))
    BY <1>6 DEF InTransaction, DataPids
  <2> HIDE DEF len
  <2> QED
    BY <1>1, <1>3, <2>1, <2>2, EndTransactionInv
<1>7. CASE OutTransaction(reply)
  <2> DEFINE len == transaction_len(e)
  <2>1. len \in Nat
    BY <1>4
  <2>2. \/ EndTransaction(frame.slot, Rearmed(Sound(transfer_continue(e, len))),
                          ContinueFlag(e, len))
        \/ EndTransaction(frame.slot, Rearmed(Sound(e)), "none")
        \/ EndTransaction(frame.slot, Rearmed(Sound(transfer_complete(e))), "stalled")
        \/ EndTransaction(frame.slot, Rearmed(Failed(e)), FailedFlag(e))
    BY <1>7 DEF OutTransaction
  <2> HIDE DEF len
  <2> QED
    BY <1>1, <1>3, <2>1, <2>2, EndTransactionInv
<1> QED
  BY <1>5, <1>6, <1>7

\* A disconnect settles every transfer queued on the port, and no other.
LEMMA ConnectionLostInv ==
  ASSUME TypeOK, HostInv, ConnectionLost
  PROVE  HostInv'
<1> DEFINE p == frame.port
           R == Retired(p)
<1>1. /\ p \in Ports /\ frame.pc = "sof" /\ owed' = owed /\ api' = api /\ NextPort("pass")
  BY DEF TypeOK, ConnectionLost
<1>2. R \subseteq Slots /\ \A s \in R : ep[s].root_idx = p /\ ep[s].has_transfer
  BY DEF Retired
<1>3. \A s \in Slots : /\ ep'[s].root_idx = ep[s].root_idx
                       /\ ep'[s].size = ep[s].size
                       /\ ep'[s].has_transfer <=> ep[s].has_transfer /\ s \notin R
  <2> SUFFICES ASSUME NEW s \in Slots
               PROVE  /\ ep'[s].root_idx = ep[s].root_idx
                      /\ ep'[s].size = ep[s].size
                      /\ ep'[s].has_transfer <=> ep[s].has_transfer /\ s \notin R
    OBVIOUS
  <2>1. ep[s] \in Endpoints
    BY DEF TypeOK
  <2>2. ep'[s] = IF s \in R THEN transfer_complete(ep[s]) ELSE ep[s]
    BY DEF ConnectionLost
  <2>3. /\ transfer_complete(ep[s]).root_idx = ep[s].root_idx
        /\ transfer_complete(ep[s]).size = ep[s].size
        /\ ~transfer_complete(ep[s]).has_transfer
    BY <2>1 DEF transfer_complete, Endpoints
  <2> QED
    BY <2>1, <2>2, <2>3 DEF Endpoints
<1>4. /\ \A q \in Ports : ints[q] \subseteq ints'[q]
      /\ R # {} => "error" \in ints'[p]
  BY <1>1 DEF TypeOK, ConnectionLost
<1>5. \A q \in Ports, f \in EpFlags :
        ep_reg'[q][f] = IF q = p /\ f = "error" THEN ep_reg[q][f] \cup R ELSE ep_reg[q][f]
  <2>1. ep_reg' = [ep_reg EXCEPT ![p] = [ep_reg[p] EXCEPT !["error"] = ep_reg[p]["error"] \cup R]]
    BY DEF ConnectionLost
  <2> QED
    BY <2>1 DEF TypeOK
<1> HIDE DEF R
<1>6. ASSUME NEW s \in Slots PROVE Account(s)'
  <2>1. Account(s)
    BY DEF HostInv, Accounted
  <2>2. CASE s \notin R
    <3>1. \A q \in Ports, f \in EpFlags : s \in ep_reg'[q][f] <=> s \in ep_reg[q][f]
      BY <1>5, <2>2
    <3> QED
      BY <1>1, <1>3, <1>4, <2>1, <2>2, <3>1 DEF Account, Pending
  <2>3. CASE s \in R
    <3>1. ~Pending(s) /\ s \in owed
      BY <1>2, <2>1, <2>3 DEF Account
    <3>2. \A q \in Ports, f \in EpFlags : s \in ep_reg'[q][f] <=> q = p /\ f = "error"
      BY <1>5, <2>3, <3>1 DEF Pending
    <3>3. "error" \in EpFlags /\ "error" \in ints'[p] /\ ep'[s].root_idx = p
      BY <1>2, <1>3, <1>4, <2>3 DEF EpFlags
    <3>4. ~ep'[s].has_transfer
      BY <1>3, <2>3
    <3>5. Pending(s)' /\ s \in owed'
      BY <1>1, <3>1, <3>2, <3>3 DEF Pending
    <3> QED
      BY <3>2, <3>3, <3>4, <3>5 DEF Account
  <2> QED
    BY <2>2, <2>3
<1>7. frame'.pc \in {"sof", "pass"}
  BY <1>1, NextPortGoes
<1>8. CallInv'
  BY <1>1, <1>3, CallKept DEF HostInv
<1> QED
  BY <1>6, <1>7, <1>8 DEF HostInv, Accounted, NothingLeftOver, HandlerInv

\* The steps that only move the frame handler, tick a counter or find a device.
LEMMA QuietFrame ==
  ASSUME TypeOK, HostInv, api' = api, owed' = owed, ep_reg' = ep_reg,
         \A p \in Ports : ints[p] \subseteq ints'[p],
         \A t \in Slots : /\ ep'[t].size = ep[t].size
                          /\ ep'[t].root_idx = ep[t].root_idx
                          /\ ep'[t].has_transfer = ep[t].has_transfer
  PROVE  Accounted' /\ CallInv'
<1>1. \A t \in Slots : Account(t)'
  BY AccountKept DEF HostInv
<1>2. CallInv'
  BY CallKept DEF HostInv
<1> QED
  BY <1>1, <1>2 DEF Accounted

\* These steps keep the whole invariant.
LEMMA QuietFrameInv ==
  ASSUME TypeOK, HostInv,
         FrameStart \/ SendSof \/ EnterPort \/ SkipSlot \/ VisitLive \/ StartTransaction \/ CheckConnect
  PROVE  HostInv'
<1>1. CASE FrameStart \/ SendSof \/ EnterPort \/ VisitLive
  <2>1. /\ ep' = ep /\ root' = root /\ ints' = ints /\ ep_reg' = ep_reg
        /\ api' = api /\ owed' = owed
    BY <1>1 DEF FrameStart, SendSof, EnterPort, VisitLive
  <2>2. Accounted' /\ CallInv'
    BY <2>1, QuietFrame
  <2>3. NothingLeftOver' /\ HandlerInv'
    <3>1. CASE FrameStart
      <4>1. frame'.pc = "sof"
        BY <3>1 DEF FrameStart, TypeOK
      <4> QED
        BY <4>1 DEF NothingLeftOver, HandlerInv
    <3>2. CASE SendSof
      <4>1. frame'.pc \in {"sof", "pass"}
        BY <3>2, NextPortGoes DEF SendSof
      <4> QED
        BY <4>1 DEF NothingLeftOver, HandlerInv
    <3>3. CASE EnterPort
      <4>1. CASE Operating(frame.port)
        <5>1. frame'.pc = "visit" /\ frame'.port = frame.port
          BY <3>3, <4>1 DEF EnterPort, TypeOK
        <5> QED
          BY <2>1, <4>1, <5>1 DEF NothingLeftOver, HandlerInv, Operating
      <4>2. CASE ~Operating(frame.port)
        <5>1. frame'.pc \in {"pass", "connect"}
          BY <3>3, <4>2, NextPortGoes DEF EnterPort
        <5> QED
          BY <5>1 DEF NothingLeftOver, HandlerInv
      <4> QED
        BY <4>1, <4>2
    <3>4. CASE VisitLive
      <4>1. frame'.pc = "start" /\ frame'.port = frame.port /\ frame'.slot = frame.slot
        BY <3>4 DEF VisitLive, TypeOK
      <4>2. /\ Operating(frame.port) /\ ep[frame.slot].has_transfer
            /\ ep[frame.slot].size # 0 /\ ep[frame.slot].root_idx = frame.port
        BY <3>4 DEF VisitLive, HostInv, HandlerInv
      <4> QED
        BY <2>1, <4>1, <4>2 DEF NothingLeftOver, HandlerInv, Operating
    <3> QED
      BY <1>1, <3>1, <3>2, <3>3, <3>4
  <2> QED
    BY <2>2, <2>3 DEF HostInv
<1>2. CASE SkipSlot \/ StartTransaction
  <2>1. frame.slot \in Slots /\ ep[frame.slot] \in Endpoints
    BY DEF TypeOK
  <2>2. /\ root' = root /\ ints' = ints /\ ep_reg' = ep_reg /\ api' = api /\ owed' = owed
    BY <1>2 DEF SkipSlot, StartTransaction
  <2>3. \A t \in Slots : /\ ep'[t].size = ep[t].size
                         /\ ep'[t].root_idx = ep[t].root_idx
                         /\ ep'[t].has_transfer = ep[t].has_transfer
    <3>1. \/ ep' = ep
          \/ ep' = [ep EXCEPT ![frame.slot] = [ep[frame.slot] EXCEPT !.interval_counter = @ - 1]]
          \/ ep' = [ep EXCEPT ![frame.slot] = [ep[frame.slot] EXCEPT !.transfer_started = TRUE]]
      BY <1>2 DEF SkipSlot, StartTransaction
    <3> DEFINE c == [ep[frame.slot] EXCEPT !.interval_counter = @ - 1]
               b == [ep[frame.slot] EXCEPT !.transfer_started = TRUE]
    <3>2. /\ c.size = ep[frame.slot].size /\ c.root_idx = ep[frame.slot].root_idx
          /\ c.has_transfer = ep[frame.slot].has_transfer
          /\ b.size = ep[frame.slot].size /\ b.root_idx = ep[frame.slot].root_idx
          /\ b.has_transfer = ep[frame.slot].has_transfer
      BY <2>1 DEF Endpoints
    <3> HIDE DEF c, b
    <3> QED
      BY <2>1, <3>1, <3>2 DEF TypeOK, c, b
  <2>4. Accounted' /\ CallInv'
    BY <2>2, <2>3, QuietFrame
  <2>5. NothingLeftOver' /\ HandlerInv'
    <3>1. Operating(frame.port)
      BY <1>2 DEF HostInv, HandlerInv, SkipSlot, StartTransaction
    <3>2. CASE SkipSlot
      BY <2>2, <3>1, <3>2, NextSlotGoes DEF SkipSlot, NothingLeftOver, HandlerInv, Operating
    <3>3. CASE StartTransaction
      <4>1. frame'.pc = "txn" /\ frame'.port = frame.port /\ frame'.slot = frame.slot
        BY <3>3 DEF StartTransaction, TypeOK
      <4>2. /\ ep[frame.slot].has_transfer
            /\ ep[frame.slot].size # 0 /\ ep[frame.slot].root_idx = frame.port
        BY <3>3 DEF StartTransaction, HostInv, HandlerInv
      <4> QED
        BY <2>1, <2>2, <2>3, <3>1, <4>1, <4>2 DEF NothingLeftOver, HandlerInv, Operating
    <3> QED
      BY <1>2, <3>2, <3>3
  <2> QED
    BY <2>4, <2>5 DEF HostInv
<1>3. CASE CheckConnect
  <2>1. /\ ep' = ep /\ ep_reg' = ep_reg /\ api' = api /\ owed' = owed
        /\ frame.pc = "connect" /\ NextPort("irq")
    BY <1>3 DEF CheckConnect
  <2>2. \A p \in Ports : ints[p] \subseteq ints'[p]
    BY <1>3 DEF CheckConnect, TypeOK
  <2>3. Accounted' /\ CallInv'
    BY <2>1, <2>2, QuietFrame
  <2>4. frame'.pc \in {"connect", "irq"} /\ (frame'.pc = "irq" => frame'.port = 0)
    BY <2>1, NextPortGoes
  <2>5. NothingLeftOver' /\ HandlerInv'
    BY <2>4 DEF NothingLeftOver, HandlerInv, Ports
  <2> QED
    BY <2>3, <2>5 DEF HostInv
<1> QED
  BY <1>1, <1>2, <1>3

\* The interrupt handler tells the stack of every flagged endpoint of the port
\* before it clears the registers, and leaves none behind.
LEMMA IrqHandlerInv ==
  ASSUME TypeOK, HostInv, IrqHandler
  PROVE  HostInv'
<1> DEFINE p == frame.port
<1>1. /\ p \in Ports /\ frame.pc = "irq" /\ ep' = ep /\ api' = api /\ owed' = owed \ Told(p)
      /\ NextPort("idle")
  BY DEF TypeOK, IrqHandler
<1>2. /\ ints'[p] = {}
      /\ \A q \in Ports \ {p} : ints'[q] = ints[q] /\ ep_reg'[q] = ep_reg[q]
  BY <1>1 DEF TypeOK, IrqHandler
<1>3. \A f \in EpFlags : f \notin ints[p] => ep_reg[p][f] = {}
  <2>1. \A s \in Slots, f \in EpFlags : s \in ep_reg[p][f] => f \in ints[p]
    BY <1>1 DEF HostInv, Accounted, Account
  <2>2. \A f \in EpFlags : ep_reg[p][f] \subseteq Slots
    BY <1>1 DEF TypeOK
  <2> QED
    BY <2>1, <2>2
<1>4. \A f \in EpFlags : ep_reg'[p][f] = {}
  <2>1. ep_reg' = [ep_reg EXCEPT ![p] = [f \in EpFlags |-> IF f \in ints[p] THEN {}
                                                          ELSE ep_reg[p][f]]]
    BY <1>1 DEF TypeOK, IrqHandler
  <2> QED
    BY <1>1, <1>3, <2>1 DEF TypeOK
<1>5. \A s \in Slots : s \in Told(p) <=> \E f \in EpFlags : s \in ep_reg[p][f]
  BY <1>3 DEF Told
<1>6. ASSUME NEW s \in Slots PROVE Account(s)'
  <2>1. Account(s)
    BY DEF HostInv, Accounted
  <2>2. CASE s \in Told(p)
    <3>1. \A q \in Ports, f \in EpFlags : s \notin ep_reg'[q][f]
      BY <1>1, <1>2, <1>4, <1>5, <2>1, <2>2 DEF Account
    <3>2. ~ep[s].has_transfer
      BY <1>1, <1>5, <2>1, <2>2 DEF Account, Pending
    <3> QED
      BY <1>1, <2>2, <3>1, <3>2 DEF Account, Pending
  <2>3. CASE s \notin Told(p)
    <3>1. \A f \in EpFlags : s \notin ep_reg[p][f]
      BY <1>5, <2>3
    <3>2. \A q \in Ports, f \in EpFlags : s \in ep_reg'[q][f] <=> s \in ep_reg[q][f]
      BY <1>2, <1>4, <3>1
    <3>3. \A q \in Ports, f \in EpFlags : s \in ep_reg'[q][f] => f \in ints'[q]
      BY <1>2, <2>1, <3>1, <3>2 DEF Account
    <3> QED
      BY <1>1, <2>1, <2>3, <3>2, <3>3 DEF Account, Pending
  <2> QED
    BY <2>2, <2>3
<1>7. \A q \in Ports : q < p + 1 => Drained(q)'
  <2>1. \A q \in Ports : q = p => Drained(q)'
    BY <1>2, <1>4 DEF Drained
  <2>2. ASSUME NEW q \in Ports, q < p PROVE Drained(q)'
    <3>1. Drained(q) /\ q # p
      BY <1>1, <2>2 DEF HostInv, HandlerInv, Ports
    <3> QED
      BY <1>2, <2>2, <3>1 DEF Drained
  <2>3. \A q \in Ports : q < p + 1 => q < p \/ q = p
    BY <1>1 DEF Ports
  <2> QED
    BY <2>1, <2>2, <2>3
<1>8. NothingLeftOver' /\ HandlerInv'
  <2>1. /\ frame'.pc \in {"irq", "idle"}
        /\ frame'.pc = "irq" => frame'.port = p + 1
        /\ frame'.pc = "idle" => p + 1 >= PortCnt
    BY <1>1, NextPortGoes
  <2>2. p + 1 >= PortCnt => \A q \in Ports : q < p + 1
    BY <1>1, HostAssumption DEF Ports
  <2> QED
    BY <1>7, <2>1, <2>2 DEF NothingLeftOver, HandlerInv
<1>9. CallInv'
  BY <1>1, CallKept DEF HostInv
<1> QED
  BY <1>6, <1>8, <1>9 DEF HostInv, Accounted

\* On one core a call sees every register drained, so what is owed is exactly
\* what is queued; a call that keeps it so keeps the accounts.
LEMMA CallerInv ==
  ASSUME TypeOK, HostInv, frame.pc = "idle", frame' = frame, ints' = ints, ep_reg' = ep_reg,
         (\A s \in Slots : s \in owed <=> ep[s].has_transfer)
           => \A s \in Slots : s \in owed' <=> ep'[s].has_transfer,
         CallInv'
  PROVE  HostInv'
<1>1. \A p \in Ports, f \in EpFlags : ep_reg[p][f] = {}
  BY DEF HostInv, NothingLeftOver, Drained
<1>2. \A s \in Slots : s \in owed <=> ep[s].has_transfer
  BY <1>1 DEF HostInv, Accounted, Account, Pending
<1>3. \A s \in Slots : Account(s)'
  BY <1>1, <1>2 DEF Account, Pending
<1>4. NothingLeftOver' /\ HandlerInv'
  BY DEF HostInv, NothingLeftOver, HandlerInv, Drained
<1> QED
  BY <1>3, <1>4 DEF HostInv, Accounted

\* The same for a call that stores g in one entry of the pool.
LEMMA CallerStores ==
  ASSUME TypeOK, HostInv, frame.pc = "idle", frame' = frame, ints' = ints, ep_reg' = ep_reg,
         NEW s \in Slots, NEW g, ep' = [ep EXCEPT ![s] = g],
         g.root_idx \in Ports, g.has_transfer => g.size # 0,
         (s \in owed <=> ep[s].has_transfer) => (s \in owed' <=> g.has_transfer),
         \A t \in Slots \ {s} : t \in owed' <=> t \in owed,
         api'.pc \in {"submit", "publish"} => api'.slot = s /\ g.size # 0,
         api'.pc \in {"bind", "publish"} => api'.slot = s /\ ~g.has_transfer
  PROVE  HostInv'
<1>1. ep'[s] = g /\ \A t \in Slots \ {s} : ep'[t] = ep[t]
  BY DEF TypeOK
<1>2. CallInv'
  BY <1>1 DEF HostInv, CallInv
<1> QED
  BY <1>1, <1>2, CallerInv

\* The same for a call that leaves the pool alone.
LEMMA CallerKeeps ==
  ASSUME TypeOK, HostInv, frame.pc = "idle", frame' = frame, ints' = ints, ep_reg' = ep_reg,
         ep' = ep, owed' = owed, api'.pc \notin {"submit", "publish", "bind"}
  PROVE  HostInv'
<1>1. CallInv'
  BY DEF HostInv, CallInv
<1> QED
  BY <1>1, CallerInv

\* The functions the host stack calls keep the accounts when it runs on the
\* frame handler's core and keeps to its discipline.
LEMMA ApiInv ==
  ASSUME SameCore, Disciplined, TypeOK, HostInv, ApiCall \/ ApiStep
  PROVE  HostInv'
<1>1. /\ api.slot \in Slots /\ api.port \in Ports
      /\ \A s \in Slots : ep[s] \in Endpoints
  BY DEF TypeOK
<1>2. /\ \A s \in Slots : ep[s].root_idx \in Ports /\ (ep[s].has_transfer => ep[s].size # 0)
      /\ api.pc \in {"submit", "publish"} => ep[api.slot].size # 0
      /\ api.pc \in {"bind", "publish"} => ~ep[api.slot].has_transfer
  BY DEF HostInv, CallInv
<1>3. ApiIdle \in Apis /\ ApiIdle.pc = "idle" /\ api \in Apis
  BY IdleTypes DEF ApiIdle, TypeOK, Apis
<1>4. CASE AddPort \/ \E p \in Ports : PortResetStart(p) \/ PortResetRelease(p)
  <2>1. /\ frame.pc = "idle" /\ frame' = frame /\ ints' = ints /\ ep_reg' = ep_reg
        /\ ep' = ep /\ owed' = owed
    BY <1>4 DEF AddPort, PortResetStart, PortResetRelease, Calling, CallerRuns
  <2>2. api'.pc \in {"idle", "reset_resume"}
    BY <1>3, <1>4 DEF AddPort, PortResetStart, PortResetRelease, Calling, Apis
  <2> QED
    BY <2>1, <2>2, CallerKeeps
<1>5. ASSUME NEW p \in Ports, NEW addr \in DevAddrs, CloseDevice(p, addr)
      PROVE  HostInv'
  <2>1. /\ frame.pc = "idle" /\ frame' = frame /\ ints' = ints /\ ep_reg' = ep_reg
        /\ ep' = ep /\ owed' = owed /\ api'.pc = "close_device"
    BY <1>3, <1>5 DEF CloseDevice, Calling, CallerRuns, Apis
  <2> QED
    BY <2>1, CallerKeeps
<1>6. ASSUME NEW s \in Slots, NEW p \in Ports, NEW addr \in DevAddrs, SendSetup(s, p, addr)
      PROVE  HostInv'
  <2> DEFINE g == [ep[s] EXCEPT !.ep_num = EP0, !.data_id = USB_PID_SETUP, !.is_tx = TRUE]
  <2>1. /\ frame.pc = "idle" /\ frame' = frame /\ ints' = ints /\ ep_reg' = ep_reg
        /\ ep' = [ep EXCEPT ![s] = g] /\ owed' = owed
    BY <1>6 DEF SendSetup, Calling, CallerRuns
  <2>4. api'.pc = "submit" /\ api'.slot = s
    BY <1>3, <1>6 DEF SendSetup, Apis
  <2>2. g.root_idx = ep[s].root_idx /\ g.size = ep[s].size /\ g.has_transfer = ep[s].has_transfer
    BY <1>1 DEF Endpoints
  <2>3. ep[s].size # 0
    BY <1>6 DEF SendSetup, IsFirst, Found, Matches
  <2> HIDE DEF g
  <2> QED
    BY <1>2, <2>1, <2>2, <2>3, <2>4, CallerStores
<1>7. ASSUME NEW s \in Slots, NEW p \in Ports, NEW addr \in DevAddrs, NEW d \in Descs,
             EndpointOpen(s, p, addr, d)
      PROVE  HostInv'
  <2> DEFINE g == configure_endpoint(ep[s], d)
  <2>1. /\ frame.pc = "idle" /\ frame' = frame /\ ints' = ints /\ ep_reg' = ep_reg
        /\ ep' = [ep EXCEPT ![s] = g] /\ owed' = owed
        /\ api'.pc = "bind" /\ api'.slot = s
    BY <1>3, <1>7 DEF EndpointOpen, Calling, CallerRuns, Apis
  <2>2. g.root_idx = ep[s].root_idx /\ g.has_transfer = ep[s].has_transfer
    BY <1>1 DEF configure_endpoint, Endpoints
  <2>3. ~ep[s].has_transfer
    BY <1>2, <1>7 DEF EndpointOpen, IsFirst
  <2> HIDE DEF g
  <2> QED
    BY <1>2, <2>1, <2>2, <2>3, CallerStores
<1>8. ASSUME NEW s \in Slots, NEW p \in Ports, NEW addr \in DevAddrs, NEW a \in EpAddresses,
             EndpointClose(s, p, addr, a)
      PROVE  HostInv'
  <2> DEFINE g == [ep[s] EXCEPT !.size = 0]
  <2>1. /\ frame.pc = "idle" /\ frame' = frame /\ ints' = ints /\ ep_reg' = ep_reg
        /\ ep' = [ep EXCEPT ![s] = g] /\ owed' = owed \ {s} /\ s \notin owed
        /\ api'.pc = "idle"
    BY <1>8 DEF EndpointClose, Calling, CallerRuns
  <2>2. g.root_idx = ep[s].root_idx /\ g.has_transfer = ep[s].has_transfer
    BY <1>1 DEF Endpoints
  <2>3. ~ep[s].has_transfer
    BY <2>1 DEF HostInv, Accounted, Account
  <2> HIDE DEF g
  <2> QED
    BY <1>2, <2>1, <2>2, <2>3, CallerStores
<1>9. ASSUME NEW s \in Slots, NEW p \in Ports, NEW addr \in DevAddrs, NEW a \in EpAddresses,
             AbortTransfer(s, p, addr, a)
      PROVE  HostInv'
  <2>1. /\ frame.pc = "idle" /\ frame' = frame /\ ints' = ints /\ ep_reg' = ep_reg
        /\ ep' = ep /\ owed' = owed /\ api'.pc = "abort_mark"
    BY <1>3, <1>9 DEF AbortTransfer, Calling, CallerRuns, Apis
  <2> QED
    BY <2>1, CallerKeeps
<1>10. ASSUME NEW s \in Slots, NEW p \in Ports, NEW addr \in DevAddrs, NEW a \in EpAddresses,
              NEW len \in Lens, EndpointTransfer(s, p, addr, a, len)
       PROVE  HostInv'
  <2> DEFINE h == [ep[s] EXCEPT !.ep_num = a, !.is_tx = ~a.in, !.data_id = 1]
             g == IF a.num = 0 THEN h ELSE ep[s]
  <2>1. /\ frame.pc = "idle" /\ frame' = frame /\ ints' = ints /\ ep_reg' = ep_reg
        /\ ep' = IF a.num = 0 THEN [ep EXCEPT ![s] = h] ELSE ep
        /\ owed' = owed
    BY <1>10 DEF EndpointTransfer, Calling, CallerRuns
  <2>6. api'.pc = "submit" /\ api'.slot = s
    BY <1>3, <1>10 DEF EndpointTransfer, Apis
  <2>2. h.root_idx = ep[s].root_idx /\ h.size = ep[s].size /\ h.has_transfer = ep[s].has_transfer
    BY <1>1 DEF Endpoints
  <2>3. ep[s].size # 0
    BY <1>10 DEF EndpointTransfer, IsFirst, Found, Matches
  <2> HIDE DEF h
  <2>4. ep' = [ep EXCEPT ![s] = g]
    BY <2>1 DEF TypeOK
  <2>5. g.root_idx = ep[s].root_idx /\ g.size = ep[s].size /\ g.has_transfer = ep[s].has_transfer
    BY <2>2
  <2> HIDE DEF g
  <2> QED
    BY <1>2, <2>1, <2>3, <2>4, <2>5, <2>6, CallerStores
<1>11. CASE EndpointBind
  <2> DEFINE s == api.slot
             g == [ep[s] EXCEPT !.root_idx = api.port, !.dev_addr = api.addr,
                                !.is_tx = ~ep[s].ep_num.in]
  <2>1. /\ frame.pc = "idle" /\ frame' = frame /\ ints' = ints /\ ep_reg' = ep_reg
        /\ ep' = [ep EXCEPT ![s] = g] /\ owed' = owed /\ api'.pc = "idle" /\ api.pc = "bind"
    BY <1>1, <1>3, <1>11 DEF EndpointBind, CallerRuns
  <2>2. g.root_idx = api.port /\ g.size = ep[s].size /\ g.has_transfer = ep[s].has_transfer
    BY <1>1 DEF Endpoints
  <2> HIDE DEF g
  <2> QED
    BY <1>1, <1>2, <2>1, <2>2, CallerStores
<1>12. CASE CloseDeviceSlot
  <2> DEFINE s == api.slot
             g == [ep[s] EXCEPT !.size = 0, !.has_transfer = FALSE]
  <2>1. /\ frame.pc = "idle" /\ frame' = frame /\ ints' = ints /\ ep_reg' = ep_reg
        /\ \/ ep' = ep /\ owed' = owed
           \/ ep' = [ep EXCEPT ![s] = g] /\ owed' = owed \ {s}
    BY <1>12 DEF CloseDeviceSlot, CallerRuns
  <2>2. api'.pc \in {"idle", "close_device"}
    <3>1. api' \in {[api EXCEPT !.slot = s + 1], ApiIdle} /\ api \in Apis /\ api.pc = "close_device"
      BY <1>12 DEF CloseDeviceSlot, TypeOK, Apis
    <3> QED
      BY <1>3, <3>1 DEF Apis
  <2>3. g.root_idx = ep[s].root_idx /\ ~g.has_transfer
    BY <1>1 DEF Endpoints
  <2> HIDE DEF g
  <2>4. CASE ep' = ep /\ owed' = owed
    BY <2>1, <2>2, <2>4, CallerKeeps
  <2>5. CASE ep' = [ep EXCEPT ![s] = g] /\ owed' = owed \ {s}
    BY <1>1, <1>2, <2>1, <2>2, <2>3, <2>5, CallerStores
  <2> QED
    BY <2>1, <2>4, <2>5
<1>13. CASE TransferFill
  <2> DEFINE s == api.slot
             g == transfer_fill(ep[s], api.len)
  <2>1. /\ frame.pc = "idle" /\ frame' = frame /\ ints' = ints /\ ep_reg' = ep_reg
        /\ owed' = owed /\ api.pc = "submit"
    BY <1>13 DEF TransferFill, CallerRuns
  <2>2. CASE ep[s].has_transfer
    <3>1. ep' = ep /\ api'.pc = "idle"
      BY <1>3, <1>13, <2>2 DEF TransferFill
    <3> QED
      BY <2>1, <3>1, CallerKeeps
  <2>3. CASE ~ep[s].has_transfer
    <3>1. ep' = [ep EXCEPT ![s] = g]
      BY <1>13, <2>3 DEF TransferFill
    <3>3. api'.pc = "publish" /\ api'.slot = s
      BY <1>3, <1>13, <2>3 DEF TransferFill, Apis
    <3>2. g.root_idx = ep[s].root_idx /\ g.size = ep[s].size /\ g.has_transfer = ep[s].has_transfer
      BY <1>1 DEF transfer_fill, prepare_tx_data, Endpoints
    <3> HIDE DEF g
    <3> QED
      BY <1>1, <1>2, <2>1, <2>3, <3>1, <3>2, <3>3, CallerStores
  <2> QED
    BY <2>2, <2>3
<1>14. CASE TransferPublish
  <2> DEFINE s == api.slot
             g == transfer_publish(ep[s])
  <2>1. /\ frame.pc = "idle" /\ frame' = frame /\ ints' = ints /\ ep_reg' = ep_reg
        /\ ep' = [ep EXCEPT ![s] = g] /\ owed' = owed \cup {s}
        /\ api.pc = "publish" /\ api'.pc = "idle"
    BY <1>3, <1>14 DEF TransferPublish, CallerRuns
  <2>2. g.root_idx = ep[s].root_idx /\ g.size = ep[s].size /\ g.has_transfer
    BY <1>1 DEF transfer_publish, Endpoints
  <2> HIDE DEF g
  <2> QED
    BY <1>1, <1>2, <2>1, <2>2, CallerStores
<1>15. CASE AbortMark \/ AbortDone
  <2> DEFINE s == api.slot
             g == [ep[s] EXCEPT !.transfer_aborted = TRUE]
             h == [ep[s] EXCEPT !.transfer_aborted = FALSE]
  <2>1. /\ frame.pc = "idle" /\ frame' = frame /\ ints' = ints /\ ep_reg' = ep_reg
        /\ ep' = [ep EXCEPT ![s] = g] \/ ep' = [ep EXCEPT ![s] = h]
        /\ owed' = owed
    BY <1>15 DEF AbortMark, AbortDone, CallerRuns
  <2>2. /\ g.root_idx = ep[s].root_idx /\ g.size = ep[s].size /\ g.has_transfer = ep[s].has_transfer
        /\ h.root_idx = ep[s].root_idx /\ h.size = ep[s].size /\ h.has_transfer = ep[s].has_transfer
    BY <1>1 DEF Endpoints
  <2>3. api'.pc \in {"idle", "abort_wait"}
    BY <1>3, <1>15 DEF AbortMark, AbortDone, TypeOK
  <2> HIDE DEF g, h
  <2> QED
    BY <1>1, <1>2, <2>1, <2>2, <2>3, CallerStores
<1>16. CASE AbortWait \/ AbortRead \/ PortResetResume
  <2>1. /\ frame.pc = "idle" /\ frame' = frame /\ ints' = ints /\ ep_reg' = ep_reg
        /\ ep' = ep /\ owed' = owed
    BY <1>16 DEF AbortWait, AbortRead, PortResetResume, CallerRuns
  <2>2. api'.pc \in {"idle", "abort_read", "abort_clear"}
    BY <1>3, <1>16 DEF AbortWait, AbortRead, PortResetResume, Apis
  <2> QED
    BY <2>1, <2>2, CallerKeeps
<1>17. CASE AbortClear
  <2> DEFINE s == api.slot
             g == [ep[s] EXCEPT !.has_transfer = FALSE]
  <2>1. /\ frame.pc = "idle" /\ frame' = frame /\ ints' = ints /\ ep_reg' = ep_reg
        /\ \/ ep' = ep /\ owed' = owed
           \/ ep' = [ep EXCEPT ![s] = g] /\ owed' = owed \ {s}
    BY <1>17 DEF AbortClear, CallerRuns
  <2>2. api'.pc = "abort_done"
    BY <1>17 DEF AbortClear, TypeOK
  <2>3. g.root_idx = ep[s].root_idx /\ ~g.has_transfer
    BY <1>1 DEF Endpoints
  <2> HIDE DEF g
  <2>4. CASE ep' = ep /\ owed' = owed
    BY <2>1, <2>2, <2>4, CallerKeeps
  <2>5. CASE ep' = [ep EXCEPT ![s] = g] /\ owed' = owed \ {s}
    BY <1>1, <1>2, <2>1, <2>2, <2>3, <2>5, CallerStores
  <2> QED
    BY <2>1, <2>4, <2>5
<1>18. CASE ApiCall
  BY <1>4, <1>5, <1>6, <1>7, <1>8, <1>9, <1>10, <1>18 DEF ApiCall
<1>19. CASE ApiStep
  BY <1>11, <1>12, <1>13, <1>14, <1>15, <1>16, <1>17, <1>19 DEF ApiStep
<1> QED
  BY <1>18, <1>19

\* Nothing is queued, owed or flagged when the controller starts.
LEMMA InitInv == Init => HostInv
<1> SUFFICES ASSUME Init PROVE HostInv
  OBVIOUS
<1>1. /\ \A s \in Slots : ep[s].root_idx = 0 /\ ~ep[s].has_transfer
      /\ frame.pc = "idle" /\ api.pc = "idle" /\ owed = {}
      /\ \A p \in Ports : ints[p] = {} /\ \A f \in EpFlags : ep_reg[p][f] = {}
  BY DEF Init, UnusedEndpoint, FrameIdle, ApiIdle
<1> QED
  BY <1>1, Zero DEF HostInv, Accounted, Account, Pending, NothingLeftOver, Drained,
                    HandlerInv, CallInv

\* Every step keeps the inductive invariant.
LEMMA NextInv ==
  ASSUME SameCore, Disciplined, TypeOK, HostInv, [Next]_vars
  PROVE  HostInv'
<1>1. CASE FrameStep
  <2>1. ASSUME NEW reply \in Replies, SetupTransaction(reply) \/ OutTransaction(reply)
        PROVE  HostInv'
    BY <2>1, 0 \in Nat, TransactionInv
  <2>2. ASSUME NEW reply \in Replies, NEW n \in RxLens, InTransaction(reply, n)
        PROVE  HostInv'
    BY <2>2, TransactionInv, HostAssumption
  <2> QED
    BY <1>1, <2>1, <2>2, QuietFrameInv, ConnectionLostInv, IrqHandlerInv DEF FrameStep
<1>2. CASE ApiCall \/ ApiStep
  BY <1>2, ApiInv
<1>3. CASE LineChange \/ UNCHANGED vars
  <2>1. /\ ep' = ep /\ root' = root /\ ints' = ints /\ ep_reg' = ep_reg
        /\ frame' = frame /\ api' = api /\ owed' = owed
    BY <1>3 DEF LineChange, vars
  <2> QED
    BY <2>1 DEF HostInv, Accounted, Account, Pending, NothingLeftOver, Drained,
                HandlerInv, Operating, CallInv
<1> QED
  BY <1>1, <1>2, <1>3 DEF Next

\* The conjunction that carries the safety theorems below.
LEMMA HostInvariant ==
  ASSUME SameCore, Disciplined
  PROVE  Spec => [](TypeOK /\ HostInv)
<1>1. Init => TypeOK /\ HostInv
  BY InitType, InitInv
<1>2. TypeOK /\ HostInv /\ [Next]_vars => (TypeOK /\ HostInv)'
  BY NextType, NextInv
<1> QED
  BY <1>1, <1>2, PTL DEF Spec

\* On the frame handler's core and with a disciplined stack, every accepted
\* transfer is at every moment either queued or flagged exactly once, in the
\* registers of its port: no event is lost, raised twice or misdirected.  (Abort
\* answers for itself: AbortsAnswerOnce.)
THEOREM OutcomesAccounted ==
  ASSUME SameCore, Disciplined
  PROVE  Spec => []Accounted
<1>1. TypeOK /\ HostInv => Accounted
  BY DEF HostInv
<1> QED
  BY <1>1, HostInvariant, PTL

\* Every transaction put on the bus is for a transfer the stack still waits for,
\* on an operating port, of an open endpoint bound to that port.
THEOREM OnlyOwnedTransactions ==
  ASSUME SameCore, Disciplined
  PROVE  Spec => []TransactionOwned
<1>1. TypeOK /\ HostInv => TransactionOwned
  BY DEF TypeOK, HostInv, HandlerInv, Accounted, Account, TransactionOwned
<1> QED
  BY <1>1, HostInvariant, PTL

\* No interrupt or register bit outlives the frame that raised it.
THEOREM RegistersDrained ==
  ASSUME SameCore, Disciplined
  PROVE  Spec => []NothingLeftOver
<1>1. TypeOK /\ HostInv => NothingLeftOver
  BY DEF HostInv
<1> QED
  BY <1>1, HostInvariant, PTL

-----------------------------------------------------------------------------
(* What a transaction may do to the endpoint it serves.                       *)

\* The fields that bind an endpoint to its address, and the flag of abort, are
\* the caller's: a transaction leaves them.
SameEntry(e, f) ==
  /\ f.size = e.size /\ f.ep_num = e.ep_num
  /\ f.root_idx = e.root_idx /\ f.dev_addr = e.dev_addr
  /\ f.transfer_aborted = e.transfer_aborted

\* A transfer whose retries and byte count are in bounds and whose encoded packet
\* is the next one to send.
Healthy(e) ==
  /\ e.failed_count < MaxRetry
  /\ e.actual_len <= e.total_len /\ e.total_len < U16
  /\ e.is_tx => e.encoded = [pid |-> DataPid(e.data_id), off |-> e.actual_len,
                             len |-> transaction_len(e)]

\* One step of the frame handler on an endpoint.
Serves(e, f) ==
  /\ SameEntry(e, f)
  /\ f.has_transfer => e.has_transfer
  /\ f.has_transfer /\ Healthy(e) => Healthy(f)

\* Nothing of the transfer itself changes.
SameTransfer(e, f) ==
  /\ SameEntry(e, f)
  /\ f.has_transfer = e.has_transfer /\ f.failed_count = e.failed_count
  /\ f.actual_len = e.actual_len /\ f.total_len = e.total_len
  /\ f.is_tx = e.is_tx /\ f.data_id = e.data_id /\ f.encoded = e.encoded

\* A step that only touches the rest of the endpoint serves it.
LEMMA UntouchedServes ==
  ASSUME NEW e, NEW f, SameTransfer(e, f)
  PROVE  Serves(e, f)
<1>1. transaction_len(f) = transaction_len(e)
  BY DEF transaction_len, SameTransfer, SameEntry
<1>2. Healthy(e) => Healthy(f)
  BY <1>1 DEF Healthy, SameTransfer
<1> QED
  BY <1>2 DEF Serves, SameTransfer

\* Steps on one endpoint compose.
LEMMA ServesTwice ==
  ASSUME NEW e, NEW f, NEW g, Serves(e, f), Serves(f, g)
  PROVE  Serves(e, g)
BY DEF Serves, SameEntry

\* What a transaction does with every outcome but a sound data packet.
LEMMA OutcomeServes ==
  ASSUME NEW e \in Endpoints
  PROVE  /\ Serves(e, e)
         /\ Serves(e, transfer_complete(e))
         /\ Serves(e, Sound(e))
         /\ Serves(e, Failed(e))
         /\ Serves(e, Rearmed(e))
<1>1. Serves(e, e)
  BY DEF Serves, SameEntry
<1>2. ASSUME NEW f \in Endpoints PROVE Serves(f, transfer_complete(f))
  BY DEF Serves, SameEntry, transfer_complete, Endpoints
<1>3. Serves(e, Sound(e))
  <2> DEFINE f == Sound(e)
  <2>1. /\ f.failed_count = 0 /\ f.size = e.size /\ f.ep_num = e.ep_num
        /\ f.root_idx = e.root_idx /\ f.dev_addr = e.dev_addr
        /\ f.transfer_aborted = e.transfer_aborted /\ f.has_transfer = e.has_transfer
        /\ f.actual_len = e.actual_len /\ f.total_len = e.total_len /\ f.is_tx = e.is_tx
        /\ f.encoded = e.encoded /\ f.data_id = e.data_id
    BY DEF Sound, Endpoints
  <2>2. transaction_len(f) = transaction_len(e)
    BY <2>1 DEF transaction_len
  <2>3. 0 < MaxRetry
    BY HostAssumption
  <2> HIDE DEF f
  <2>4. Serves(e, f)
    BY <2>1, <2>2, <2>3 DEF Serves, SameEntry, Healthy
  <2> QED
    BY <2>4 DEF f
<1>4. Serves(e, Failed(e))
  <2> DEFINE f == [e EXCEPT !.failed_count = @ + 1]
  <2>1. /\ f.failed_count = e.failed_count + 1 /\ f.size = e.size /\ f.ep_num = e.ep_num
        /\ f.root_idx = e.root_idx /\ f.dev_addr = e.dev_addr
        /\ f.transfer_aborted = e.transfer_aborted /\ f.has_transfer = e.has_transfer
        /\ f.actual_len = e.actual_len /\ f.total_len = e.total_len /\ f.is_tx = e.is_tx
        /\ f.encoded = e.encoded /\ f.data_id = e.data_id
    BY DEF Endpoints
  <2>2. transaction_len(f) = transaction_len(e)
    BY <2>1 DEF transaction_len
  <2>3. f \in Endpoints
    BY DEF Endpoints
  <2>4. Failed(e) = IF f.failed_count >= MaxRetry THEN transfer_complete(f) ELSE f
    BY DEF Failed
  <2>5. f.failed_count \in Nat /\ MaxRetry \in Nat
    BY <2>3, HostAssumption DEF Endpoints
  <2> HIDE DEF f
  <2>6. CASE f.failed_count >= MaxRetry
    <3>1. SameEntry(e, f)
      BY <2>1 DEF SameEntry
    <3>2. Failed(e) = transfer_complete(f) /\ Serves(f, transfer_complete(f))
      BY <1>2, <2>3, <2>4, <2>6
    <3>3. ~transfer_complete(f).has_transfer
      BY <2>3 DEF transfer_complete, Endpoints
    <3> QED
      BY <3>1, <3>2, <3>3 DEF Serves, SameEntry
  <2>7. CASE ~(f.failed_count >= MaxRetry)
    <3>1. Failed(e) = f /\ f.failed_count < MaxRetry
      BY <2>4, <2>5, <2>7
    <3> QED
      BY <2>1, <2>2, <3>1 DEF Serves, SameEntry, Healthy
  <2> QED
    BY <2>6, <2>7
<1>5. Serves(e, Rearmed(e))
  <2>1. SameTransfer(e, Rearmed(e))
    BY DEF SameTransfer, SameEntry, Rearmed, Endpoints
  <2> QED
    BY <2>1, UntouchedServes
<1> QED
  BY <1>1, <1>2, <1>3, <1>4, <1>5

\* A transaction never counts past the end of the transfer: the uint16_t
\* arithmetic of transaction_len and of the byte count does not wrap.
LEMMA CountInBounds ==
  ASSUME NEW e \in Endpoints, NEW n \in Nat, n <= transaction_len(e),
         e.actual_len <= e.total_len, e.total_len < U16
  PROVE  /\ (e.actual_len + n) % U16 = e.actual_len + n
         /\ e.actual_len + n <= e.total_len
<1> DEFINE a == e.actual_len
           t == e.total_len
<1>1. a \in Nat /\ t \in Nat /\ e.size \in Nat
  BY DEF Endpoints
<1>2. n <= (t - a) % U16
  BY <1>1 DEF transaction_len, U16
<1>3. a <= t /\ t < U16
  OBVIOUS
<1> HIDE DEF a, t
<1>4. t - a \in Nat /\ t - a < U16
  BY <1>1, <1>3 DEF U16
<1>5. (t - a) % U16 = t - a
  BY <1>4 DEF U16
<1>6. a + n <= t
  BY <1>1, <1>2, <1>5
<1>7. (a + n) % U16 = a + n
  BY <1>1, <1>3, <1>6 DEF U16
<1> QED
  BY <1>6, <1>7 DEF a, t

\* A sound data packet advances the transfer and the next one is encoded.
LEMMA ContinueServes ==
  ASSUME NEW e \in Endpoints, NEW n \in Nat, n <= transaction_len(e)
  PROVE  Serves(e, transfer_continue(e, n))
<1> DEFINE f == transfer_progress(e, n)
           g == [f EXCEPT !.has_transfer = FALSE]
           h == prepare_tx_data(f)
<1>1. /\ f.actual_len = (e.actual_len + n) % U16 /\ f.failed_count = e.failed_count
      /\ f.size = e.size /\ f.ep_num = e.ep_num
      /\ f.root_idx = e.root_idx /\ f.dev_addr = e.dev_addr
      /\ f.transfer_aborted = e.transfer_aborted /\ f.has_transfer = e.has_transfer
      /\ f.total_len = e.total_len /\ f.is_tx = e.is_tx
  BY DEF transfer_progress, Endpoints
<1>2. Toggle(e.data_id) \in Nat /\ (e.actual_len + n) % U16 \in Nat
  BY ToggleType DEF Endpoints, U16
<1>3. f \in Endpoints
  BY <1>2 DEF transfer_progress, Endpoints
<1>4. transfer_continue(e, n) = g \/ (f.is_tx /\ transfer_continue(e, n) = h)
      \/ (~f.is_tx /\ transfer_continue(e, n) = f)
  BY DEF transfer_continue
<1> HIDE DEF f
<1>5. ASSUME Healthy(e)
      PROVE  f.failed_count < MaxRetry /\ f.actual_len <= f.total_len /\ f.total_len < U16
  BY <1>1, <1>5, CountInBounds DEF Healthy
<1>6. Serves(e, g)
  BY <1>1, <1>3 DEF Serves, SameEntry, Endpoints
<1>7. Serves(e, h)
  <2>1. /\ h.actual_len = f.actual_len /\ h.failed_count = f.failed_count
        /\ h.size = f.size /\ h.ep_num = f.ep_num
        /\ h.root_idx = f.root_idx /\ h.dev_addr = f.dev_addr
        /\ h.transfer_aborted = f.transfer_aborted /\ h.has_transfer = f.has_transfer
        /\ h.total_len = f.total_len /\ h.data_id = f.data_id
        /\ h.encoded = [pid |-> DataPid(f.data_id), off |-> f.actual_len,
                        len |-> transaction_len(f)]
    BY <1>3 DEF prepare_tx_data, Endpoints
  <2>2. transaction_len(h) = transaction_len(f)
    BY <2>1 DEF transaction_len
  <2> HIDE DEF h
  <2>3. Healthy(e) => Healthy(h)
    BY <1>5, <2>1, <2>2 DEF Healthy
  <2> QED
    BY <1>1, <2>1, <2>3 DEF Serves, SameEntry
<1>8. CASE ~f.is_tx /\ transfer_continue(e, n) = f
  <2>1. Healthy(e) => Healthy(f)
    BY <1>5, <1>8 DEF Healthy
  <2> QED
    BY <1>1, <1>8, <2>1 DEF Serves, SameEntry
<1> QED
  BY <1>4, <1>6, <1>7, <1>8

\* The end of a transaction touches one pool entry.
LEMMA EndServes ==
  ASSUME TypeOK, NEW e \in Endpoints, NEW flag, Serves(ep[frame.slot], e),
         EndTransaction(frame.slot, e, flag)
  PROVE  /\ \A t \in Slots \ {frame.slot} : ep'[t] = ep[t]
         /\ Serves(ep[frame.slot], ep'[frame.slot])
         /\ ~ep'[frame.slot].transfer_started
<1> DEFINE s == frame.slot
           f == [e EXCEPT !.transfer_started = FALSE]
<1>1. s \in Slots
  BY DEF TypeOK
<1>2. ep' = [ep EXCEPT ![s] = f]
  BY DEF EndTransaction
<1>3. SameTransfer(e, f) /\ ~f.transfer_started
  BY DEF SameTransfer, SameEntry, Endpoints
<1>4. ep'[s] = f /\ \A t \in Slots \ {s} : ep'[t] = ep[t]
  BY <1>1, <1>2 DEF TypeOK
<1> HIDE DEF f
<1>5. Serves(e, f)
  BY <1>3, UntouchedServes
<1>6. Serves(ep[s], f)
  BY <1>5, ServesTwice
<1> QED
  BY <1>3, <1>4, <1>6

\* So does every transaction, whatever the device answers.
LEMMA TransactionServes ==
  ASSUME TypeOK, NEW reply, NEW n \in Nat,
         SetupTransaction(reply) \/ InTransaction(reply, n) \/ OutTransaction(reply)
  PROVE  /\ \A t \in Slots \ {frame.slot} : ep'[t] = ep[t]
         /\ Serves(ep[frame.slot], ep'[frame.slot])
         /\ ~ep'[frame.slot].transfer_started
<1> DEFINE s == frame.slot
           e == ep[s]
           d == transfer_complete([e EXCEPT !.data_id = 0, !.actual_len = SETUP_LEN])
<1>1. e \in Endpoints
  BY DEF TypeOK
<1>2. d \in Endpoints /\ Serves(e, d)
  <2>1. [e EXCEPT !.data_id = 0, !.actual_len = SETUP_LEN] \in Endpoints
    BY <1>1 DEF Endpoints, SETUP_LEN
  <2>2. SameEntry(e, d) /\ ~d.has_transfer
    BY <1>1 DEF transfer_complete, SameEntry, Endpoints
  <2>3. d \in Endpoints
    BY <2>1, UpdateType
  <2> QED
    BY <2>2, <2>3 DEF Serves
<1> HIDE DEF d
<1>3. ASSUME NEW f \in Endpoints, Serves(e, f)
      PROVE  /\ Sound(f) \in Endpoints /\ Serves(e, Sound(f))
             /\ Rearmed(f) \in Endpoints /\ Serves(e, Rearmed(f))
  <2>1. Sound(f) \in Endpoints /\ Rearmed(f) \in Endpoints
    BY UpdateType
  <2>2. Serves(f, Sound(f)) /\ Serves(f, Rearmed(f))
    BY OutcomeServes
  <2> QED
    BY <1>3, <2>1, <2>2, ServesTwice
<1>4. ASSUME NEW f \in Endpoints, Serves(e, f)
      PROVE  Rearmed(Sound(f)) \in Endpoints /\ Serves(e, Rearmed(Sound(f)))
  BY <1>3, <1>4
<1>5. /\ Failed(e) \in Endpoints /\ Serves(e, Failed(e))
      /\ transfer_complete(e) \in Endpoints /\ Serves(e, transfer_complete(e))
      /\ Serves(e, e)
  BY <1>1, UpdateType, OutcomeServes
<1>6. ASSUME NEW m \in Nat, m <= transaction_len(e)
      PROVE  transfer_continue(e, m) \in Endpoints /\ Serves(e, transfer_continue(e, m))
  BY <1>1, <1>6, ContinueType, ContinueServes
<1>7. transaction_len(e) \in Nat
  BY <1>1, LenType
<1>8. \E f \in Endpoints : Serves(e, f) /\ \E flag : EndTransaction(s, f, flag)
  <2>1. CASE SetupTransaction(reply)
    <3>1. \/ EndTransaction(s, Sound(d), "complete")
          \/ EndTransaction(s, Failed(e), FailedFlag(e))
      BY <2>1 DEF SetupTransaction, d
    <3> QED
      BY <1>2, <1>3, <1>5, <3>1
  <2> DEFINE Done(m) == EndTransaction(s, Rearmed(Sound(transfer_continue(e, m))), ContinueFlag(e, m))
  <2>2. ASSUME \/ \E m \in Nat : m <= transaction_len(e) /\ Done(m)
               \/ EndTransaction(s, Rearmed(Sound(e)), "none")
               \/ EndTransaction(s, Rearmed(Sound(transfer_complete(e))), "stalled")
               \/ EndTransaction(s, Rearmed(Failed(e)), FailedFlag(e))
        PROVE  \E f \in Endpoints : Serves(e, f) /\ \E flag : EndTransaction(s, f, flag)
    <3>1. ASSUME NEW m \in Nat, m <= transaction_len(e), Done(m)
          PROVE  \E f \in Endpoints : Serves(e, f) /\ \E flag : EndTransaction(s, f, flag)
      <4> DEFINE c == transfer_continue(e, m)
      <4>1. c \in Endpoints /\ Serves(e, c)
        BY <1>6, <3>1
      <4> HIDE DEF c
      <4>2. Rearmed(Sound(c)) \in Endpoints /\ Serves(e, Rearmed(Sound(c)))
        BY <1>4, <4>1
      <4> QED
        BY <3>1, <4>2 DEF c
    <3>2. Rearmed(Sound(e)) \in Endpoints /\ Serves(e, Rearmed(Sound(e)))
      BY <1>1, <1>4, <1>5
    <3>3. LET f == Rearmed(Sound(transfer_complete(e))) IN f \in Endpoints /\ Serves(e, f)
      BY <1>4, <1>5
    <3>4. Rearmed(Failed(e)) \in Endpoints /\ Serves(e, Rearmed(Failed(e)))
      BY <1>3, <1>5
    <3> HIDE DEF e, s
    <3> QED
      BY <2>2, <3>1, <3>2, <3>3, <3>4
  <2>3. CASE InTransaction(reply, n)
    <3> DEFINE len == IF n > transaction_len(e) THEN transaction_len(e) ELSE n
    <3>1. len \in Nat /\ len <= transaction_len(e)
      BY <1>7
    <3>2. \/ Done(len)
          \/ EndTransaction(s, Rearmed(Sound(e)), "none")
          \/ EndTransaction(s, Rearmed(Sound(transfer_complete(e))), "stalled")
          \/ EndTransaction(s, Rearmed(Failed(e)), FailedFlag(e))
      BY <2>3 DEF InTransaction, DataPids
    <3> HIDE DEF len, Done
    <3> QED
      BY <2>2, <3>1, <3>2
  <2>4. CASE OutTransaction(reply)
    <3> DEFINE len == transaction_len(e)
    <3>1. len \in Nat /\ len <= transaction_len(e)
      BY <1>7
    <3>2. \/ Done(len)
          \/ EndTransaction(s, Rearmed(Sound(e)), "none")
          \/ EndTransaction(s, Rearmed(Sound(transfer_complete(e))), "stalled")
          \/ EndTransaction(s, Rearmed(Failed(e)), FailedFlag(e))
      BY <2>4 DEF OutTransaction
    <3> HIDE DEF Done
    <3> QED
      BY <2>2, <3>1, <3>2
  <2> QED
    BY <2>1, <2>3, <2>4
<1> QED
  BY <1>8, EndServes

\* Every step of the frame handler serves every endpoint of the pool, and does
\* not touch the caller.
LEMMA FrameServes ==
  ASSUME TypeOK, FrameStep
  PROVE  api' = api /\ \A s \in Slots : Serves(ep[s], ep'[s])
<1>1. \A s \in Slots : ep[s] \in Endpoints /\ Serves(ep[s], ep[s])
  BY OutcomeServes DEF TypeOK
<1>2. frame.slot \in Slots
  BY DEF TypeOK
<1>3. CASE FrameStart \/ SendSof \/ EnterPort \/ VisitLive \/ CheckConnect \/ IrqHandler
  BY <1>1, <1>3 DEF FrameStart, SendSof, EnterPort, VisitLive, CheckConnect, IrqHandler
<1>4. CASE ConnectionLost
  <2>1. \A s \in Slots : ep'[s] = transfer_complete(ep[s]) \/ ep'[s] = ep[s]
    BY <1>4 DEF ConnectionLost
  <2> QED
    BY <1>1, <1>4, <2>1, OutcomeServes DEF ConnectionLost
<1>5. CASE SkipSlot
  <2> DEFINE s == frame.slot
             g == [ep[s] EXCEPT !.interval_counter = @ - 1]
  <2>1. ep' = ep \/ ep' = [ep EXCEPT ![s] = g]
    BY <1>5 DEF SkipSlot
  <2>2. SameTransfer(ep[s], g)
    BY <1>1, <1>2 DEF SameTransfer, SameEntry, Endpoints
  <2> HIDE DEF g
  <2>3. \A t \in Slots : ep'[t] = ep[t] \/ (t = s /\ ep'[t] = g)
    BY <2>1 DEF TypeOK
  <2> QED
    BY <1>1, <1>5, <2>2, <2>3, UntouchedServes DEF SkipSlot
<1>6. CASE StartTransaction
  <2> DEFINE s == frame.slot
             g == [ep[s] EXCEPT !.transfer_started = TRUE]
  <2>1. ep' = [ep EXCEPT ![s] = g]
    BY <1>6 DEF StartTransaction
  <2>2. SameTransfer(ep[s], g)
    BY <1>1, <1>2 DEF SameTransfer, SameEntry, Endpoints
  <2> HIDE DEF g
  <2>3. \A t \in Slots : ep'[t] = ep[t] \/ (t = s /\ ep'[t] = g)
    BY <2>1 DEF TypeOK
  <2> QED
    BY <1>1, <1>6, <2>2, <2>3, UntouchedServes DEF StartTransaction
<1>7. ASSUME NEW reply, NEW n \in Nat,
             SetupTransaction(reply) \/ InTransaction(reply, n) \/ OutTransaction(reply)
      PROVE  api' = api /\ \A s \in Slots : Serves(ep[s], ep'[s])
  <2>1. api' = api
    BY <1>7 DEF SetupTransaction, InTransaction, OutTransaction, EndTransaction
  <2>2. \A t \in Slots \ {frame.slot} : ep'[t] = ep[t]
    BY <1>7, TransactionServes
  <2>3. Serves(ep[frame.slot], ep'[frame.slot])
    BY <1>7, TransactionServes
  <2> QED
    BY <1>1, <2>1, <2>2, <2>3
<1> QED
  BY <1>3, <1>4, <1>5, <1>6, <1>7, 0 \in Nat, HostAssumption DEF FrameStep

\* No call touches the frame handler's own state, a port's connection or its last
\* event, or raises an interrupt bit.
LEMMA CallerLeaves ==
  ASSUME TypeOK, ApiCall \/ ApiStep
  PROVE  /\ frame' = frame /\ ints' = ints /\ ep_reg' = ep_reg
         /\ \A p \in Ports : /\ root'[p].connected = root[p].connected
                            /\ root'[p].event = root[p].event
<1> DEFINE Quiet == /\ frame' = frame /\ ints' = ints /\ ep_reg' = ep_reg
                    /\ \A p \in Ports : /\ root'[p].connected = root[p].connected
                                       /\ root'[p].event = root[p].event
<1>1. ASSUME root' = root, frame' = frame, ints' = ints, ep_reg' = ep_reg
      PROVE  Quiet
  BY <1>1
<1>2. ASSUME NEW p, NEW r, root' = [root EXCEPT ![p] = r],
             p \in Ports => r.connected = root[p].connected /\ r.event = root[p].event,
             frame' = frame, ints' = ints, ep_reg' = ep_reg
      PROVE  Quiet
  <2>1. \A q \in Ports : root'[q] = root[q] \/ (q = p /\ root'[q] = r)
    BY <1>2 DEF TypeOK
  <2> QED
    BY <1>2, <2>1
<1>3. \A p \in Ports : /\ root[p] \in RootPorts
                     /\ [root[p] EXCEPT !.suspended = TRUE].connected = root[p].connected
                     /\ [root[p] EXCEPT !.suspended = TRUE].event = root[p].event
                     /\ [root[p] EXCEPT !.suspended = FALSE].connected = root[p].connected
                     /\ [root[p] EXCEPT !.suspended = FALSE].event = root[p].event
                     /\ [root[p] EXCEPT !.initialized = TRUE].connected = root[p].connected
                     /\ [root[p] EXCEPT !.initialized = TRUE].event = root[p].event
  BY DEF TypeOK, RootPorts
<1> HIDE DEF Quiet
<1>4. ASSUME AddPort PROVE Quiet
  <2>1. PICK p \in Ports : root' = [root EXCEPT ![p].initialized = TRUE]
    BY <1>4 DEF AddPort
  <2>2. root' = [root EXCEPT ![p] = [root[p] EXCEPT !.initialized = TRUE]]
    BY <2>1
  <2>3. frame' = frame /\ ints' = ints /\ ep_reg' = ep_reg
    BY <1>4 DEF AddPort
  <2> QED
    BY <1>2, <1>3, <2>2, <2>3
<1>5. ASSUME NEW p \in Ports, PortResetStart(p)
      PROVE  Quiet
  <2>1. root' = [root EXCEPT ![p] = [root[p] EXCEPT !.suspended = TRUE]]
    BY <1>5 DEF PortResetStart
  <2>2. frame' = frame /\ ints' = ints /\ ep_reg' = ep_reg
    BY <1>5 DEF PortResetStart
  <2> QED
    BY <1>2, <1>3, <2>1, <2>2
<1>6. ASSUME PortResetResume PROVE Quiet
  <2>1. root' = [root EXCEPT ![api.port] = [root[api.port] EXCEPT !.suspended = FALSE]]
    BY <1>6 DEF PortResetResume
  <2>2. frame' = frame /\ ints' = ints /\ ep_reg' = ep_reg
    BY <1>6 DEF PortResetResume
  <2> QED
    BY <1>2, <1>3, <2>1, <2>2
<1>7. ASSUME NEW s, NEW p, NEW addr, NEW d, NEW a, NEW len,
             \/ PortResetRelease(p) \/ CloseDevice(p, addr) \/ SendSetup(s, p, addr)
             \/ EndpointOpen(s, p, addr, d) \/ EndpointClose(s, p, addr, a)
             \/ AbortTransfer(s, p, addr, a) \/ EndpointTransfer(s, p, addr, a, len)
      PROVE  Quiet
  <2>1. root' = root /\ frame' = frame /\ ints' = ints /\ ep_reg' = ep_reg
    BY <1>7 DEF PortResetRelease, CloseDevice, SendSetup, EndpointOpen, EndpointClose,
                AbortTransfer, EndpointTransfer
  <2> QED
    BY <1>1, <2>1
<1>8. ASSUME \/ EndpointBind \/ CloseDeviceSlot \/ TransferFill \/ TransferPublish
             \/ AbortMark \/ AbortWait \/ AbortRead \/ AbortClear \/ AbortDone
      PROVE  Quiet
  <2>1. root' = root /\ frame' = frame /\ ints' = ints /\ ep_reg' = ep_reg
    BY <1>8 DEF EndpointBind, CloseDeviceSlot, TransferFill, TransferPublish, AbortMark,
                AbortWait, AbortRead, AbortClear, AbortDone
  <2> QED
    BY <1>1, <2>1
<1>9. ASSUME ApiCall PROVE Quiet
  BY <1>4, <1>5, <1>7, <1>9 DEF ApiCall
<1>10. ASSUME ApiStep PROVE Quiet
  BY <1>6, <1>8, <1>10 DEF ApiStep
<1> QED
  BY <1>9, <1>10 DEF Quiet

-----------------------------------------------------------------------------
(* The two flags, on one core or two and whatever the caller does.            *)

\* A transaction ends with transfer_started cleared, and only StartTransaction,
\* which enters one, sets it.
LEMMA FlagsFrame ==
  ASSUME TypeOK, FlagsScoped, FrameStep
  PROVE  FlagsScoped'
<1>1. api' = api /\ \A s \in Slots : ep'[s].transfer_aborted = ep[s].transfer_aborted
  BY FrameServes DEF Serves, SameEntry
<1>2. SUFFICES \A s \in Slots : ep'[s].transfer_started => frame'.pc = "txn" /\ frame'.slot = s
  BY <1>1 DEF FlagsScoped, AbortPcs
<1>3. frame.slot \in Slots /\ \A s \in Slots : ep[s] \in Endpoints
  BY DEF TypeOK
<1>4. frame.pc # "txn" => \A s \in Slots : ~ep[s].transfer_started
  BY DEF FlagsScoped
<1>5. CASE FrameStart \/ SendSof \/ EnterPort \/ VisitLive \/ CheckConnect \/ IrqHandler
  <2>1. ep' = ep /\ frame.pc # "txn"
    BY <1>5 DEF FrameStart, SendSof, EnterPort, VisitLive, CheckConnect, IrqHandler
  <2> QED
    BY <1>4, <2>1
<1>6. CASE ConnectionLost \/ SkipSlot
  <2>1. frame.pc # "txn"
    BY <1>6 DEF ConnectionLost, SkipSlot
  <2>2. \A s \in Slots : ep'[s].transfer_started = ep[s].transfer_started
    <3>1. CASE ConnectionLost
      <4>1. \A s \in Slots : ep'[s] = transfer_complete(ep[s]) \/ ep'[s] = ep[s]
        BY <3>1 DEF ConnectionLost
      <4>2. \A e \in Endpoints : transfer_complete(e).transfer_started = e.transfer_started
        BY DEF transfer_complete, Endpoints
      <4> QED
        BY <1>3, <4>1, <4>2
    <3>2. CASE SkipSlot
      <4> DEFINE g == [ep[frame.slot] EXCEPT !.interval_counter = @ - 1]
      <4>1. ep' = ep \/ ep' = [ep EXCEPT ![frame.slot] = g]
        BY <3>2 DEF SkipSlot
      <4>2. g.transfer_started = ep[frame.slot].transfer_started
        BY <1>3 DEF Endpoints
      <4> HIDE DEF g
      <4> QED
        BY <4>1, <4>2 DEF TypeOK
    <3> QED
      BY <1>6, <3>1, <3>2
  <2> QED
    BY <1>4, <2>1, <2>2
<1>7. CASE StartTransaction
  <2> DEFINE g == [ep[frame.slot] EXCEPT !.transfer_started = TRUE]
  <2>1. ep' = [ep EXCEPT ![frame.slot] = g]
    BY <1>7 DEF StartTransaction
  <2>2. frame.pc = "start" /\ frame'.pc = "txn" /\ frame'.slot = frame.slot
    BY <1>7 DEF StartTransaction, TypeOK
  <2> HIDE DEF g
  <2>3. \A s \in Slots \ {frame.slot} : ep'[s] = ep[s]
    BY <2>1 DEF TypeOK
  <2> QED
    BY <1>4, <2>2, <2>3
<1>8. ASSUME NEW reply, NEW n \in Nat,
             SetupTransaction(reply) \/ InTransaction(reply, n) \/ OutTransaction(reply)
      PROVE  \A s \in Slots : ~ep'[s].transfer_started
  <2>1. \A s \in Slots \ {frame.slot} : ep'[s] = ep[s]
    BY <1>8, TransactionServes
  <2>2. ~ep'[frame.slot].transfer_started
    BY <1>8, TransactionServes
  <2>3. \A s \in Slots \ {frame.slot} : ~ep[s].transfer_started
    BY DEF FlagsScoped
  <2> QED
    BY <2>1, <2>2, <2>3
<1> QED
  BY <1>5, <1>6, <1>7, <1>8, 0 \in Nat, HostAssumption DEF FrameStep

\* A call that writes one entry and sets neither flag, made while no abort is
\* under way.
LEMMA FlagsWrite ==
  ASSUME TypeOK, FlagsScoped, frame' = frame, api.pc \notin AbortPcs,
         NEW s \in Slots, NEW g, ep' = [ep EXCEPT ![s] = g],
         g.transfer_started => ep[s].transfer_started,
         g.transfer_aborted => ep[s].transfer_aborted
  PROVE  FlagsScoped'
<1>1. ep'[s] = g /\ \A t \in Slots \ {s} : ep'[t] = ep[t]
  BY DEF TypeOK
<1> QED
  BY <1>1 DEF FlagsScoped

\* Only the abort sets transfer_aborted, on the entry it has found, and it clears
\* the flag before it returns.
LEMMA FlagsApi ==
  ASSUME TypeOK, FlagsScoped, ApiCall \/ ApiStep
  PROVE  FlagsScoped'
<1>1. api \in Apis /\ api.slot \in Slots /\ \A s \in Slots : ep[s] \in Endpoints
  BY DEF TypeOK, Apis
<1>2. frame' = frame
  BY CallerLeaves
<1>3. ASSUME ep' = ep, api.pc \notin AbortPcs
      PROVE  FlagsScoped'
  BY <1>2, <1>3 DEF FlagsScoped
<1>4. CASE AddPort \/ PortResetResume
  <2>1. ep' = ep /\ api.pc \notin AbortPcs
    BY <1>4 DEF AddPort, PortResetResume, Calling, AbortPcs
  <2> QED
    BY <1>3, <2>1
<1>5. ASSUME NEW s, NEW p, NEW addr, NEW a,
             \/ PortResetStart(p) \/ PortResetRelease(p) \/ CloseDevice(p, addr)
             \/ AbortTransfer(s, p, addr, a)
      PROVE  FlagsScoped'
  <2>1. ep' = ep /\ api.pc \notin AbortPcs
    BY <1>5 DEF PortResetStart, PortResetRelease, CloseDevice, AbortTransfer, Calling, AbortPcs
  <2> QED
    BY <1>3, <2>1
<1>6. ASSUME NEW s \in Slots, NEW p, NEW addr, SendSetup(s, p, addr)
      PROVE  FlagsScoped'
  <2> DEFINE g == [ep[s] EXCEPT !.ep_num = EP0, !.data_id = USB_PID_SETUP, !.is_tx = TRUE]
  <2>1. /\ ep' = [ep EXCEPT ![s] = g]
        /\ api.pc \notin AbortPcs
    BY <1>6 DEF SendSetup, Calling, AbortPcs
  <2>2. /\ g.transfer_started = ep[s].transfer_started
        /\ g.transfer_aborted = ep[s].transfer_aborted
    BY <1>1 DEF Endpoints
  <2> HIDE DEF g
  <2> QED
    BY <1>2, <2>1, <2>2, FlagsWrite
<1>7. ASSUME NEW s \in Slots, NEW p, NEW addr, NEW d, EndpointOpen(s, p, addr, d)
      PROVE  FlagsScoped'
  <2> DEFINE g == configure_endpoint(ep[s], d)
  <2>1. ep' = [ep EXCEPT ![s] = g] /\ api.pc \notin AbortPcs
    BY <1>7 DEF EndpointOpen, Calling, AbortPcs
  <2>2. /\ g.transfer_started = ep[s].transfer_started
        /\ g.transfer_aborted = ep[s].transfer_aborted
    BY <1>1 DEF Endpoints, configure_endpoint
  <2> HIDE DEF g
  <2> QED
    BY <1>2, <2>1, <2>2, FlagsWrite
<1>8. ASSUME NEW s \in Slots, NEW p, NEW addr, NEW a, EndpointClose(s, p, addr, a)
      PROVE  FlagsScoped'
  <2> DEFINE g == [ep[s] EXCEPT !.size = 0]
  <2>1. ep' = [ep EXCEPT ![s] = g] /\ api.pc \notin AbortPcs
    BY <1>8 DEF EndpointClose, Calling, AbortPcs
  <2>2. /\ g.transfer_started = ep[s].transfer_started
        /\ g.transfer_aborted = ep[s].transfer_aborted
    BY <1>1 DEF Endpoints
  <2> HIDE DEF g
  <2> QED
    BY <1>2, <2>1, <2>2, FlagsWrite
<1>9. ASSUME NEW s \in Slots, NEW p, NEW addr, NEW a, NEW len, EndpointTransfer(s, p, addr, a, len)
      PROVE  FlagsScoped'
  <2> DEFINE g == [ep[s] EXCEPT !.ep_num = a, !.is_tx = ~a.in, !.data_id = 1]
  <2>1. (ep' = [ep EXCEPT ![s] = g] \/ ep' = ep) /\ api.pc \notin AbortPcs
    BY <1>9 DEF EndpointTransfer, Calling, AbortPcs
  <2>2. /\ g.transfer_started = ep[s].transfer_started
        /\ g.transfer_aborted = ep[s].transfer_aborted
    BY <1>1 DEF Endpoints
  <2> HIDE DEF g
  <2> QED
    BY <1>2, <1>3, <2>1, <2>2, FlagsWrite
<1>10. CASE EndpointBind
  <2> DEFINE g == [ep[api.slot] EXCEPT !.root_idx = api.port, !.dev_addr = api.addr,
                                       !.is_tx = ~ep[api.slot].ep_num.in]
  <2>1. ep' = [ep EXCEPT ![api.slot] = g] /\ api.pc \notin AbortPcs
    BY <1>1, <1>10 DEF EndpointBind, AbortPcs, TypeOK
  <2>2. /\ g.transfer_started = ep[api.slot].transfer_started
        /\ g.transfer_aborted = ep[api.slot].transfer_aborted
    BY <1>1 DEF Endpoints
  <2> HIDE DEF g
  <2> QED
    BY <1>1, <1>2, <2>1, <2>2, FlagsWrite
<1>11. CASE CloseDeviceSlot
  <2> DEFINE g == [ep[api.slot] EXCEPT !.size = 0, !.has_transfer = FALSE]
  <2>1. (ep' = [ep EXCEPT ![api.slot] = g] \/ ep' = ep) /\ api.pc \notin AbortPcs
    BY <1>1, <1>11 DEF CloseDeviceSlot, AbortPcs, TypeOK
  <2>2. /\ g.transfer_started = ep[api.slot].transfer_started
        /\ g.transfer_aborted = ep[api.slot].transfer_aborted
    BY <1>1 DEF Endpoints
  <2> HIDE DEF g
  <2> QED
    BY <1>1, <1>2, <1>3, <2>1, <2>2, FlagsWrite
<1>12. CASE TransferFill
  <2> DEFINE g == transfer_fill(ep[api.slot], api.len)
  <2>1. (ep' = [ep EXCEPT ![api.slot] = g] \/ ep' = ep) /\ api.pc \notin AbortPcs
    BY <1>12 DEF TransferFill, AbortPcs
  <2>2. /\ g.transfer_started = ep[api.slot].transfer_started
        /\ g.transfer_aborted = ep[api.slot].transfer_aborted
    BY <1>1 DEF Endpoints, transfer_fill, prepare_tx_data
  <2> HIDE DEF g
  <2> QED
    BY <1>1, <1>2, <1>3, <2>1, <2>2, FlagsWrite
<1>13. CASE TransferPublish
  <2> DEFINE g == transfer_publish(ep[api.slot])
  <2>1. ep' = [ep EXCEPT ![api.slot] = g] /\ api.pc \notin AbortPcs
    BY <1>13 DEF TransferPublish, AbortPcs
  <2>2. ~g.transfer_started /\ ~g.transfer_aborted
    BY <1>1 DEF Endpoints, transfer_publish
  <2> HIDE DEF g
  <2> QED
    BY <1>1, <1>2, <2>1, <2>2, FlagsWrite
<1>14. CASE AbortMark
  <2> DEFINE s == api.slot
             g == [ep[s] EXCEPT !.transfer_aborted = TRUE]
  <2>1. ep' = [ep EXCEPT ![s] = g] /\ api.pc = "abort_mark"
    BY <1>14 DEF AbortMark
  <2>2. api'.pc = "abort_wait" /\ api'.slot = s
    BY <1>1, <1>14 DEF AbortMark, Apis
  <2>3. g.transfer_started = ep[s].transfer_started
    BY <1>1 DEF Endpoints
  <2> HIDE DEF g
  <2>4. ep'[s] = g /\ \A t \in Slots \ {s} : ep'[t] = ep[t]
    BY <1>1, <2>1 DEF TypeOK
  <2> QED
    BY <1>2, <2>1, <2>2, <2>3, <2>4 DEF FlagsScoped, AbortPcs
<1>15. CASE AbortWait \/ AbortRead
  <2>1. ep' = ep /\ api'.pc \in AbortPcs /\ api'.slot = api.slot
    BY <1>1, <1>15 DEF AbortWait, AbortRead, Apis, AbortPcs
  <2> QED
    BY <1>2, <2>1 DEF FlagsScoped
<1>16. CASE AbortClear
  <2> DEFINE s == api.slot
             g == [ep[s] EXCEPT !.has_transfer = FALSE]
  <2>1. ep' = ep \/ ep' = [ep EXCEPT ![s] = g]
    BY <1>16 DEF AbortClear
  <2>2. api'.pc \in AbortPcs /\ api'.slot = s
    BY <1>1, <1>16 DEF AbortClear, Apis, AbortPcs
  <2>3. /\ g.transfer_started = ep[s].transfer_started
        /\ g.transfer_aborted = ep[s].transfer_aborted
    BY <1>1 DEF Endpoints
  <2> HIDE DEF g
  <2>4. \A t \in Slots : /\ ep'[t].transfer_started = ep[t].transfer_started
                        /\ ep'[t].transfer_aborted = ep[t].transfer_aborted
    BY <1>1, <2>1, <2>3 DEF TypeOK
  <2> QED
    BY <1>2, <2>2, <2>4 DEF FlagsScoped
<1>17. CASE AbortDone
  <2> DEFINE s == api.slot
             g == [ep[s] EXCEPT !.transfer_aborted = FALSE]
  <2>1. ep' = [ep EXCEPT ![s] = g]
    BY <1>17 DEF AbortDone
  <2>2. g.transfer_started = ep[s].transfer_started /\ ~g.transfer_aborted
    BY <1>1 DEF Endpoints
  <2> HIDE DEF g
  <2>3. ep'[s] = g /\ \A t \in Slots \ {s} : ep'[t] = ep[t]
    BY <1>1, <2>1 DEF TypeOK
  <2> QED
    BY <1>2, <2>2, <2>3 DEF FlagsScoped
<1>18. CASE ApiCall
  BY <1>4, <1>5, <1>6, <1>7, <1>8, <1>9, <1>18 DEF ApiCall
<1>19. CASE ApiStep
  BY <1>4, <1>10, <1>11, <1>12, <1>13, <1>14, <1>15, <1>16, <1>17, <1>19 DEF ApiStep
<1> QED
  BY <1>18, <1>19

\* transfer_aborted is up only while the abort that raised it is between its
\* first and its last statement, and transfer_started only while the frame
\* handler is in the transaction it guards: neither is ever left behind, on one
\* core or two, whatever calls the stack makes.
THEOREM FlagsNeverLeftBehind == Spec => []FlagsScoped
<1>1. Init => TypeOK /\ FlagsScoped
  <2>1. Init => FlagsScoped
    BY DEF Init, FlagsScoped, UnusedEndpoint
  <2> QED
    BY <2>1, InitType
<1>2. TypeOK /\ FlagsScoped /\ [Next]_vars => (TypeOK /\ FlagsScoped)'
  <2> SUFFICES ASSUME TypeOK, FlagsScoped, [Next]_vars PROVE (TypeOK /\ FlagsScoped)'
    OBVIOUS
  <2>1. TypeOK'
    BY NextType
  <2>2. CASE LineChange \/ UNCHANGED vars
    <3>1. ep' = ep /\ frame' = frame /\ api' = api
      BY <2>2 DEF LineChange, vars
    <3> QED
      BY <2>1, <3>1 DEF FlagsScoped
  <2> QED
    BY <2>1, <2>2, FlagsFrame, FlagsApi DEF Next
<1> QED
  BY <1>1, <1>2, PTL DEF Spec

-----------------------------------------------------------------------------
(* What abort answers, on one core.                                           *)

\* Once abort has marked the entry the frame handler is in no transaction on it and
\* enters none, so what abort has read of has_transfer still holds when it answers,
\* unless the port was lost, and a lost port stays suspended while abort runs.
AbortInv ==
  /\ api.pc \in {"abort_wait", "abort_read", "abort_clear"} =>
       /\ ep[api.slot].transfer_aborted
       /\ frame.pc \in {"start", "txn"} => frame.slot # api.slot
  /\ AnswersAborted => ep[api.slot].has_transfer \/ root[ep[api.slot].root_idx].suspended

\* A suspended port stays so through the frame handler's steps, and a transfer in an
\* entry the handler does not serve only ends with its port suspended.
LEMMA FrameLeavesAborted ==
  ASSUME TypeOK, FrameStep, NEW s \in Slots, ep[s].root_idx \in Ports,
         ep[s].has_transfer => ep[s].size # 0,
         ep[s].has_transfer \/ root[ep[s].root_idx].suspended,
         frame.pc = "txn" => frame.slot # s
  PROVE  ep'[s].has_transfer \/ root'[ep[s].root_idx].suspended
<1> DEFINE q == ep[s].root_idx
<1>1. frame.port \in Ports /\ frame.slot \in Slots /\ ep[s] \in Endpoints
      /\ \A p \in Ports : root[p] \in RootPorts
  BY DEF TypeOK
<1>2. CASE FrameStart \/ SendSof \/ EnterPort \/ VisitLive
  BY <1>2 DEF FrameStart, SendSof, EnterPort, VisitLive
<1>3. CASE ConnectionLost
  <2>1. q = frame.port => root'[q].suspended
    BY <1>1, <1>3 DEF ConnectionLost, TypeOK, RootPorts
  <2>2. q # frame.port => root'[q] = root[q] /\ ep'[s] = ep[s]
    BY <1>1, <1>3 DEF ConnectionLost, TypeOK, Retired
  <2> QED
    BY <2>1, <2>2
<1>4. CASE SkipSlot
  <2> DEFINE g == [ep[frame.slot] EXCEPT !.interval_counter = @ - 1]
  <2>1. (ep' = ep \/ ep' = [ep EXCEPT ![frame.slot] = g]) /\ root' = root
    BY <1>4 DEF SkipSlot
  <2>2. g.has_transfer = ep[frame.slot].has_transfer
    BY <1>1 DEF TypeOK, Endpoints
  <2> HIDE DEF g
  <2> QED
    BY <1>1, <2>1, <2>2 DEF TypeOK
<1>5. CASE StartTransaction
  <2> DEFINE g == [ep[frame.slot] EXCEPT !.transfer_started = TRUE]
  <2>1. ep' = [ep EXCEPT ![frame.slot] = g] /\ root' = root
    BY <1>5 DEF StartTransaction
  <2>2. g.has_transfer = ep[frame.slot].has_transfer
    BY <1>1 DEF TypeOK, Endpoints
  <2> HIDE DEF g
  <2> QED
    BY <1>1, <2>1, <2>2 DEF TypeOK
<1>6. ASSUME NEW reply, NEW n \in Nat,
             SetupTransaction(reply) \/ InTransaction(reply, n) \/ OutTransaction(reply)
      PROVE  ep'[s].has_transfer \/ root'[q].suspended
  <2>1. frame.pc = "txn" /\ root' = root
    BY <1>6 DEF SetupTransaction, InTransaction, OutTransaction, EndTransaction
  <2>2. \A t \in Slots \ {frame.slot} : ep'[t] = ep[t]
    BY <1>6, TransactionServes
  <2> QED
    BY <2>1, <2>2
<1>7. CASE CheckConnect
  <2> DEFINE r == [root[frame.port] EXCEPT
                     !.is_fullspeed = (get_line_state(frame.port) = "FS_IDLE"),
                     !.connected = TRUE, !.suspended = TRUE]
  <2>1. (root' = root \/ root' = [root EXCEPT ![frame.port] = r]) /\ ep' = ep
    BY <1>7 DEF CheckConnect
  <2>2. r.suspended
    BY <1>1 DEF RootPorts
  <2> HIDE DEF r
  <2> QED
    BY <1>1, <2>1, <2>2 DEF TypeOK
<1>8. CASE IrqHandler
  <2> DEFINE r == [root[frame.port] EXCEPT !.event = EventOf(frame.port)]
  <2>1. root' = [root EXCEPT ![frame.port] = r] /\ ep' = ep
    BY <1>8 DEF IrqHandler
  <2>2. r.suspended = root[frame.port].suspended
    BY <1>1 DEF RootPorts
  <2> HIDE DEF r
  <2> QED
    BY <1>1, <2>1, <2>2 DEF TypeOK
<1> QED
  BY <1>2, <1>3, <1>4, <1>5, <1>6, <1>7, <1>8, 0 \in Nat, HostAssumption DEF FrameStep

\* The frame handler enters a transaction by way of VisitLive only.
LEMMA FrameEnters ==
  ASSUME TypeOK, FrameStep, frame'.pc \in {"start", "txn"}
  PROVE  /\ frame'.slot = frame.slot
         /\ frame.pc \in {"start", "txn"} \/ ~ep[frame.slot].transfer_aborted
<1>1. frame \in Frames
  BY DEF TypeOK, Frames
<1>2. \A after \in {"pass", "connect", "irq", "idle"} :
        NextPort(after) => frame'.pc \in {frame.pc, after}
  BY NextPortGoes
<1>3. NextSlot => frame'.pc \notin {"start", "txn"}
  BY NextSlotGoes
<1>4. CASE FrameStart \/ SendSof \/ ConnectionLost \/ CheckConnect \/ IrqHandler
  BY <1>1, <1>2, <1>4 DEF FrameStart, SendSof, ConnectionLost, CheckConnect, IrqHandler, Frames
<1>5. CASE EnterPort
  BY <1>1, <1>2, <1>5 DEF EnterPort, Frames
<1>6. ASSUME NEW reply, NEW n,
             SetupTransaction(reply) \/ InTransaction(reply, n) \/ OutTransaction(reply)
      PROVE  NextSlot
  BY <1>6 DEF SetupTransaction, InTransaction, OutTransaction, EndTransaction
<1>7. CASE VisitLive \/ StartTransaction
  BY <1>1, <1>7 DEF VisitLive, StartTransaction, Frames
<1>8. CASE SkipSlot
  BY <1>3, <1>8 DEF SkipSlot
<1> QED
  BY <1>3, <1>4, <1>5, <1>6, <1>7, <1>8, 0 \in Nat DEF FrameStep

\* So the frame handler keeps what abort relies on.
LEMMA AbortFrame ==
  ASSUME TypeOK, HostInv, AbortInv, FrameStep
  PROVE  AbortInv'
<1> DEFINE s == api.slot
<1>1. s \in Slots /\ ep[s].root_idx \in Ports /\ (ep[s].has_transfer => ep[s].size # 0)
  BY DEF TypeOK, HostInv, CallInv
<1>2. /\ api' = api
      /\ ep'[s].root_idx = ep[s].root_idx
      /\ ep'[s].transfer_aborted = ep[s].transfer_aborted
  BY <1>1, FrameServes DEF Serves, SameEntry
<1>3. ASSUME api.pc \in {"abort_wait", "abort_read", "abort_clear"}, frame'.pc \in {"start", "txn"}
      PROVE  frame'.slot # s
  BY <1>3, FrameEnters DEF AbortInv
<1>4. ASSUME AnswersAborted
      PROVE  ep'[s].has_transfer \/ root'[ep[s].root_idx].suspended
  BY <1>1, <1>4, FrameLeavesAborted DEF AbortInv, AnswersAborted
<1> QED
  BY <1>2, <1>3, <1>4 DEF AbortInv, AnswersAborted

\* Abort marks the entry while the frame handler rests; the other calls do not run
\* beside it.
LEMMA AbortApi ==
  ASSUME SameCore, TypeOK, AbortInv, ApiCall \/ ApiStep
  PROVE  AbortInv'
<1> DEFINE A == {"abort_wait", "abort_read", "abort_clear"}
<1>1. api \in Apis /\ api.slot \in Slots /\ ep[api.slot] \in Endpoints
  BY DEF TypeOK, Apis
<1>2. ASSUME api'.pc \notin A PROVE AbortInv'
  BY <1>2 DEF AbortInv, AnswersAborted
<1>3. CASE ApiCall
  <2>1. CASE AddPort
    BY <1>2, <2>1 DEF AddPort, Calling
  <2>2. ASSUME NEW s, NEW p, NEW addr, NEW a, NEW d, NEW len,
               \/ PortResetRelease(p) \/ CloseDevice(p, addr) \/ SendSetup(s, p, addr)
               \/ EndpointOpen(s, p, addr, d) \/ AbortTransfer(s, p, addr, a)
               \/ EndpointTransfer(s, p, addr, a, len)
        PROVE  api'.pc \in {"reset_resume", "close_device", "submit", "bind", "abort_mark"}
    <3>1. CASE PortResetRelease(p) \/ CloseDevice(p, addr)
      BY <3>1 DEF PortResetRelease, CloseDevice, ApiIdle
    <3>2. CASE SendSetup(s, p, addr)
      BY <3>2 DEF SendSetup, ApiIdle
    <3>3. CASE EndpointOpen(s, p, addr, d)
      BY <3>3 DEF EndpointOpen, ApiIdle
    <3>4. CASE AbortTransfer(s, p, addr, a) \/ EndpointTransfer(s, p, addr, a, len)
      BY <3>4 DEF AbortTransfer, EndpointTransfer, ApiIdle
    <3> QED
      BY <2>2, <3>1, <3>2, <3>3, <3>4
  <2>3. ASSUME NEW s, NEW p, NEW addr, NEW a, PortResetStart(p) \/ EndpointClose(s, p, addr, a)
        PROVE  api'.pc = "idle"
    BY <2>3 DEF PortResetStart, EndpointClose, Calling
  <2> QED
    BY <1>2, <1>3, <2>1, <2>2, <2>3 DEF ApiCall
<1>4. CASE EndpointBind \/ TransferFill \/ TransferPublish \/ PortResetResume \/ AbortDone
  <2>1. api' = ApiIdle \/ api' = [ApiIdle EXCEPT !.pc = "publish", !.slot = api.slot]
    BY <1>4 DEF EndpointBind, TransferFill, TransferPublish, PortResetResume, AbortDone
  <2>2. \A t : [ApiIdle EXCEPT !.pc = "publish", !.slot = t].pc = "publish"
    BY DEF ApiIdle
  <2>3. ApiIdle.pc = "idle"
    BY DEF ApiIdle
  <2>4. api'.pc = "idle" \/ api'.pc = "publish"
    BY <2>1, <2>2, <2>3
  <2> QED
    BY <1>2, <2>4
<1>5. CASE CloseDeviceSlot
  <2>1. api'.pc \notin A
    BY <1>1, <1>5 DEF CloseDeviceSlot, Apis, ApiIdle
  <2> QED
    BY <1>2, <2>1
<1>6. CASE AbortMark
  <2> DEFINE g == [ep[api.slot] EXCEPT !.transfer_aborted = TRUE]
  <2>1. /\ ep' = [ep EXCEPT ![api.slot] = g] /\ frame' = frame /\ frame.pc = "idle"
        /\ api'.pc = "abort_wait" /\ api'.slot = api.slot
    BY <1>1, <1>6 DEF AbortMark, CallerRuns, Apis
  <2>2. g.transfer_aborted
    BY <1>1 DEF Endpoints
  <2> HIDE DEF g
  <2>3. ep'[api.slot] = g
    BY <1>1, <2>1 DEF TypeOK
  <2> QED
    BY <2>1, <2>2, <2>3 DEF AbortInv, AnswersAborted
<1>7. CASE AbortWait \/ AbortRead
  <2>1. /\ ep' = ep /\ frame' = frame /\ root' = root /\ api'.slot = api.slot
        /\ api.pc \in A
        /\ api'.pc = "abort_clear" /\ api'.still => ep[api.slot].has_transfer
    BY <1>1, <1>7 DEF AbortWait, AbortRead, Apis
  <2> QED
    BY <2>1 DEF AbortInv, AnswersAborted
<1>8. CASE AbortClear
  <2>1. api'.pc \notin A
    BY <1>1, <1>8 DEF AbortClear, Apis
  <2> QED
    BY <1>2, <2>1
<1>9. CASE ApiStep
  BY <1>4, <1>5, <1>6, <1>7, <1>8, <1>9 DEF ApiStep
<1> QED
  BY <1>3, <1>9

\* On one core and with a disciplined stack, abort says "aborted" only of a transfer
\* that has had no other outcome, whatever transaction it preempted or was preempted
\* by; only the loss of the port in between can have raised an error for it as well.
THEOREM AbortsAnswerOnce ==
  ASSUME SameCore, Disciplined
  PROVE  Spec => []AbortedOnce
<1>1. Init => TypeOK /\ HostInv /\ AbortInv
  <2>1. Init => AbortInv
    BY DEF Init, AbortInv, AnswersAborted, ApiIdle
  <2> QED
    BY <2>1, InitType, InitInv
<1>2. TypeOK /\ HostInv /\ AbortInv /\ [Next]_vars => (TypeOK /\ HostInv /\ AbortInv)'
  <2> SUFFICES ASSUME TypeOK, HostInv, AbortInv, [Next]_vars
               PROVE  (TypeOK /\ HostInv /\ AbortInv)'
    OBVIOUS
  <2>1. TypeOK' /\ HostInv'
    BY NextType, NextInv
  <2>2. CASE LineChange \/ UNCHANGED vars
    <3>1. ep' = ep /\ root' = root /\ frame' = frame /\ api' = api
      BY <2>2 DEF LineChange, vars
    <3> QED
      BY <2>1, <3>1 DEF AbortInv, AnswersAborted
  <2> QED
    BY <2>1, <2>2, AbortFrame, AbortApi DEF Next
<1>3. TypeOK /\ HostInv /\ AbortInv => AbortedOnce
  BY DEF TypeOK, HostInv, Accounted, Account, AbortInv, AbortedOnce
<1> QED
  BY <1>1, <1>2, <1>3, PTL DEF Spec

-----------------------------------------------------------------------------
(* One endpoint per address, on one core or two and whatever the caller does. *)

\* _find_ep's comparison of two endpoint addresses.
SameNumber(a, b) == a = b \/ (a.num = 0 /\ b.num = 0)

\* Two open endpoints answer to one address of one device.
Conflict(e, f) ==
  /\ e.size # 0 /\ f.size # 0
  /\ e.root_idx = f.root_idx /\ e.dev_addr = f.dev_addr
  /\ SameNumber(e.ep_num, f.ep_num)

\* Only the entry that endpoint_open has configured and not yet bound may answer
\* to the address of another, the one its pool entry was left with; and no entry
\* answers to the address it is about to be bound to.
AddressInv ==
  /\ \A s, t \in Slots : s # t /\ Conflict(ep[s], ep[t]) => api.pc = "bind" /\ api.slot \in {s, t}
  /\ api.pc = "bind" =>
       \A t \in Slots \ {api.slot} : ~Matches(ep[t], api.port, api.addr, ep[api.slot].ep_num)

\* f answers to no address that e does not answer to.
Narrows(e, f) ==
  f.size # 0 => /\ e.size # 0 /\ f.root_idx = e.root_idx /\ f.dev_addr = e.dev_addr
                /\ SameNumber(e.ep_num, f.ep_num)

\* A step that gives no entry a new address, outside endpoint_open, adds no conflict.
LEMMA AddressNarrows ==
  ASSUME AddressInv, api.pc # "bind", api'.pc # "bind",
         \A s \in Slots : Narrows(ep[s], ep'[s])
  PROVE  AddressInv'
<1>1. ASSUME NEW s \in Slots, NEW t \in Slots, Conflict(ep'[s], ep'[t])
      PROVE  Conflict(ep[s], ep[t])
  <2>1. Narrows(ep[s], ep'[s]) /\ Narrows(ep[t], ep'[t])
    OBVIOUS
  <2> QED
    BY <1>1, <2>1 DEF Narrows, Conflict, SameNumber
<1> QED
  BY <1>1 DEF AddressInv

\* The frame handler changes no address.
LEMMA AddressFrame ==
  ASSUME TypeOK, AddressInv, api' = api,
         \A s \in Slots : SameEntry(ep[s], ep'[s])
  PROVE  AddressInv'
<1>1. api.slot \in Slots
  BY DEF TypeOK
<1>2. \A s \in Slots : /\ ep'[s].size = ep[s].size /\ ep'[s].ep_num = ep[s].ep_num
                     /\ ep'[s].root_idx = ep[s].root_idx /\ ep'[s].dev_addr = ep[s].dev_addr
  BY DEF SameEntry
<1>3. \A s, t \in Slots : Conflict(ep[s], ep[t])' <=> Conflict(ep[s], ep[t])
  BY <1>2 DEF Conflict
<1>4. ASSUME NEW t \in Slots
      PROVE  Matches(ep'[t], api.port, api.addr, ep'[api.slot].ep_num)
               <=> Matches(ep[t], api.port, api.addr, ep[api.slot].ep_num)
  BY <1>1, <1>2 DEF Matches
<1> QED
  BY <1>3, <1>4 DEF AddressInv

\* A call that writes one entry and gives it no new address.
LEMMA AddressWrite ==
  ASSUME TypeOK, AddressInv, api.pc # "bind", api'.pc # "bind",
         NEW s \in Slots, NEW g, ep' = [ep EXCEPT ![s] = g] \/ ep' = ep, Narrows(ep[s], g)
  PROVE  AddressInv'
<1>1. \A t \in Slots : ep'[t] = ep[t] \/ (t = s /\ ep'[t] = g)
  BY DEF TypeOK
<1>2. \A t \in Slots : Narrows(ep[t], ep[t])
  BY DEF Narrows, SameNumber
<1>3. \A t \in Slots : Narrows(ep[t], ep'[t])
  BY <1>1, <1>2
<1> QED
  BY <1>3, AddressNarrows

\* endpoint_open refuses an address that is already open, and it takes an entry
\* that is not in use.
LEMMA AddressOpen ==
  ASSUME TypeOK, AddressInv, NEW s \in Slots, NEW p, NEW addr, NEW d \in Descs,
         EndpointOpen(s, p, addr, d)
  PROVE  AddressInv'
<1> DEFINE g == configure_endpoint(ep[s], d)
<1>1. ep[s] \in Endpoints
  BY DEF TypeOK
<1>2. ep' = [ep EXCEPT ![s] = g] /\ api.pc = "idle" /\ Found(p, addr, d.epaddr) = {}
  BY DEF EndpointOpen, Calling
<1>3. api'.pc = "bind" /\ api'.slot = s /\ api'.port = p /\ api'.addr = addr
  BY DEF EndpointOpen, ApiIdle
<1>4. g.ep_num = d.epaddr
  BY <1>1 DEF configure_endpoint, Endpoints
<1> HIDE DEF g
<1>5. ep'[s] = g /\ \A t \in Slots \ {s} : ep'[t] = ep[t]
  BY <1>2 DEF TypeOK
<1>6. \A t \in Slots : ~Matches(ep[t], p, addr, d.epaddr)
  BY <1>2 DEF Found
<1>7. \A t \in Slots \ {s} : ~Matches(ep'[t], p, addr, ep'[s].ep_num)
  BY <1>4, <1>5, <1>6
<1>8. ASSUME NEW t \in Slots, NEW u \in Slots, t # u, Conflict(ep'[t], ep'[u])
      PROVE  s \in {t, u}
  <2>1. SUFFICES ASSUME t # s, u # s PROVE FALSE
    OBVIOUS
  <2>2. Conflict(ep[t], ep[u])
    BY <1>5, <1>8, <2>1
  <2> QED
    BY <1>2, <1>8, <2>2 DEF AddressInv
<1> QED
  BY <1>3, <1>7, <1>8 DEF AddressInv

\* Once bound, the new entry is the only one at its address.
LEMMA AddressBind ==
  ASSUME TypeOK, AddressInv, EndpointBind
  PROVE  AddressInv'
<1> DEFINE s == api.slot
           g == [ep[s] EXCEPT !.root_idx = api.port, !.dev_addr = api.addr,
                              !.is_tx = ~ep[s].ep_num.in]
<1>1. s \in Slots /\ ep[s] \in Endpoints
  BY DEF TypeOK
<1>2. ep' = [ep EXCEPT ![s] = g] /\ api.pc = "bind" /\ api'.pc = "idle"
  BY <1>1 DEF EndpointBind, TypeOK, ApiIdle
<1>3. g.root_idx = api.port /\ g.dev_addr = api.addr /\ g.ep_num = ep[s].ep_num
  BY <1>1 DEF Endpoints
<1> HIDE DEF g
<1>4. ep'[s] = g /\ \A t \in Slots \ {s} : ep'[t] = ep[t]
  BY <1>1, <1>2 DEF TypeOK
<1>5. ASSUME NEW t \in Slots \ {s} PROVE ~Conflict(g, ep[t]) /\ ~Conflict(ep[t], g)
  <2>1. ~Matches(ep[t], api.port, api.addr, ep[s].ep_num)
    BY <1>2 DEF AddressInv
  <2> QED
    BY <1>3, <2>1 DEF Matches, Conflict, SameNumber
<1>6. ASSUME NEW t \in Slots, NEW u \in Slots, t # u, Conflict(ep'[t], ep'[u])
      PROVE  FALSE
  <2>1. t # s /\ u # s
    BY <1>4, <1>5, <1>6
  <2>2. Conflict(ep[t], ep[u])
    BY <1>4, <1>6, <2>1
  <2> QED
    BY <1>6, <2>1, <2>2 DEF AddressInv
<1> QED
  BY <1>2, <1>6 DEF AddressInv

\* The other calls leave every entry at its address, close it, or turn a control
\* endpoint round, which leaves it at address 0.
LEMMA AddressApi ==
  ASSUME TypeOK, AddressInv, ApiCall \/ ApiStep
  PROVE  AddressInv'
<1>1. api \in Apis /\ api.slot \in Slots /\ \A s \in Slots : ep[s] \in Endpoints
  BY DEF TypeOK, Apis
<1>2. ASSUME NEW e PROVE Narrows(e, e)
  BY DEF Narrows, SameNumber
<1>3. CASE AddPort \/ PortResetResume \/ AbortWait \/ AbortRead
  <2>1. ep' = ep /\ api.pc # "bind"
    BY <1>3 DEF AddPort, PortResetResume, AbortWait, AbortRead, Calling
  <2>2. CASE AddPort
    BY <1>2, <2>1, <2>2, AddressNarrows DEF AddPort
  <2>3. CASE PortResetResume \/ AbortWait \/ AbortRead
    <3>1. api'.pc # "bind"
      <4>1. CASE PortResetResume
        BY <4>1 DEF PortResetResume, ApiIdle
      <4>2. CASE AbortWait
        BY <1>1, <4>2 DEF AbortWait, Apis
      <4>3. CASE AbortRead
        BY <1>1, <4>3 DEF AbortRead, Apis
      <4> QED
        BY <2>3, <4>1, <4>2, <4>3
    <3> QED
      BY <1>2, <2>1, <3>1, AddressNarrows
  <2> QED
    BY <1>3, <2>2, <2>3
<1>4. ASSUME NEW s, NEW p, NEW addr, NEW a,
             \/ PortResetStart(p) \/ PortResetRelease(p) \/ CloseDevice(p, addr)
             \/ AbortTransfer(s, p, addr, a)
      PROVE  AddressInv'
  <2>1. ep' = ep /\ api.pc # "bind" /\ api'.pc # "bind"
    BY <1>1, <1>4 DEF PortResetStart, PortResetRelease, CloseDevice, AbortTransfer, Calling,
                      ApiIdle
  <2> QED
    BY <1>2, <2>1, AddressNarrows
<1>5. ASSUME NEW s \in Slots, NEW p \in Ports, NEW addr, SendSetup(s, p, addr)
      PROVE  AddressInv'
  <2> DEFINE g == [ep[s] EXCEPT !.ep_num = EP0, !.data_id = USB_PID_SETUP, !.is_tx = TRUE]
  <2>1. ep' = [ep EXCEPT ![s] = g] /\ api.pc # "bind" /\ api'.pc # "bind"
    BY <1>5 DEF SendSetup, Calling, ApiIdle
  <2>2. ep[s].ep_num.num = 0
    BY <1>5 DEF SendSetup, IsFirst, Found, Matches, EP0
  <2>3. Narrows(ep[s], g)
    BY <1>1, <2>2 DEF Narrows, SameNumber, EP0, Endpoints
  <2> HIDE DEF g
  <2> QED
    BY <2>1, <2>3, AddressWrite
<1>6. ASSUME NEW s \in Slots, NEW p, NEW addr, NEW a, EndpointClose(s, p, addr, a)
      PROVE  AddressInv'
  <2> DEFINE g == [ep[s] EXCEPT !.size = 0]
  <2>1. ep' = [ep EXCEPT ![s] = g] /\ api.pc # "bind" /\ api'.pc # "bind"
    BY <1>6 DEF EndpointClose, Calling
  <2>2. Narrows(ep[s], g)
    BY <1>1 DEF Narrows, Endpoints
  <2> HIDE DEF g
  <2> QED
    BY <2>1, <2>2, AddressWrite
<1>7. ASSUME NEW s \in Slots, NEW p, NEW addr, NEW a, NEW len, EndpointTransfer(s, p, addr, a, len)
      PROVE  AddressInv'
  <2> DEFINE g == [ep[s] EXCEPT !.ep_num = a, !.is_tx = ~a.in, !.data_id = 1]
  <2>1. /\ IF a.num = 0 THEN ep' = [ep EXCEPT ![s] = g] ELSE ep' = ep
        /\ api.pc # "bind" /\ api'.pc # "bind"
    BY <1>7 DEF EndpointTransfer, Calling, ApiIdle
  <2>2. CASE a.num = 0
    <3>1. ep[s].ep_num = a \/ ep[s].ep_num.num = 0
      BY <1>7 DEF EndpointTransfer, IsFirst, Found, Matches
    <3>2. Narrows(ep[s], g)
      BY <1>1, <2>2, <3>1 DEF Narrows, SameNumber, Endpoints
    <3> HIDE DEF g
    <3> QED
      BY <2>1, <2>2, <3>2, AddressWrite
  <2>3. CASE a.num # 0
    BY <1>2, <2>1, <2>3, AddressNarrows
  <2> QED
    BY <2>2, <2>3
<1>8. CASE CloseDeviceSlot
  <2> DEFINE g == [ep[api.slot] EXCEPT !.size = 0, !.has_transfer = FALSE]
  <2>1. /\ ep' = [ep EXCEPT ![api.slot] = g] \/ ep' = ep
        /\ api.pc # "bind" /\ api'.pc # "bind"
    BY <1>1, <1>8 DEF CloseDeviceSlot, TypeOK, Apis, ApiIdle
  <2>2. Narrows(ep[api.slot], g)
    BY <1>1 DEF Narrows, Endpoints
  <2> HIDE DEF g
  <2> QED
    BY <1>1, <2>1, <2>2, AddressWrite
<1>9. CASE TransferFill
  <2> DEFINE g == transfer_fill(ep[api.slot], api.len)
  <2>1. /\ ep' = [ep EXCEPT ![api.slot] = g] \/ ep' = ep
        /\ api.pc # "bind" /\ api'.pc # "bind"
    <3>1. api' = ApiIdle \/ api' = [ApiIdle EXCEPT !.pc = "publish", !.slot = api.slot]
      BY <1>9 DEF TransferFill
    <3>2. /\ ApiIdle.pc = "idle"
          /\ [ApiIdle EXCEPT !.pc = "publish", !.slot = api.slot].pc = "publish"
      BY IdleTypes DEF ApiIdle, Apis
    <3>3. api'.pc # "bind"
      BY <3>1, <3>2
    <3> QED
      BY <1>9, <3>3 DEF TransferFill
  <2>2. /\ g.size = ep[api.slot].size /\ g.root_idx = ep[api.slot].root_idx
        /\ g.dev_addr = ep[api.slot].dev_addr /\ g.ep_num = ep[api.slot].ep_num
    BY <1>1 DEF Endpoints, transfer_fill, prepare_tx_data
  <2> HIDE DEF g
  <2>3. Narrows(ep[api.slot], g)
    BY <2>2 DEF Narrows, SameNumber
  <2> QED
    BY <1>1, <2>1, <2>3, AddressWrite
<1>10. CASE TransferPublish
  <2> DEFINE g == transfer_publish(ep[api.slot])
  <2>1. ep' = [ep EXCEPT ![api.slot] = g] /\ api.pc # "bind" /\ api'.pc # "bind"
    BY <1>1, <1>10 DEF TransferPublish, Apis, ApiIdle
  <2>2. Narrows(ep[api.slot], g)
    BY <1>1 DEF Narrows, SameNumber, Endpoints, transfer_publish
  <2> HIDE DEF g
  <2> QED
    BY <1>1, <2>1, <2>2, AddressWrite
<1>11. CASE AbortMark \/ AbortClear \/ AbortDone
  <2> DEFINE e == ep[api.slot]
  <2>1. PICK g \in {[e EXCEPT !.transfer_aborted = TRUE], [e EXCEPT !.has_transfer = FALSE],
                    [e EXCEPT !.transfer_aborted = FALSE]} :
          ep' = [ep EXCEPT ![api.slot] = g] \/ ep' = ep
    BY <1>11 DEF AbortMark, AbortClear, AbortDone
  <2>2. api.pc # "bind" /\ api'.pc # "bind"
    BY <1>1, <1>11 DEF AbortMark, AbortClear, AbortDone, Apis, ApiIdle
  <2>3. Narrows(e, g)
    BY <1>1, <2>1 DEF Narrows, SameNumber, Endpoints
  <2> QED
    BY <1>1, <2>1, <2>2, <2>3, AddressWrite
<1>12. CASE ApiCall
  BY <1>3, <1>4, <1>5, <1>6, <1>7, <1>12, AddressOpen DEF ApiCall
<1>13. CASE ApiStep
  BY <1>3, <1>8, <1>9, <1>10, <1>11, <1>13, AddressBind DEF ApiStep
<1> QED
  BY <1>12, <1>13

\* The address table in every reachable state.
LEMMA AddressInvariant == Spec => [](TypeOK /\ AddressInv)
<1>1. Init => TypeOK /\ AddressInv
  <2>1. Init => AddressInv
    BY DEF Init, AddressInv, Conflict, UnusedEndpoint, ApiIdle
  <2> QED
    BY <2>1, InitType
<1>2. TypeOK /\ AddressInv /\ [Next]_vars => (TypeOK /\ AddressInv)'
  <2> SUFFICES ASSUME TypeOK, AddressInv, [Next]_vars PROVE (TypeOK /\ AddressInv)'
    OBVIOUS
  <2>1. TypeOK'
    BY NextType
  <2>2. CASE FrameStep
    BY <2>1, <2>2, FrameServes, AddressFrame DEF Serves
  <2>3. CASE LineChange \/ UNCHANGED vars
    <3>1. ep' = ep /\ api' = api
      BY <2>3 DEF LineChange, vars
    <3>2. \A s \in Slots : SameEntry(ep[s], ep'[s])
      BY <3>1 DEF SameEntry
    <3> QED
      BY <2>1, <3>1, <3>2, AddressFrame
  <2> QED
    BY <2>1, <2>2, <2>3, AddressApi DEF Next
<1> QED
  BY <1>1, <1>2, PTL DEF Spec

\* No two open endpoints ever answer to one address of one device, except inside
\* endpoint_open itself: the first match of _find_ep is the only one, and a call
\* about one endpoint never lands on another, on one core or two.
THEOREM AddressesUnique == Spec => []OneSlotPerAddress
<1>1. TypeOK /\ AddressInv => OneSlotPerAddress
  <2> SUFFICES ASSUME TypeOK, AddressInv, api.pc # "bind",
                      NEW p \in Ports, NEW addr \in DevAddrs, NEW a \in EpAddresses
               PROVE  Cardinality(Found(p, addr, a)) <= 1
    BY DEF OneSlotPerAddress
  <2> DEFINE S == Found(p, addr, a)
  <2>1. ASSUME NEW s \in S, NEW t \in S PROVE s = t
    <3>1. s \in Slots /\ t \in Slots /\ Matches(ep[s], p, addr, a) /\ Matches(ep[t], p, addr, a)
      BY <2>1 DEF Found
    <3>2. Conflict(ep[s], ep[t])
      BY <3>1 DEF Matches, Conflict, SameNumber
    <3> QED
      BY <3>1, <3>2 DEF AddressInv
  <2> HIDE DEF S
  <2>2. CASE S = {}
    BY <2>2, FS_EmptySet DEF S
  <2>3. CASE S # {}
    <3>1. PICK s \in S : TRUE
      BY <2>3
    <3>2. S = {s}
      BY <2>1, <3>1
    <3>3. Cardinality(S) = 1
      BY <3>2, FS_Singleton
    <3> QED
      BY <3>3 DEF S
  <2> QED
    BY <2>2, <2>3
<1> QED
  BY <1>1, AddressInvariant, PTL

-----------------------------------------------------------------------------
(* What the stack is told of a port, on one core or two.                      *)

\* A "connect", reported or on its way, is of a device that is still there, or
\* the "disconnect" that overrides it is on its way too; and the interrupt loop
\* leaves no disconnect behind.
EventInv ==
  /\ \A p \in Ports :
       root[p].event = "connect" \/ "connect" \in ints[p]
         => root[p].connected \/ "disconnect" \in ints[p]
  /\ frame.pc = "idle" => \A p \in Ports : "disconnect" \notin ints[p]
  /\ frame.pc = "irq" => \A p \in Ports : p < frame.port => "disconnect" \notin ints[p]

\* No transaction raises a port event.
LEMMA EventTransaction ==
  ASSUME TypeOK, EventInv, NEW reply, NEW n,
         SetupTransaction(reply) \/ InTransaction(reply, n) \/ OutTransaction(reply)
  PROVE  EventInv'
<1>1. \E e, flag : EndTransaction(frame.slot, e, flag)
               /\ flag \in {"none", "complete", "stalled", "error"}
  <2>1. CASE SetupTransaction(reply)
    BY <2>1 DEF SetupTransaction, FailedFlag
  <2>2. CASE InTransaction(reply, n)
    BY <2>2 DEF InTransaction, FailedFlag, ContinueFlag, DataPids
  <2>3. CASE OutTransaction(reply)
    BY <2>3 DEF OutTransaction, FailedFlag, ContinueFlag
  <2> QED
    BY <2>1, <2>2, <2>3
<1>2. PICK e, flag : /\ EndTransaction(frame.slot, e, flag)
                     /\ flag \in {"none", "complete", "stalled", "error"}
  BY <1>1
<1>3. root' = root /\ frame'.pc \notin {"idle", "irq"}
  BY <1>2, NextSlotGoes DEF EndTransaction
<1>4. ASSUME NEW p \in Ports, NEW i \in {"connect", "disconnect"}
      PROVE  i \in ints'[p] <=> i \in ints[p]
  <2>1. CASE flag = "none"
    BY <1>2, <2>1 DEF EndTransaction
  <2>2. CASE flag # "none"
    <3> DEFINE q == ep[frame.slot].root_idx
    <3>1. ints' = [ints EXCEPT ![q] = ints[q] \cup {flag}]
      BY <1>2, <2>2 DEF EndTransaction, RaiseFlag
    <3> HIDE DEF q
    <3>2. ints'[p] = ints[p] \/ ints'[p] = ints[p] \cup {flag}
      BY <3>1 DEF TypeOK
    <3>3. i # flag
      BY <1>2
    <3> QED
      BY <3>2, <3>3
  <2> QED
    BY <2>1, <2>2
<1> QED
  BY <1>3, <1>4 DEF EventInv

\* The handler of port p reports what its bits say and clears them.
LEMMA EventIrq ==
  ASSUME TypeOK, EventInv, IrqHandler
  PROVE  EventInv'
<1> DEFINE p == frame.port
           r == [root[p] EXCEPT !.event = EventOf(p)]
<1>1. p \in Ports /\ root[p] \in RootPorts
  BY DEF TypeOK
<1>2. root' = [root EXCEPT ![p] = r] /\ ints' = [ints EXCEPT ![p] = {}] /\ frame.pc = "irq"
  BY DEF IrqHandler
<1>3. r.connected = root[p].connected /\ r.event = EventOf(p)
  BY <1>1 DEF RootPorts
<1>4. EventOf(p) = "connect" => root[p].connected
  BY <1>1 DEF EventOf, EventInv
<1> HIDE DEF r
<1>5. /\ root'[p] = r /\ ints'[p] = {}
      /\ \A q \in Ports \ {p} : root'[q] = root[q] /\ ints'[q] = ints[q]
  BY <1>1, <1>2 DEF TypeOK
<1>6. /\ frame'.pc \in {"irq", "idle"}
      /\ frame'.pc = "irq" => frame'.port = p + 1
      /\ frame'.pc = "idle" => p + 1 >= PortCnt
  BY <1>2, NextPortGoes DEF IrqHandler
<1>7. \A q \in Ports : q < p \/ q = p => "disconnect" \notin ints'[q]
  BY <1>2, <1>5 DEF EventInv
<1>8. \A q \in Ports : q \in Int /\ q < PortCnt /\ p \in Int /\ PortCnt \in Int
  BY <1>1, HostAssumption DEF Ports
<1> HIDE DEF p
<1>9. frame'.pc = "idle" => \A q \in Ports : "disconnect" \notin ints'[q]
  BY <1>6, <1>7, <1>8
<1>10. frame'.pc = "irq" => \A q \in Ports : q < frame'.port => "disconnect" \notin ints'[q]
  BY <1>6, <1>7, <1>8
<1>11. ASSUME NEW q \in Ports
       PROVE  root'[q].event = "connect" \/ "connect" \in ints'[q]
                => root'[q].connected \/ "disconnect" \in ints'[q]
  <2>1. CASE q = p
    BY <1>3, <1>4, <1>5, <2>1
  <2>2. CASE q # p
    BY <1>5, <2>2 DEF EventInv
  <2> QED
    BY <2>1, <2>2
<1> QED
  BY <1>9, <1>10, <1>11 DEF EventInv

\* connection_check raises "disconnect" in the step that takes the port down, and
\* the connect check "connect" in the step that takes it up.
LEMMA EventFrame ==
  ASSUME TypeOK, EventInv, FrameStep
  PROVE  EventInv'
<1>1. frame.port \in Ports /\ root[frame.port] \in RootPorts
  BY DEF TypeOK
<1>2. CASE FrameStart \/ VisitLive \/ StartTransaction
  <2>1. frame'.pc \notin {"idle", "irq"} /\ root' = root /\ ints' = ints
    BY <1>2 DEF FrameStart, VisitLive, StartTransaction, TypeOK
  <2> QED
    BY <2>1 DEF EventInv
<1>3. CASE SendSof
  <2>1. frame'.pc \notin {"idle", "irq"}
    BY <1>3, NextPortGoes DEF SendSof
  <2> QED
    BY <1>3, <2>1 DEF EventInv, SendSof
<1>4. CASE EnterPort
  <2>1. frame'.pc \notin {"idle", "irq"}
    <3>1. CASE Operating(frame.port)
      BY <1>4, <3>1 DEF EnterPort, TypeOK
    <3>2. CASE ~Operating(frame.port)
      BY <1>4, <3>2, NextPortGoes DEF EnterPort
    <3> QED
      BY <3>1, <3>2
  <2> QED
    BY <1>4, <2>1 DEF EventInv, EnterPort
<1>5. CASE SkipSlot
  <2>1. frame'.pc \notin {"idle", "irq"}
    BY <1>5, NextSlotGoes DEF SkipSlot
  <2> QED
    BY <1>5, <2>1 DEF EventInv, SkipSlot
<1>6. CASE ConnectionLost
  <2> DEFINE p == frame.port
  <2>1. frame'.pc \notin {"idle", "irq"}
    BY <1>6, NextPortGoes DEF ConnectionLost
  <2>2. \A q \in Ports \ {p} : root'[q] = root[q] /\ ints'[q] = ints[q]
    BY <1>6 DEF ConnectionLost, TypeOK
  <2>3. "disconnect" \in ints'[p]
    BY <1>1, <1>6 DEF ConnectionLost, TypeOK
  <2> QED
    BY <2>1, <2>2, <2>3 DEF EventInv
<1>7. CASE CheckConnect
  <2> DEFINE p == frame.port
             l == get_line_state(p)
             r == [root[p] EXCEPT !.is_fullspeed = (l = "FS_IDLE"), !.connected = TRUE,
                                  !.suspended = TRUE]
  <2>1. /\ frame.pc = "connect" /\ frame'.pc \in {"connect", "irq"}
        /\ frame'.pc = "irq" => frame'.port = 0
    BY <1>7, NextPortGoes DEF CheckConnect
  <2>2. CASE root' = root /\ ints' = ints
    <3>1. \A q \in Ports : ~(q < 0)
      BY HostAssumption DEF Ports
    <3> QED
      BY <2>1, <2>2, <3>1 DEF EventInv
  <2>3. CASE ~(root' = root /\ ints' = ints)
    <3>1. root' = [root EXCEPT ![p] = r] /\ ints' = [ints EXCEPT ![p] = ints[p] \cup {"connect"}]
      BY <1>1, <1>7, <2>3 DEF CheckConnect, TypeOK
    <3>2. r.connected
      BY <1>1 DEF RootPorts
    <3> HIDE DEF r
    <3>3. root'[p] = r /\ \A q \in Ports \ {p} : root'[q] = root[q] /\ ints'[q] = ints[q]
      BY <1>1, <3>1 DEF TypeOK
    <3>4. \A q \in Ports : ~(q < 0)
      BY HostAssumption DEF Ports
    <3> QED
      BY <2>1, <3>2, <3>3, <3>4 DEF EventInv
  <2> QED
    BY <2>2, <2>3
<1>8. ASSUME NEW reply, NEW n,
             SetupTransaction(reply) \/ InTransaction(reply, n) \/ OutTransaction(reply)
      PROVE  EventInv'
  BY <1>8, EventTransaction
<1> QED
  BY <1>2, <1>3, <1>4, <1>5, <1>6, <1>7, <1>8, EventIrq DEF FrameStep

\* Between two frames a port whose last event is "connect" has a device: a
\* disconnect found in a frame is reported by the end of that frame and always
\* overrides an earlier connect, on one core or two.
THEOREM ConnectEventsCurrent == Spec => []ConnectEventCurrent
<1>1. Init => TypeOK /\ EventInv
  <2>1. Init => EventInv
    BY DEF Init, EventInv, FrameIdle
  <2> QED
    BY <2>1, InitType
<1>2. TypeOK /\ EventInv /\ [Next]_vars => (TypeOK /\ EventInv)'
  <2> SUFFICES ASSUME TypeOK, EventInv, [Next]_vars PROVE (TypeOK /\ EventInv)'
    OBVIOUS
  <2>1. TypeOK'
    BY NextType
  <2>2. CASE ApiCall \/ ApiStep
    BY <2>1, <2>2, CallerLeaves DEF EventInv
  <2>3. CASE LineChange \/ UNCHANGED vars
    <3>1. root' = root /\ ints' = ints /\ frame' = frame
      BY <2>3 DEF LineChange, vars
    <3> QED
      BY <2>1, <3>1 DEF EventInv
  <2> QED
    BY <2>1, <2>2, <2>3, EventFrame DEF Next
<1>3. EventInv => ConnectEventCurrent
  BY DEF EventInv, ConnectEventCurrent
<1> QED
  BY <1>1, <1>2, <1>3, PTL DEF Spec

-----------------------------------------------------------------------------
(* The progress of a transfer: one core, disciplined stack.                   *)

\* Every queued transfer is healthy, and so is the one that is filled in and not
\* yet published.
TransferInv ==
  /\ \A s \in Slots : ep[s].has_transfer => Healthy(ep[s])
  /\ api.pc = "publish" => Healthy(ep[api.slot])

\* The frame handler leaves the transfer of an endpoint it has none for alone,
\* which the caller may be filling in.
LEMMA FrameSpares ==
  ASSUME TypeOK, HandlerInv, FrameStep, NEW s \in Slots, ~ep[s].has_transfer
  PROVE  SameTransfer(ep[s], ep'[s])
<1>1. frame.slot \in Slots /\ ep[s] \in Endpoints /\ ep[frame.slot] \in Endpoints
  BY DEF TypeOK
<1>2. CASE ep'[s] = ep[s]
  BY <1>2 DEF SameTransfer, SameEntry
<1>3. CASE FrameStart \/ SendSof \/ EnterPort \/ VisitLive \/ CheckConnect \/ IrqHandler
  BY <1>2, <1>3 DEF FrameStart, SendSof, EnterPort, VisitLive, CheckConnect, IrqHandler
<1>4. CASE ConnectionLost
  <2>1. s \notin Retired(frame.port)
    BY DEF Retired
  <2> QED
    BY <1>2, <1>4, <2>1 DEF ConnectionLost
<1>5. CASE SkipSlot
  <2> DEFINE g == [ep[frame.slot] EXCEPT !.interval_counter = @ - 1]
  <2>1. ep' = ep \/ ep' = [ep EXCEPT ![frame.slot] = g]
    BY <1>5 DEF SkipSlot
  <2>2. SameTransfer(ep[frame.slot], g)
    BY <1>1 DEF SameTransfer, SameEntry, Endpoints
  <2> HIDE DEF g
  <2>3. ep'[s] = ep[s] \/ (s = frame.slot /\ ep'[s] = g)
    BY <2>1 DEF TypeOK
  <2> QED
    BY <1>2, <2>2, <2>3
<1>6. CASE frame.pc \in {"start", "txn"}
  <2>1. ep[frame.slot].has_transfer
    BY <1>6 DEF HandlerInv
  <2>2. CASE StartTransaction
    BY <1>2, <2>1, <2>2 DEF StartTransaction, TypeOK
  <2>3. ASSUME NEW reply, NEW n \in Nat,
               SetupTransaction(reply) \/ InTransaction(reply, n) \/ OutTransaction(reply)
        PROVE  ep'[s] = ep[s]
    BY <2>1, <2>3, TransactionServes
  <2> QED
    BY <1>2, <1>3, <1>4, <1>5, <2>2, <2>3, 0 \in Nat, HostAssumption DEF FrameStep
<1>7. CASE frame.pc \notin {"start", "txn"}
  BY <1>3, <1>4, <1>5, <1>7 DEF FrameStep, StartTransaction, SetupTransaction, InTransaction,
                               OutTransaction
<1> QED
  BY <1>6, <1>7

\* A transfer stays healthy through every step of the frame handler.
LEMMA TransferFrame ==
  ASSUME TypeOK, HostInv, TransferInv, FrameStep
  PROVE  TransferInv'
<1>1. api' = api /\ \A s \in Slots : Serves(ep[s], ep'[s])
  BY FrameServes
<1>2. \A s \in Slots : ep'[s].has_transfer => Healthy(ep'[s])
  BY <1>1 DEF TransferInv, Serves
<1>3. ASSUME api.pc = "publish" PROVE Healthy(ep'[api.slot])
  <2>1. api.slot \in Slots /\ ~ep[api.slot].has_transfer /\ Healthy(ep[api.slot])
    BY <1>3 DEF TypeOK, HostInv, CallInv, TransferInv
  <2>2. SameTransfer(ep[api.slot], ep'[api.slot])
    BY <2>1, FrameSpares DEF HostInv
  <2>3. transaction_len(ep'[api.slot]) = transaction_len(ep[api.slot])
    BY <2>2 DEF transaction_len, SameTransfer, SameEntry
  <2> QED
    BY <2>1, <2>2, <2>3 DEF Healthy, SameTransfer
<1> QED
  BY <1>1, <1>2, <1>3 DEF TransferInv

\* A call that stores g in one entry of the pool.
LEMMA TransferWrite ==
  ASSUME TypeOK, TransferInv, NEW s \in Slots, NEW g, ep' = [ep EXCEPT ![s] = g],
         g.has_transfer => Healthy(g),
         api'.pc = "publish" => api'.slot = s /\ Healthy(g)
  PROVE  TransferInv'
<1>1. ep'[s] = g /\ \A t \in Slots \ {s} : ep'[t] = ep[t]
  BY DEF TypeOK
<1> QED
  BY <1>1 DEF TransferInv

\* A call that leaves the pool alone.
LEMMA TransferLeave ==
  ASSUME TransferInv, ep' = ep, api'.pc # "publish"
  PROVE  TransferInv'
BY DEF TransferInv

\* transfer_start fills in a healthy transfer.
LEMMA FillHealthy ==
  ASSUME NEW e \in Endpoints, NEW len \in Nat, len < U16
  PROVE  Healthy(transfer_fill(e, len))
<1> DEFINE f == [e EXCEPT !.total_len = len, !.actual_len = 0, !.failed_count = 0]
           g == prepare_tx_data(f)
<1>1. /\ f \in Endpoints /\ f.total_len = len /\ f.actual_len = 0 /\ f.failed_count = 0
  BY DEF Endpoints
<1>2. transfer_fill(e, len) = IF f.is_tx THEN g ELSE f
  BY DEF transfer_fill
<1>3. 0 < MaxRetry /\ 0 <= len /\ len < U16
  BY HostAssumption
<1> HIDE DEF f
<1>4. /\ g.total_len = f.total_len /\ g.actual_len = f.actual_len /\ g.size = f.size
      /\ g.failed_count = f.failed_count /\ g.data_id = f.data_id
      /\ g.encoded = [pid |-> DataPid(f.data_id), off |-> f.actual_len,
                      len |-> transaction_len(f)]
  BY <1>1 DEF prepare_tx_data, Endpoints
<1>5. transaction_len(g) = transaction_len(f)
  BY <1>4 DEF transaction_len
<1> HIDE DEF g
<1>6. Healthy(g)
  BY <1>1, <1>3, <1>4, <1>5 DEF Healthy
<1>7. ~f.is_tx => Healthy(f)
  BY <1>1, <1>3 DEF Healthy
<1> QED
  BY <1>2, <1>6, <1>7

\* The calls that change the direction, the toggle, the size or the address of an
\* endpoint find no transfer on it; the others leave a transfer healthy.
LEMMA TransferApi ==
  ASSUME SameCore, Disciplined, TypeOK, HostInv, TransferInv, ApiCall \/ ApiStep
  PROVE  TransferInv'
<1>1. api \in Apis /\ api.slot \in Slots /\ \A s \in Slots : ep[s] \in Endpoints
  BY DEF TypeOK, Apis
<1>2. \A s \in Slots : s \notin owed => ~ep[s].has_transfer
  BY DEF HostInv, Accounted, Account
<1>3. CASE AddPort \/ PortResetResume \/ AbortWait \/ AbortRead
  <2>1. ep' = ep
    BY <1>3 DEF AddPort, PortResetResume, AbortWait, AbortRead
  <2>2. CASE AddPort
    BY <2>1, <2>2, TransferLeave DEF AddPort, Calling
  <2>3. CASE PortResetResume
    BY <2>1, <2>3, TransferLeave DEF PortResetResume, ApiIdle
  <2>4. CASE AbortWait
    BY <1>1, <2>1, <2>4, TransferLeave DEF AbortWait, Apis
  <2>5. CASE AbortRead
    BY <1>1, <2>1, <2>5, TransferLeave DEF AbortRead, Apis
  <2> QED
    BY <1>3, <2>2, <2>3, <2>4, <2>5
<1>4. ASSUME NEW s, NEW p, NEW addr, NEW a,
             \/ PortResetStart(p) \/ PortResetRelease(p) \/ CloseDevice(p, addr)
             \/ AbortTransfer(s, p, addr, a)
      PROVE  TransferInv'
  <2>1. ep' = ep /\ api'.pc # "publish"
    BY <1>1, <1>4 DEF PortResetStart, PortResetRelease, CloseDevice, AbortTransfer, Calling,
                      ApiIdle
  <2> QED
    BY <2>1, TransferLeave
<1>5. ASSUME NEW s \in Slots, NEW p, NEW addr, SendSetup(s, p, addr)
      PROVE  TransferInv'
  <2> DEFINE g == [ep[s] EXCEPT !.ep_num = EP0, !.data_id = USB_PID_SETUP, !.is_tx = TRUE]
  <2>1. ep' = [ep EXCEPT ![s] = g] /\ api'.pc # "publish" /\ s \notin owed
    BY <1>5 DEF SendSetup, ApiIdle
  <2>2. ~g.has_transfer
    BY <1>1, <1>2, <2>1 DEF Endpoints
  <2> HIDE DEF g
  <2> QED
    BY <2>1, <2>2, TransferWrite
<1>6. ASSUME NEW s \in Slots, NEW p, NEW addr, NEW d, EndpointOpen(s, p, addr, d)
      PROVE  TransferInv'
  <2> DEFINE g == configure_endpoint(ep[s], d)
  <2>1. ep' = [ep EXCEPT ![s] = g] /\ api'.pc # "publish" /\ ep[s].size = 0
    BY <1>6 DEF EndpointOpen, ApiIdle, IsFirst
  <2>2. ~ep[s].has_transfer
    BY <2>1 DEF HostInv, CallInv
  <2>3. ~g.has_transfer
    BY <1>1, <2>2 DEF Endpoints, configure_endpoint
  <2> HIDE DEF g
  <2> QED
    BY <2>1, <2>3, TransferWrite
<1>7. ASSUME NEW s \in Slots, NEW p, NEW addr, NEW a, EndpointClose(s, p, addr, a)
      PROVE  TransferInv'
  <2> DEFINE g == [ep[s] EXCEPT !.size = 0]
  <2>1. ep' = [ep EXCEPT ![s] = g] /\ api'.pc # "publish" /\ s \notin owed
    BY <1>7 DEF EndpointClose, Calling
  <2>2. ~g.has_transfer
    BY <1>1, <1>2, <2>1 DEF Endpoints
  <2> HIDE DEF g
  <2> QED
    BY <2>1, <2>2, TransferWrite
<1>8. ASSUME NEW s \in Slots, NEW p, NEW addr, NEW a, NEW len, EndpointTransfer(s, p, addr, a, len)
      PROVE  TransferInv'
  <2> DEFINE g == [ep[s] EXCEPT !.ep_num = a, !.is_tx = ~a.in, !.data_id = 1]
  <2>1. /\ IF a.num = 0 THEN ep' = [ep EXCEPT ![s] = g] ELSE ep' = ep
        /\ api'.pc # "publish"
        /\ a.num = 0 => s \notin owed
    BY <1>8 DEF EndpointTransfer, ApiIdle
  <2>2. CASE a.num = 0
    <3>1. ~g.has_transfer
      BY <1>1, <1>2, <2>1, <2>2 DEF Endpoints
    <3> HIDE DEF g
    <3> QED
      BY <2>1, <2>2, <3>1, TransferWrite
  <2>3. CASE a.num # 0
    BY <2>1, <2>3, TransferLeave
  <2> QED
    BY <2>2, <2>3
<1>9. CASE EndpointBind
  <2> DEFINE g == [ep[api.slot] EXCEPT !.root_idx = api.port, !.dev_addr = api.addr,
                                       !.is_tx = ~ep[api.slot].ep_num.in]
  <2>1. ep' = [ep EXCEPT ![api.slot] = g] /\ api.pc = "bind" /\ api'.pc # "publish"
    BY <1>1, <1>9 DEF EndpointBind, TypeOK, ApiIdle
  <2>2. ~ep[api.slot].has_transfer
    BY <2>1 DEF HostInv, CallInv
  <2>3. ~g.has_transfer
    BY <1>1, <2>2 DEF Endpoints
  <2> HIDE DEF g
  <2> QED
    BY <1>1, <2>1, <2>3, TransferWrite
<1>10. CASE CloseDeviceSlot
  <2> DEFINE g == [ep[api.slot] EXCEPT !.size = 0, !.has_transfer = FALSE]
  <2>1. ep' = [ep EXCEPT ![api.slot] = g] \/ ep' = ep
    BY <1>1, <1>10 DEF CloseDeviceSlot, TypeOK
  <2>2. api'.pc # "publish"
    BY <1>1, <1>10 DEF CloseDeviceSlot, Apis, ApiIdle
  <2>3. ~g.has_transfer
    BY <1>1 DEF Endpoints
  <2> HIDE DEF g
  <2> QED
    BY <1>1, <2>1, <2>2, <2>3, TransferWrite, TransferLeave
<1>11. CASE TransferFill
  <2> DEFINE s == api.slot
             g == transfer_fill(ep[s], api.len)
  <2>1. CASE ep[s].has_transfer
    BY <1>11, <2>1, TransferLeave DEF TransferFill, ApiIdle
  <2>2. CASE ~ep[s].has_transfer
    <3>1. ep' = [ep EXCEPT ![s] = g] /\ api' = [ApiIdle EXCEPT !.pc = "publish", !.slot = s]
      BY <1>11, <2>2 DEF TransferFill
    <3>2. api'.slot = s
      BY <3>1, IdleTypes DEF Apis
    <3>3. api.len \in 0 .. U16 - 1
      BY <1>1 DEF Apis
    <3>4. U16 \in Nat
      BY DEF U16
    <3>5. api.len \in Nat /\ api.len < U16
      BY <3>3, <3>4
    <3>6. Healthy(g)
      BY <1>1, <3>5, FillHealthy
    <3> HIDE DEF g
    <3> QED
      BY <1>1, <3>1, <3>2, <3>6, TransferWrite
  <2> QED
    BY <2>1, <2>2
<1>12. CASE TransferPublish
  <2> DEFINE s == api.slot
             g == transfer_publish(ep[s])
  <2>1. ep' = [ep EXCEPT ![s] = g] /\ api.pc = "publish" /\ api'.pc # "publish"
    BY <1>12 DEF TransferPublish, ApiIdle
  <2>2. Healthy(ep[s])
    BY <2>1 DEF TransferInv
  <2>3. /\ g.total_len = ep[s].total_len /\ g.actual_len = ep[s].actual_len
        /\ g.size = ep[s].size /\ g.failed_count = ep[s].failed_count
        /\ g.data_id = ep[s].data_id /\ g.is_tx = ep[s].is_tx /\ g.encoded = ep[s].encoded
    BY <1>1 DEF Endpoints, transfer_publish
  <2> HIDE DEF g
  <2>4. transaction_len(g) = transaction_len(ep[s])
    BY <2>3 DEF transaction_len
  <2>5. Healthy(g)
    BY <2>2, <2>3, <2>4 DEF Healthy
  <2> QED
    BY <1>1, <2>1, <2>5, TransferWrite
<1>13. CASE AbortMark \/ AbortDone
  <2> DEFINE s == api.slot
  <2>1. PICK b \in BOOLEAN : ep' = [ep EXCEPT ![s] = [ep[s] EXCEPT !.transfer_aborted = b]]
    BY <1>13 DEF AbortMark, AbortDone
  <2> DEFINE g == [ep[s] EXCEPT !.transfer_aborted = b]
  <2>2. api'.pc # "publish"
    <3>1. CASE AbortMark
      BY <1>1, <3>1 DEF AbortMark, Apis
    <3>2. CASE AbortDone
      BY <3>2 DEF AbortDone, ApiIdle
    <3> QED
      BY <1>13, <3>1, <3>2
  <2>3. /\ g.total_len = ep[s].total_len /\ g.actual_len = ep[s].actual_len
        /\ g.size = ep[s].size /\ g.failed_count = ep[s].failed_count
        /\ g.data_id = ep[s].data_id /\ g.is_tx = ep[s].is_tx /\ g.encoded = ep[s].encoded
        /\ g.has_transfer = ep[s].has_transfer
    BY <1>1 DEF Endpoints
  <2> HIDE DEF g
  <2>4. transaction_len(g) = transaction_len(ep[s])
    BY <2>3 DEF transaction_len
  <2>5. g.has_transfer => Healthy(g)
    BY <1>1, <2>3, <2>4 DEF TransferInv, Healthy
  <2> QED
    BY <1>1, <2>1, <2>2, <2>5, TransferWrite DEF g
<1>14. CASE AbortClear
  <2> DEFINE g == [ep[api.slot] EXCEPT !.has_transfer = FALSE]
  <2>1. ep' = [ep EXCEPT ![api.slot] = g] \/ ep' = ep
    BY <1>14 DEF AbortClear
  <2>2. api'.pc # "publish"
    BY <1>1, <1>14 DEF AbortClear, Apis
  <2>3. ~g.has_transfer
    BY <1>1 DEF Endpoints
  <2> HIDE DEF g
  <2> QED
    BY <1>1, <2>1, <2>2, <2>3, TransferWrite, TransferLeave
<1>15. CASE ApiCall
  BY <1>3, <1>4, <1>5, <1>6, <1>7, <1>8, <1>15 DEF ApiCall
<1>16. CASE ApiStep
  BY <1>3, <1>9, <1>10, <1>11, <1>12, <1>13, <1>14, <1>16 DEF ApiStep
<1> QED
  BY <1>15, <1>16

\* The conjunction that carries the theorems about transfers.
LEMMA TransferInvariant ==
  ASSUME SameCore, Disciplined
  PROVE  Spec => [](TypeOK /\ HostInv /\ TransferInv)
<1>1. Init => TypeOK /\ HostInv /\ TransferInv
  <2>1. Init => TransferInv
    BY DEF Init, TransferInv, UnusedEndpoint, ApiIdle
  <2> QED
    BY <2>1, InitType, InitInv
<1>2. TypeOK /\ HostInv /\ TransferInv /\ [Next]_vars => (TypeOK /\ HostInv /\ TransferInv)'
  <2> SUFFICES ASSUME TypeOK, HostInv, TransferInv, [Next]_vars
               PROVE  (TypeOK /\ HostInv /\ TransferInv)'
    OBVIOUS
  <2>1. TypeOK' /\ HostInv'
    BY NextType, NextInv
  <2>2. CASE LineChange \/ UNCHANGED vars
    <3>1. ep' = ep /\ api' = api
      BY <2>2 DEF LineChange, vars
    <3> QED
      BY <2>1, <3>1 DEF TransferInv
  <2> QED
    BY <2>1, <2>2, TransferFrame, TransferApi DEF Next
<1> QED
  BY <1>1, <1>2, PTL DEF Spec

\* A queued transfer has retries left and has not counted past its length, for
\* every length a uint16_t holds and every packet size: the subtraction of
\* transaction_len and the addition of transfer_continue never wrap.
THEOREM ProgressStaysInBounds ==
  ASSUME SameCore, Disciplined
  PROVE  Spec => []ProgressInBounds
<1>1. TypeOK /\ HostInv /\ TransferInv => ProgressInBounds
  BY DEF TransferInv, Healthy, ProgressInBounds
<1> QED
  BY <1>1, TransferInvariant, PTL

\* The packet encoded in the buffer of a queued OUT transfer is at every moment
\* the next one to send: the encoding done ahead of time, by transfer_start, or by
\* the transaction before, is never of a stale toggle, place or length.
THEOREM EncodedStaysInSync ==
  ASSUME SameCore, Disciplined
  PROVE  Spec => []EncodedInSync
<1>1. TypeOK /\ HostInv /\ TransferInv => EncodedInSync
  BY DEF TransferInv, Healthy, EncodedInSync
<1> QED
  BY <1>1, TransferInvariant, PTL

\* A port goes from connected to disconnected in one step only, connection_check,
\* and that step ends every transfer of the port: none is left to be served, or
\* to be failed a second time, after the disconnect.
THEOREM DisconnectEndsTransfers ==
  ASSUME SameCore, Disciplined
  PROVE  Spec => DisconnectRetires
<1> DEFINE A == \A p \in Ports : root[p].connected /\ ~root'[p].connected =>
                  \A s \in Slots : ep[s].root_idx = p => ~ep'[s].has_transfer
<1>1. TypeOK /\ HostInv /\ [Next]_vars => A
  <2> SUFFICES ASSUME TypeOK, HostInv, [Next]_vars,
                      NEW p \in Ports, root[p].connected, ~root'[p].connected,
                      NEW s \in Slots, ep[s].root_idx = p
               PROVE  ~ep'[s].has_transfer
    OBVIOUS
  <2>1. ~(ApiCall \/ ApiStep)
    BY CallerLeaves
  <2>2. ~(LineChange \/ UNCHANGED vars)
    BY DEF LineChange, vars
  <2>3. FrameStep
    BY <2>1, <2>2 DEF Next
  <2>4. root' # root
    OBVIOUS
  <2>5. CheckConnect => root'[p].connected = root[p].connected \/ root'[p].connected
    <3>1. root[frame.port] \in RootPorts /\ frame.port \in Ports
      BY DEF TypeOK
    <3> QED
      BY <3>1 DEF CheckConnect, TypeOK, RootPorts
  <2>6. IrqHandler => root'[p].connected = root[p].connected
    <3>1. root[frame.port] \in RootPorts /\ frame.port \in Ports
      BY DEF TypeOK
    <3> QED
      BY <3>1 DEF IrqHandler, TypeOK, RootPorts
  <2>7. ConnectionLost
    BY <2>3, <2>4, <2>5, <2>6 DEF FrameStep, FrameStart, SendSof, EnterPort, SkipSlot, VisitLive,
          StartTransaction, SetupTransaction, InTransaction, OutTransaction, EndTransaction
  <2>8. p = frame.port
    BY <2>7 DEF ConnectionLost, TypeOK
  <2>9. CASE ep[s].has_transfer
    <3>1. ep[s] \in Endpoints /\ ep[s].size # 0
      BY <2>9 DEF TypeOK, HostInv, CallInv
    <3>2. ep'[s] = transfer_complete(ep[s])
      BY <2>7, <2>8, <2>9, <3>1 DEF ConnectionLost, Retired
    <3> QED
      BY <3>1, <3>2 DEF transfer_complete, Endpoints
  <2>10. CASE ~ep[s].has_transfer
    BY <2>3, <2>10, FrameSpares DEF HostInv, SameTransfer
  <2> QED
    BY <2>9, <2>10
<1>2. TypeOK /\ HostInv /\ [Next]_vars => [A]_vars
  BY <1>1
<1> QED
  BY <1>2, HostInvariant, PTL DEF Spec, DisconnectRetires
=============================================================================
