-------------------------- MODULE BusTransactionProofs -------------------------
(* Theorems about a transaction on the bus: the types and the room in the     *)
(* receive buffer, that the host never receives what it sends, that a reply   *)
(* is heard whole where the PIO arms the receiver, and that what is accepted  *)
(* is what was sent in answer, up to what a CRC can tell.                     *)
EXTENDS BusTransaction, SequenceTheorems, TLAPS

CpuPcs == {"idle", "park", "end"} \cup Sending \cup Receiving

\* The records, field by field.
TxStates == [pc : {"data", "eop", "comp", "stall"}, dma : BOOLEAN, patched : BOOLEAN,
             flag : BOOLEAN, stalled : BOOLEAN, asks : BOOLEAN]

Shape ==
  /\ same_block \in BOOLEAN /\ tx \in TxStates
  /\ det \in {"parked", "ready", "busy"} /\ irq \subseteq {"COMP", "START"}
  /\ det = "parked" <=> "COMP" \in irq
  /\ dev = [pc |-> dev.pc, left |-> dev.left, cut |-> dev.cut, babble |-> dev.babble,
            sent |-> dev.sent, fresh |-> dev.fresh]
  /\ dev.pc \in {"idle", "asked", "replying"} /\ dev.fresh \in BOOLEAN
  /\ cpu = [pc |-> cpu.pc, kind |-> cpu.kind, todo |-> cpu.todo, buf |-> cpu.buf,
            result |-> cpu.result]
  /\ cpu.pc \in CpuPcs /\ cpu.kind \in Kinds /\ cpu.result.ok \in BOOLEAN

\* What the CPU has to send: the packets of the transaction, of which the last is
\* answered, then the handshake; a SOF has no answer.
Unanswered == cpu.kind # "SOF" /\ ~cpu.result.ok
TodoKept ==
  \/ cpu.todo = <<Packet>> /\ Packet.arm = Unanswered
  \/ /\ Len(cpu.todo) = 2 /\ cpu.todo = <<Packet, cpu.todo[2]>>
     /\ Packet.arm = FALSE /\ cpu.todo[2].arm = TRUE /\ Unanswered

PlanKept ==
  /\ cpu.pc \in Sending \cup {"park"} => TodoKept
  /\ cpu.pc = "park" => Unanswered
  /\ cpu.pc \in Receiving => Unanswered
  /\ cpu.pc \in {"fifo", "flag", "time"} => cpu.kind # "OUT"
  /\ cpu.pc \in {"hs_time", "hs_fifo", "hs_flag"} => cpu.kind = "OUT"

\* The packet at hand is not out yet.
Pending == cpu.pc = "send" \/ tx.pc = "data"

\* The transmitter: while it sends, the CPU waits for it, slot 0 is patched from the
\* start of an answered packet to the CPU's wait for its end, and no flag of an
\* earlier packet ends that wait.
TxKept ==
  /\ tx.pc = "data" => cpu.pc \in {"clear", "dma", "eop"} /\ tx.asks = Packet.arm
  /\ cpu.pc = "clear" => ~Packet.arm
  /\ tx.patched <=> cpu.pc \in {"dma", "eop"} /\ Packet.arm /\ same_block
  /\ tx.pc = "data" /\ cpu.pc \in {"dma", "eop"} => ~tx.flag
  /\ tx.pc = "data" /\ cpu.pc = "eop" => ~tx.dma /\ ~tx.stalled

\* The detector: parked unless a packet that is answered is out.
DetKept ==
  /\ cpu.pc \in {"idle", "park"} => det = "parked"
  /\ cpu.pc \in Sending /\ (Pending \/ ~same_block \/ ~Packet.arm) => det = "parked"
  /\ cpu.pc \in Sending /\ Unanswered /\ (Pending \/ ~Packet.arm) => "START" \notin irq
  /\ cpu.pc = "finish" /\ cpu.kind # "OUT" => det = "parked"
  /\ cpu.pc = "end" /\ cpu.kind = "SOF" => det = "parked"

\* The device is asked by the last packet and not before; armed by the PIO, the
\* detector is ready when it is.
AskKept ==
  /\ dev.pc = "asked" => dev.fresh
  /\ cpu.pc \in Sending /\ Unanswered /\ (Pending \/ ~Packet.arm) => ~dev.fresh
  /\ same_block /\ det # "parked" /\ dev.fresh =>
       IF dev.pc = "asked" THEN det = "ready" ELSE det = "busy" /\ joined

BusInv == Shape /\ PlanKept /\ TxKept /\ DetKept /\ AskKept

-----------------------------------------------------------------------------
(* Steps of the transmitter and the device.                                   *)

\* What a step of the transmitter changes.
LEMMA TransmitterInv ==
  ASSUME BusInv, TxGap \/ TxQueue \/ TxComp \/ TxStall
  PROVE  BusInv'
<1>1. /\ UNCHANGED <<same_block, det, irq, fifo, dev, joined, cpu>>
      /\ tx' \in TxStates /\ tx'.patched = tx.patched /\ tx'.flag = tx.flag /\ tx'.asks = tx.asks
      /\ tx'.pc = "data" =>
           /\ tx.pc = "data"
           /\ ~tx.dma => tx' = tx
  <2>1. tx \in TxStates
    BY DEF BusInv, Shape
  <2>2. CASE TxGap
    BY <2>1, <2>2 DEF TxStates, TxGap, Hardware
  <2>3. CASE TxQueue
    BY <2>1, <2>3 DEF TxStates, TxQueue, Hardware
  <2>4. CASE TxComp \/ TxStall
    BY <2>1, <2>4 DEF TxStates, TxComp, TxStall, Hardware
  <2> QED
    BY <2>2, <2>3, <2>4
<1>2. tx'.pc = "data" /\ cpu.pc = "eop" => ~tx'.dma /\ ~tx'.stalled
  BY <1>1 DEF BusInv, TxKept
<1>3. Shape'
  BY <1>1 DEF BusInv, Shape
<1>4. PlanKept' /\ TxKept'
  BY <1>1, <1>2 DEF BusInv, PlanKept, TodoKept, Unanswered, Packet, TxKept
<1>5. DetKept' /\ AskKept'
  BY <1>1 DEF BusInv, DetKept, AskKept, Pending, Unanswered, Packet
<1> QED
  BY <1>3, <1>4, <1>5 DEF BusInv

\* The end of a packet: it arms the receiver and asks the device, or does neither.
LEMMA TxEopInv ==
  ASSUME BusInv, TxEop
  PROVE  BusInv'
<1>1. /\ UNCHANGED <<same_block, joined, cpu>> /\ cpu.pc \in Sending \ {"send"}
      /\ tx.pc = "data" /\ tx' = [tx EXCEPT !.pc = "eop", !.flag = @ \/ ~tx.patched]
      /\ tx' \in TxStates /\ tx'.pc = "eop" /\ tx'.patched = tx.patched
      /\ det = "parked" /\ "COMP" \in irq
  BY DEF BusInv, Shape, TxStates, TxKept, DetKept, Pending, TxEop, Sending
<1>2. IF Packet.arm /\ same_block THEN det' = "ready" /\ irq' = irq \ {"COMP"}
                                  ELSE det' = det /\ irq' = irq
  BY <1>1 DEF BusInv, TxKept, TxEop, Unpark
<1>3. \/ dev' = dev /\ ~(Packet.arm /\ dev.pc = "idle")
      \/ /\ Packet.arm /\ dev.pc = "idle" /\ dev' = [dev EXCEPT !.pc = "asked", !.fresh = TRUE]
         /\ dev'.pc = "asked" /\ dev'.fresh
  BY <1>1 DEF BusInv, Shape, TxKept, TxEop
<1>4. Shape'
  <2>1. dev' = [pc |-> dev'.pc, left |-> dev'.left, cut |-> dev'.cut, babble |-> dev'.babble,
                sent |-> dev'.sent, fresh |-> dev'.fresh]
        /\ dev'.pc \in {"idle", "asked", "replying"} /\ dev'.fresh \in BOOLEAN
    BY <1>3 DEF BusInv, Shape
  <2>2. irq' \subseteq {"COMP", "START"} /\ (det' = "parked" <=> "COMP" \in irq')
        /\ det' \in {"parked", "ready", "busy"}
    BY <1>1, <1>2 DEF BusInv, Shape
  <2> QED
    BY <1>1, <2>1, <2>2 DEF BusInv, Shape
<1>5. PlanKept' /\ TxKept'
  BY <1>1 DEF BusInv, PlanKept, TodoKept, Unanswered, Packet, TxKept
<1>6. DetKept'
  BY <1>1, <1>2 DEF BusInv, DetKept, TxKept, Pending, Unanswered, Packet, Sending
<1>7. AskKept'
  <2>1. CASE Packet.arm /\ same_block
    <3>1. Unanswered /\ ~dev.fresh
      BY <1>1, <2>1 DEF BusInv, PlanKept, TodoKept, AskKept, Pending
    <3> QED
      BY <1>1, <1>2, <1>3, <2>1, <3>1 DEF BusInv, Shape, AskKept, Pending, Unanswered, Packet
  <2>2. CASE ~(Packet.arm /\ same_block)
    BY <1>1, <1>2, <1>3, <2>2 DEF BusInv, Shape, AskKept, Pending, Unanswered, Packet
  <2> QED
    BY <2>1, <2>2
<1> QED
  BY <1>4, <1>5, <1>6, <1>7 DEF BusInv

\* The form of a reply.
IsReply(r) ==
  /\ r = [pc |-> "replying", left |-> r.left, cut |-> r.cut, babble |-> r.babble,
          sent |-> r.sent, fresh |-> TRUE]
  /\ r.pc = "replying" /\ r.fresh = TRUE
  /\ r.babble \in BOOLEAN /\ (r.babble => r.left = <<USB_SYNC>>)

LEMMA ReplyForm ==
  ASSUME NEW r \in AllReplies
  PROVE  IsReply(r) /\ r.left \in Seq(Byte)
<1>1. PICK p : r \in Arrivals(p)
  BY DEF AllReplies, Replies
<1>2. ASSUME NEW bytes, r = Reply(p, bytes)
      PROVE  IsReply(r)
  BY <1>2 DEF IsReply, Reply
<1>3. ASSUME NEW bytes, r = [Reply(p, bytes) EXCEPT !.cut = TRUE]
      PROVE  IsReply(r)
  BY <1>3 DEF IsReply, Reply
<1>4. IsReply(r)
  <2>1. CASE r \in {Reply(p, Captured(p, early)) : early \in EarlyBits}
    <3>1. PICK early : r = Reply(p, Captured(p, early))
      BY <2>1
    <3> QED
      BY <1>2, <3>1
  <2>2. CASE r \in {Reply(p, Damaged(p, d[1], d[2])) : d \in (1..Len(p)) \X Damage}
    <3>1. PICK d : r = Reply(p, Damaged(p, d[1], d[2]))
      BY <2>2
    <3> QED
      BY <1>2, <3>1
  <2>3. CASE r \in {[Reply(p, SubSeq(p, 1, n)) EXCEPT !.cut = TRUE] : n \in 1..Len(p)}
    <3>1. PICK n : r = [Reply(p, SubSeq(p, 1, n)) EXCEPT !.cut = TRUE]
      BY <2>3
    <3> QED
      BY <1>3, <3>1
  <2>4. CASE r = [Reply(p, <<USB_SYNC>>) EXCEPT !.babble = TRUE]
    BY <2>4 DEF IsReply, Reply
  <2> QED
    BY <1>1, <2>1, <2>2, <2>3, <2>4 DEF Arrivals
<1>5. r.left \in Seq(Byte)
  BY ReplyAssumption DEF AllReplies
<1> QED
  BY <1>4, <1>5

\* The device: it may be heard by a detector that is not parked, and parks it.
LEMMA DeviceInv ==
  ASSUME BusInv, DevStep
  PROVE  BusInv'
<1>1. /\ UNCHANGED <<same_block, tx, cpu>> /\ (det' = "parked" <=> "COMP" \in irq')
      /\ det' \in {"parked", "ready", "busy"} /\ irq' \subseteq {"COMP", "START"}
      /\ det = "parked" => det' = "parked" /\ irq' = irq
  BY DEF BusInv, Shape, DevStep, DeviceReply, DeviceByte, DeviceEop, Outside
<1>2. Shape' /\ dev'.pc # "asked" /\ (dev'.fresh => dev.fresh)
  <2>1. CASE DeviceReply
    <3>1. dev' \in AllReplies /\ dev.fresh
      BY <2>1 DEF BusInv, AskKept, DeviceReply, AllReplies
    <3>2. IsReply(dev')
      BY <3>1, ReplyForm
    <3>3. /\ dev' = [pc |-> dev'.pc, left |-> dev'.left, cut |-> dev'.cut,
                      babble |-> dev'.babble, sent |-> dev'.sent, fresh |-> dev'.fresh]
          /\ dev'.pc = "replying" /\ dev'.fresh = TRUE
      BY <3>2 DEF IsReply
    <3> QED
      BY <1>1, <3>1, <3>3 DEF BusInv, Shape
  <2>2. CASE DeviceByte \/ DeviceEop
    <3> DEFINE left == dev'.left
    <3>1. dev' = [dev EXCEPT !.left = left] \/ dev' = [dev EXCEPT !.pc = "idle", !.left = left]
      BY <2>2 DEF BusInv, Shape, DeviceByte, DeviceEop
    <3> HIDE DEF left
    <3>2. /\ dev' = [pc |-> dev'.pc, left |-> dev'.left, cut |-> dev'.cut,
                      babble |-> dev'.babble, sent |-> dev'.sent, fresh |-> dev'.fresh]
          /\ dev'.pc \in {dev.pc, "idle"} /\ dev'.fresh = dev.fresh
      BY <3>1 DEF BusInv, Shape
    <3>3. dev'.pc \in {"idle", "replying"}
      BY <2>2, <3>2 DEF DeviceByte, DeviceEop
    <3> QED
      BY <1>1, <3>2, <3>3 DEF BusInv, Shape
  <2> QED
    BY <2>1, <2>2 DEF DevStep
<1>3. PlanKept' /\ TxKept'
  BY <1>1 DEF BusInv, PlanKept, TodoKept, Unanswered, Packet, TxKept
<1>4. DetKept'
  BY <1>1 DEF BusInv, DetKept, Pending, Unanswered, Packet
<1>5. AskKept'
  <2>1. ASSUME same_block, det' # "parked", dev'.fresh
        PROVE  det' = "busy" /\ joined'
    BY <1>1, <1>2, <2>1 DEF BusInv, Shape, AskKept, DevStep, DeviceReply, DeviceByte, DeviceEop
  <2> QED
    BY <1>1, <1>2, <2>1 DEF BusInv, AskKept, Pending, Unanswered, Packet
<1> QED
  BY <1>2, <1>3, <1>4, <1>5 DEF BusInv

-----------------------------------------------------------------------------
(* Steps of the CPU while it sends.                                           *)

LEMMA BeginInv ==
  ASSUME BusInv, Begin
  PROVE  BusInv'
<1>1. /\ UNCHANGED <<same_block, tx, det, irq, dev, joined>> /\ cpu.pc = "idle"
      /\ tx.pc # "data" /\ det = "parked" /\ ~tx.patched
  BY DEF BusInv, Begin, TxKept, DetKept
<1>2. ASSUME NEW pc, NEW kind, NEW todo, NEW p, NEW q,
             cpu' = [CpuIdle EXCEPT !.pc = pc, !.kind = kind, !.todo = todo],
             \/ pc = "park" /\ kind \in {"IN", "ISO"} /\ todo = <<Arms(p)>>
             \/ pc = "park" /\ kind = "OUT" /\ todo = <<Sets(q), Arms(p)>>
             \/ pc = "send" /\ kind = "SOF" /\ todo = <<Sets(q)>>
      PROVE  BusInv'
  <2>1. cpu' = [pc |-> pc, kind |-> kind, todo |-> todo, buf |-> <<>>, result |-> None]
        /\ cpu'.pc = pc /\ cpu'.kind = kind /\ cpu'.todo = todo /\ cpu'.result.ok = FALSE
    BY <1>2 DEF CpuIdle, None
  <2>2. Shape'
    BY <1>1, <1>2, <2>1 DEF BusInv, Shape, CpuPcs, Kinds, Sending
  <2>3. TodoKept'
    <3>1. Head(<<Arms(p)>>) = Arms(p) /\ Head(<<Sets(q)>>) = Sets(q)
      BY DEF Arms, Sets
    <3>2. /\ Head(<<Sets(q), Arms(p)>>) = Sets(q) /\ <<Sets(q), Arms(p)>>[2] = Arms(p)
          /\ Len(<<Sets(q), Arms(p)>>) = 2
      BY DEF Arms, Sets
    <3>3. Arms(p).arm = TRUE /\ Sets(q).arm = FALSE
      BY DEF Arms, Sets
    <3>4. CASE kind = "SOF"
      BY <1>2, <2>1, <3>1, <3>3, <3>4 DEF TodoKept, Unanswered, Packet
    <3>5. CASE kind = "OUT"
      BY <1>2, <2>1, <3>2, <3>3, <3>5 DEF TodoKept, Unanswered, Packet
    <3>6. CASE kind \in {"IN", "ISO"}
      BY <1>2, <2>1, <3>1, <3>3, <3>6 DEF TodoKept, Unanswered, Packet
    <3> QED
      BY <1>2, <3>4, <3>5, <3>6
  <2>4. PlanKept'
    BY <1>2, <2>1, <2>3 DEF PlanKept, Unanswered, Receiving
  <2>5. TxKept'
    BY <1>1, <1>2, <2>1 DEF BusInv, TxKept, Packet
  <2>6. DetKept' /\ AskKept'
    BY <1>1, <1>2, <2>1 DEF BusInv, DetKept, AskKept, Unanswered, Sending
  <2> QED
    BY <2>2, <2>4, <2>5, <2>6 DEF BusInv
<1>3. CASE \E a \in Addresses, kind \in {"IN", "ISO"} :
             cpu' = [CpuIdle EXCEPT !.pc = "park", !.kind = kind,
                       !.todo = <<Arms(AddressToken(USB_PID_IN, a[1], a[2]))>>]
  BY <1>2, <1>3
<1>4. CASE \E a \in Addresses, p \in Payloads :
             cpu' = [CpuIdle EXCEPT !.pc = "park", !.kind = "OUT",
                       !.todo = <<Sets(AddressToken(USB_PID_OUT, a[1], a[2])),
                                  Arms(DataPacket(USB_PID_DATA1, p))>>]
  BY <1>2, <1>4
<1>5. CASE \E n \in SofCounts :
             cpu' = [CpuIdle EXCEPT !.pc = "send", !.kind = "SOF", !.todo = <<Sets(SofToken(n))>>]
  BY <1>2, <1>5
<1> QED
  BY <1>3, <1>4, <1>5 DEF Begin

\* The receiver is parked, and a reply that is still coming is not of this
\* transaction.
LEMMA ParkReceiverInv ==
  ASSUME BusInv, ParkReceiver
  PROVE  BusInv'
<1>1. /\ UNCHANGED <<same_block, tx>> /\ cpu.pc = "park"
      /\ det' = "parked" /\ irq' = {"COMP"}
      /\ cpu' = [cpu EXCEPT !.pc = "send"]
      /\ tx.pc # "data" /\ ~tx.patched
  BY DEF BusInv, ParkReceiver, Goto, TxKept
<1>2. /\ cpu' = [pc |-> "send", kind |-> cpu.kind, todo |-> cpu.todo, buf |-> cpu.buf,
                 result |-> cpu.result]
      /\ cpu'.pc = "send" /\ cpu'.kind = cpu.kind /\ cpu'.todo = cpu.todo
      /\ cpu'.result = cpu.result
  BY <1>1 DEF BusInv, Shape
<1>3. /\ dev' = [pc |-> dev'.pc, left |-> dev'.left, cut |-> dev'.cut, babble |-> dev'.babble,
                 sent |-> dev'.sent, fresh |-> dev'.fresh]
      /\ dev'.pc \in {"idle", "replying"} /\ dev'.fresh = FALSE
  BY DEF BusInv, Shape, ParkReceiver, DevIdle, Stale
<1>4. Shape'
  BY <1>1, <1>2, <1>3 DEF BusInv, Shape, CpuPcs, Sending
<1>5. PlanKept'
  BY <1>1, <1>2 DEF BusInv, PlanKept, TodoKept, Unanswered, Packet, Receiving
<1>6. TxKept' /\ DetKept' /\ AskKept'
  BY <1>1, <1>2, <1>3 DEF BusInv, TxKept, DetKept, AskKept
<1> QED
  BY <1>4, <1>5, <1>6 DEF BusInv

\* While a packet is sent only the CPU's place changes, and the transmitter.
LEMMA SendingShape ==
  ASSUME BusInv, NEW pc \in CpuPcs, cpu' = [cpu EXCEPT !.pc = pc]
  PROVE  /\ cpu' = [pc |-> cpu'.pc, kind |-> cpu'.kind, todo |-> cpu'.todo,
                    buf |-> cpu'.buf, result |-> cpu'.result]
         /\ cpu'.pc = pc /\ cpu'.kind = cpu.kind /\ cpu'.todo = cpu.todo
         /\ cpu'.buf = cpu.buf /\ cpu'.result = cpu.result
         /\ Packet' = Packet /\ Unanswered' = Unanswered
         /\ cpu.pc \in Sending /\ pc \in Sending => PlanKept'
BY DEF BusInv, Shape, PlanKept, TodoKept, Unanswered, Packet, Sending, Receiving

LEMMA TxStartInv ==
  ASSUME BusInv, TxStart
  PROVE  BusInv'
<1>1. /\ UNCHANGED <<same_block, det, irq, fifo, dev, joined>> /\ cpu.pc = "send"
      /\ Packet.arm \in BOOLEAN /\ tx.pc # "data" /\ ~tx.patched
  BY DEF BusInv, TxStart, Untimed, PlanKept, TodoKept, Unanswered, Shape, TxKept, Sending
<1>2. cpu' = [cpu EXCEPT !.pc = IF Packet.arm THEN "dma" ELSE "clear"]
  BY DEF TxStart, Goto
<1>3. /\ tx' \in TxStates /\ tx'.pc = "data" /\ tx'.asks = Packet.arm /\ tx'.dma
      /\ tx'.patched <=> Packet.arm /\ same_block
      /\ Packet.arm => ~tx'.flag
  <2> DEFINE started == [tx EXCEPT !.pc = "data", !.dma = TRUE, !.asks = Packet.arm]
  <2>1. /\ started \in TxStates /\ started.pc = "data" /\ started.asks = Packet.arm
        /\ started.dma = TRUE /\ started.patched = FALSE
    BY <1>1 DEF BusInv, Shape, TxStates
  <2>2. CASE Packet.arm
    <3>1. tx' = [started EXCEPT !.flag = FALSE, !.patched = @ \/ HwArm(TRUE)]
      BY <2>2 DEF TxStart
    <3> HIDE DEF started
    <3>2. tx' = [started EXCEPT !.flag = FALSE, !.patched = same_block]
      BY <2>1, <3>1 DEF HwArm, BusInv, Shape
    <3> QED
      BY <2>1, <2>2, <3>2 DEF TxStates, BusInv, Shape
  <2>3. CASE ~Packet.arm
    BY <2>1, <2>3 DEF TxStart
  <2> QED
    BY <1>1, <2>2, <2>3
<1>4. /\ cpu' = [pc |-> cpu'.pc, kind |-> cpu'.kind, todo |-> cpu'.todo,
                 buf |-> cpu'.buf, result |-> cpu'.result]
      /\ cpu'.pc = IF Packet.arm THEN "dma" ELSE "clear"
      /\ cpu'.kind = cpu.kind /\ cpu'.result = cpu.result
      /\ Packet' = Packet /\ Unanswered' = Unanswered /\ PlanKept'
  BY <1>1, <1>2, SendingShape DEF CpuPcs, Sending
<1>5. Shape'
  BY <1>1, <1>3, <1>4 DEF BusInv, Shape, CpuPcs, Sending
<1>6. TxKept'
  BY <1>1, <1>3, <1>4 DEF TxKept
<1>7. DetKept' /\ AskKept'
  BY <1>1, <1>3, <1>4 DEF BusInv, DetKept, AskKept, Pending, Sending
<1> QED
  BY <1>4, <1>5, <1>6, <1>7 DEF BusInv

\* The CPU's steps between the start of a packet and its end.
LEMMA TxWaitInv ==
  ASSUME BusInv, TxClear \/ TxQueued \/ TxEopWait \/ TxCompWait
  PROVE  BusInv'
<1> DEFINE to == CASE cpu.pc = "clear" -> "dma" [] cpu.pc = "dma" -> "eop"
                   [] cpu.pc = "eop" -> "comp" [] cpu.pc = "comp" -> "sent"
<1>1. /\ UNCHANGED <<same_block, det, irq, fifo, dev, joined>>
      /\ cpu.pc \in {"clear", "dma", "eop", "comp"} /\ cpu' = [cpu EXCEPT !.pc = to]
      /\ to \in Sending
  BY DEF TxClear, TxQueued, TxEopWait, TxCompWait, Untimed, Goto, Sending
<1>2. /\ tx' \in TxStates /\ tx'.pc = tx.pc /\ tx'.asks = tx.asks /\ tx'.dma = tx.dma
      /\ tx.flag = FALSE => tx'.flag = FALSE
      /\ cpu.pc \in {"clear", "dma"} => tx'.patched = tx.patched
      /\ cpu.pc = "clear" => ~tx'.flag
      /\ cpu.pc = "dma" => ~tx.dma /\ ~tx'.stalled
  <2>1. tx \in TxStates
    BY DEF BusInv, Shape
  <2>2. CASE TxClear
    BY <2>1, <2>2 DEF TxStates, TxClear
  <2>3. CASE TxQueued
    BY <2>1, <2>3 DEF TxStates, TxQueued
  <2>4. CASE TxEopWait
    BY <2>1, <2>4 DEF TxStates, TxEopWait
  <2>5. CASE TxCompWait
    BY <2>5, <2>1 DEF TxCompWait
  <2> QED
    BY <2>2, <2>3, <2>4, <2>5
<1>3. /\ cpu' = [pc |-> cpu'.pc, kind |-> cpu'.kind, todo |-> cpu'.todo,
                 buf |-> cpu'.buf, result |-> cpu'.result]
      /\ cpu'.pc = to /\ cpu'.kind = cpu.kind /\ cpu'.result = cpu.result
      /\ Packet' = Packet /\ Unanswered' = Unanswered /\ PlanKept'
  BY <1>1, SendingShape DEF CpuPcs, Sending
<1>4. Packet.arm \in BOOLEAN /\ (Packet.arm => Unanswered)
  BY <1>1 DEF BusInv, PlanKept, TodoKept, Unanswered, Shape, Sending
\* The wait for the end of the packet is over when it is out.
<1>5. cpu.pc \in {"eop", "comp"} => tx.pc # "data" /\ ~tx'.patched
  <2>1. ASSUME cpu.pc = "eop", Packet.arm, same_block
        PROVE  tx.pc # "data" /\ ~tx'.patched
    <3>1. "COMP" \notin irq \/ "START" \in irq
      BY <2>1 DEF TxClear, TxQueued, TxEopWait, TxCompWait, HwArm
    <3>2. tx.pc # "data"
      BY <1>4, <2>1, <3>1 DEF BusInv, Shape, DetKept, Pending, Sending
    <3>3. ~tx'.patched
      BY <2>1 DEF BusInv, Shape, TxStates, TxClear, TxQueued, TxEopWait, TxCompWait, HwArm
    <3> QED
      BY <3>2, <3>3
  <2>2. ASSUME cpu.pc = "eop", ~(Packet.arm /\ same_block)
        PROVE  tx.pc # "data" /\ ~tx'.patched
    BY <1>4, <2>2 DEF BusInv, Shape, TxStates, TxKept, TxClear, TxQueued, TxEopWait,
      TxCompWait, HwArm
  <2>3. ASSUME cpu.pc = "comp"
        PROVE  tx.pc # "data" /\ ~tx'.patched
    BY <2>3 DEF BusInv, TxKept, TxClear, TxQueued, TxEopWait, TxCompWait
  <2> QED
    BY <2>1, <2>2, <2>3
<1>6. Shape'
  BY <1>1, <1>2, <1>3 DEF BusInv, Shape, CpuPcs
<1>7. TxKept'
  BY <1>1, <1>2, <1>3, <1>4, <1>5 DEF BusInv, TxKept
<1>8. DetKept' /\ AskKept'
  BY <1>1, <1>2, <1>3, <1>5 DEF BusInv, DetKept, AskKept, Pending, Sending
<1> QED
  BY <1>3, <1>6, <1>7, <1>8 DEF BusInv

\* usb_transfer returns: software arms a receiver that the PIO could not.
LEMMA TxSentInv ==
  ASSUME BusInv, TxSent
  PROVE  BusInv'
<1>1. /\ UNCHANGED <<same_block, tx, fifo, dev, joined>> /\ cpu.pc = "sent"
      /\ tx.pc # "data" /\ ~tx.patched /\ TodoKept /\ Packet.arm \in BOOLEAN
  BY DEF BusInv, Shape, TxSent, TxKept, PlanKept, TodoKept, Unanswered, Sending
<1>2. /\ IF Packet.arm /\ ~same_block THEN irq' = irq \ {"COMP"} /\ det' # "parked"
                                      ELSE irq' = irq /\ det' = det
      /\ det' \in {"parked", "ready", "busy"} /\ irq' \subseteq {"COMP", "START"}
      /\ det' = "parked" <=> "COMP" \in irq'
  BY <1>1 DEF BusInv, Shape, TxSent, HwArm, Unpark
<1> DEFINE to == IF Len(cpu.todo) > 1 THEN "send" ELSE IF Packet.arm THEN "start_time" ELSE "end"
<1>3. /\ cpu' = [pc |-> to, kind |-> cpu.kind, todo |-> Tail(cpu.todo), buf |-> cpu.buf,
                 result |-> cpu.result]
      /\ cpu'.pc = to /\ cpu'.kind = cpu.kind /\ cpu'.todo = Tail(cpu.todo)
      /\ cpu'.result = cpu.result
      /\ to \in CpuPcs /\ Unanswered' = Unanswered
  BY DEF BusInv, Shape, TxSent, CpuPcs, Sending, Receiving, Unanswered
<1>4. Shape'
  BY <1>1, <1>2, <1>3 DEF BusInv, Shape
\* The data packet of an OUT follows its token.
<1>5. CASE Len(cpu.todo) = 2
  <2>1. /\ cpu.todo = <<Packet, cpu.todo[2]>> /\ Packet.arm = FALSE
        /\ cpu.todo[2].arm = TRUE /\ Unanswered
    BY <1>1, <1>5 DEF TodoKept
  <2>2. cpu'.pc = "send" /\ Tail(cpu.todo) = <<cpu.todo[2]>>
    <3>1. \A p, q : Tail(<<p, q>>) = <<q>> /\ Len(<<p, q>>) = 2
      OBVIOUS
    <3>2. Tail(cpu.todo) = <<cpu.todo[2]>>
      BY <2>1, <3>1
    <3> QED
      BY <1>3, <1>5, <3>2
  <2>3. Packet' = cpu.todo[2] /\ cpu'.todo = <<Packet'>>
    BY <1>3, <2>2 DEF Packet
  <2>4. PlanKept'
    BY <1>3, <2>1, <2>2, <2>3 DEF PlanKept, TodoKept, Receiving
  <2>5. TxKept'
    BY <1>1, <2>2 DEF TxKept
  <2>6. DetKept' /\ AskKept'
    BY <1>1, <1>2, <1>3, <2>1, <2>2 DEF BusInv, DetKept, AskKept, Sending
  <2> QED
    BY <1>4, <2>4, <2>5, <2>6 DEF BusInv
\* The last packet has been sent.
<1>6. CASE cpu.todo = <<Packet>>
  <2>1. Packet.arm = Unanswered /\ Len(cpu.todo) = 1
    BY <1>1, <1>6 DEF TodoKept
  <2>2. cpu'.pc = IF Packet.arm THEN "start_time" ELSE "end"
    BY <1>3, <2>1
  <2>3. PlanKept' /\ TxKept'
    BY <1>1, <1>3, <2>1, <2>2 DEF PlanKept, TxKept, Sending, Receiving
  <2>4. DetKept' /\ AskKept'
    BY <1>1, <1>2, <1>3, <2>1, <2>2 DEF BusInv, DetKept, AskKept, Sending
  <2> QED
    BY <1>4, <2>3, <2>4 DEF BusInv
<1> QED
  BY <1>1, <1>5, <1>6 DEF TodoKept

-----------------------------------------------------------------------------
(* Steps of the CPU while it receives.                                        *)

\* Where a reading step goes.
ReadsTo ==
  \/ cpu.pc = "start_time" /\ cpu'.pc \in {"end", "start_flag"}
  \/ cpu.pc = "start_flag" /\ cpu'.pc = "start_time"
  \/ cpu.pc = "start_flag" /\ cpu'.pc = IF cpu.kind = "OUT" THEN "hs_time" ELSE "fifo"
  \/ cpu.pc = "fifo" /\ cpu'.pc \in {"end", "flag", "fifo"}
  \/ cpu.pc = "flag" /\ cpu'.pc = IF "COMP" \in irq THEN "finish" ELSE "time"
  \/ cpu.pc = "time" /\ cpu'.pc \in {"end", "fifo"}
  \/ cpu.pc \in {"hs_time", "hs_fifo", "hs_flag"}
     /\ cpu'.pc \in {"hs_time", "hs_fifo", "hs_flag", "finish"}

ReadStep ==
  StartTime \/ StartFlag \/ RxFifo \/ RxFlag \/ RxTime \/ HsTime \/ HsFifo \/ HsFlag

\* A reading step changes what the CPU has read and where it is, and gives up at most
\* with what stands in the PID's place.
LEMMA ReadChanges ==
  ASSUME BusInv, ReadStep
  PROVE  /\ UNCHANGED <<same_block, tx, det, irq, dev, joined>> /\ ReadsTo
         /\ cpu' = [pc |-> cpu'.pc, kind |-> cpu.kind, todo |-> cpu.todo, buf |-> cpu'.buf,
                    result |-> cpu'.result]
         /\ \/ cpu'.pc # "end" /\ cpu'.result = cpu.result
            \/ cpu'.pc = "end" /\ cpu'.buf = <<>> /\ cpu'.result = Unsound(cpu.buf)
<1> USE DEF Goto, Reads, Only, Fails, TakeByte
<1>1. CASE StartTime
  BY <1>1 DEF BusInv, Shape, StartTime, ReadsTo
<1>2. CASE StartFlag
  BY <1>2 DEF BusInv, Shape, StartFlag, ReadsTo
<1>3. CASE RxFifo
  BY <1>3 DEF BusInv, Shape, RxFifo, ReadsTo
<1>4. CASE RxFlag \/ RxTime
  BY <1>4 DEF BusInv, Shape, RxFlag, RxTime, ReadsTo
<1>5. CASE HsTime
  BY <1>5 DEF BusInv, Shape, HsTime, ReadsTo
<1>6. CASE HsFifo
  BY <1>6 DEF BusInv, Shape, HsFifo, ReadsTo
<1>7. CASE HsFlag
  BY <1>7 DEF BusInv, Shape, HsFlag, ReadsTo
<1> QED
  BY <1>1, <1>2, <1>3, <1>4, <1>5, <1>6, <1>7 DEF ReadStep

LEMMA ReadInv ==
  ASSUME BusInv, ReadStep
  PROVE  BusInv'
<1>1. /\ UNCHANGED <<same_block, tx, det, irq, dev, joined>> /\ ReadsTo
      /\ cpu' = [pc |-> cpu'.pc, kind |-> cpu.kind, todo |-> cpu.todo, buf |-> cpu'.buf,
                 result |-> cpu'.result]
      /\ cpu'.result = cpu.result \/ cpu'.result = Unsound(cpu.buf)
  BY ReadChanges
<1>2. /\ cpu'.kind = cpu.kind /\ cpu'.todo = cpu.todo /\ cpu.pc \in Receiving
      /\ cpu'.pc \in Receiving \cup {"end"}
      /\ cpu'.result.ok = FALSE /\ Unanswered' /\ Unanswered
  <2>1. cpu.pc \in Receiving /\ cpu'.pc \in Receiving \cup {"end"} /\ cpu'.kind = cpu.kind
        /\ cpu'.todo = cpu.todo
    BY <1>1 DEF ReadsTo, Receiving
  <2>2. Unanswered /\ cpu.result.ok = FALSE
    BY <2>1 DEF BusInv, Shape, PlanKept, Unanswered
  <2>3. cpu'.result.ok = FALSE
    BY <1>1, <2>2 DEF Unsound
  <2> QED
    BY <2>1, <2>2, <2>3 DEF Unanswered
<1>3. Shape'
  BY <1>1, <1>2 DEF BusInv, Shape, CpuPcs
<1>4. PlanKept'
  BY <1>1, <1>2 DEF BusInv, PlanKept, ReadsTo, Sending, Receiving
<1>5. TxKept'
  BY <1>1, <1>2 DEF BusInv, TxKept, Receiving
<1>6. DetKept'
  BY <1>1, <1>2 DEF BusInv, Shape, PlanKept, DetKept, Unanswered, ReadsTo, Sending, Receiving
<1>7. AskKept'
  BY <1>1, <1>2 DEF BusInv, AskKept, Sending, Receiving
<1> QED
  BY <1>3, <1>4, <1>5, <1>6, <1>7 DEF BusInv

\* What is acknowledged is followed by the handshake.
LEMMA FinishInv ==
  ASSUME BusInv, Finish
  PROVE  BusInv'
<1>1. /\ UNCHANGED <<same_block, tx, det, irq, dev, joined>> /\ cpu.pc = "finish"
      /\ tx.pc # "data" /\ ~tx.patched
  BY DEF BusInv, Finish, Reads, TxKept
<1>2. /\ cpu' = [pc |-> cpu'.pc, kind |-> cpu.kind, todo |-> cpu'.todo, buf |-> <<>>,
                 result |-> cpu'.result]
      /\ cpu'.kind = cpu.kind /\ cpu'.result.ok \in BOOLEAN
      /\ \/ cpu'.pc = "end"
         \/ /\ cpu'.pc = "send" /\ cpu.kind = "IN" /\ cpu'.result.ok = TRUE
            /\ cpu'.todo = <<Sets(Handshake(USB_PID_ACK))>>
  <2>1. CASE cpu.kind = "OUT"
    BY <2>1 DEF BusInv, Shape, Finish
  <2>2. CASE cpu.kind # "OUT"
    <3> DEFINE outcome == Outcome(cpu.buf, cpu.kind = "IN")
    <3>1. outcome.ok \in BOOLEAN
      BY DEF Outcome, Got, Unsound
    <3>2. cpu' = [cpu EXCEPT !.result = outcome, !.buf = <<>>,
                    !.pc = IF outcome.ok /\ cpu.kind = "IN" THEN "send" ELSE "end",
                    !.todo = IF outcome.ok /\ cpu.kind = "IN"
                             THEN <<Sets(Handshake(USB_PID_ACK))>> ELSE <<>>]
      BY <2>2 DEF Finish
    <3> HIDE DEF outcome
    <3> QED
      BY <3>1, <3>2 DEF BusInv, Shape
  <2> QED
    BY <2>1, <2>2
<1>3. Shape'
  BY <1>1, <1>2 DEF BusInv, Shape, CpuPcs, Sending
<1>4. CASE cpu'.pc = "end"
  <2>1. PlanKept' /\ TxKept' /\ DetKept' /\ AskKept'
    BY <1>1, <1>2, <1>4 DEF BusInv, PlanKept, TxKept, DetKept, AskKept, Unanswered, Sending,
      Receiving
  <2> QED
    BY <1>3, <2>1 DEF BusInv
<1>5. CASE cpu'.pc = "send"
  <2>1. det = "parked" /\ ~Unanswered'
    BY <1>1, <1>2, <1>5 DEF BusInv, DetKept, Unanswered
  <2>2. Packet' = Sets(Handshake(USB_PID_ACK)) /\ Packet'.arm = FALSE /\ cpu'.todo = <<Packet'>>
    <3>1. \A p : Head(<<p>>) = p
      OBVIOUS
    <3>2. cpu'.todo = <<Sets(Handshake(USB_PID_ACK))>>
      BY <1>2, <1>5
    <3>3. Sets(Handshake(USB_PID_ACK)).arm = FALSE
      BY DEF Sets
    <3> QED
      BY <3>1, <3>2, <3>3 DEF Packet
  <2>3. PlanKept'
    <3>1. TodoKept'
      BY <1>2, <1>5, <2>2 DEF TodoKept, Unanswered
    <3> QED
      BY <1>5, <3>1 DEF PlanKept, Receiving
  <2>4. TxKept'
    BY <1>1, <1>5 DEF TxKept
  <2>5. DetKept'
    BY <1>1, <1>5, <2>1 DEF DetKept
  <2>6. AskKept'
    BY <1>1, <2>1 DEF BusInv, AskKept
  <2> QED
    BY <1>3, <2>3, <2>4, <2>5, <2>6 DEF BusInv
<1> QED
  BY <1>2, <1>4, <1>5

LEMMA EndInv ==
  ASSUME BusInv, End
  PROVE  BusInv'
<1>1. /\ UNCHANGED <<same_block, tx, joined>> /\ cpu.pc = "end" /\ tx.pc # "data" /\ ~tx.patched
      /\ det' = "parked" /\ irq' \subseteq {"COMP", "START"} /\ "COMP" \in irq'
  BY DEF BusInv, Shape, End, TxKept, DetKept
<1>2. /\ cpu' = [pc |-> "idle", kind |-> "SOF", todo |-> <<>>, buf |-> <<>>, result |-> None]
      /\ cpu'.pc = "idle" /\ cpu'.kind = "SOF" /\ cpu'.result.ok = FALSE
  BY DEF End, CpuIdle, None
<1>3. /\ dev' = [pc |-> dev'.pc, left |-> dev'.left, cut |-> dev'.cut, babble |-> dev'.babble,
                 sent |-> dev'.sent, fresh |-> dev'.fresh]
      /\ dev'.pc \in {"idle", "asked", "replying"} /\ dev'.fresh \in BOOLEAN
      /\ dev'.pc = "asked" => dev'.fresh
  BY DEF BusInv, Shape, AskKept, End, DevIdle, Stale
<1>4. Shape'
  BY <1>1, <1>2, <1>3 DEF BusInv, Shape, CpuPcs, Kinds
<1>5. PlanKept' /\ TxKept' /\ DetKept' /\ AskKept'
  BY <1>1, <1>2, <1>3 DEF PlanKept, TxKept, DetKept, AskKept, Sending, Receiving
<1> QED
  BY <1>4, <1>5 DEF BusInv

-----------------------------------------------------------------------------
(* The detector's theorems.                                                   *)

LEMMA BusInvInit == Init => BusInv
<1> SUFFICES ASSUME Init PROVE BusInv
  OBVIOUS
<1> USE DEF Init, DevIdle, CpuIdle, None
<1>1. Shape
  BY DEF Shape, TxStates, CpuPcs, Kinds
<1>2. PlanKept /\ TxKept /\ DetKept /\ AskKept
  BY DEF PlanKept, TxKept, DetKept, AskKept, Sending, Receiving
<1> QED
  BY <1>1, <1>2 DEF BusInv

LEMMA BusInvNext == BusInv /\ [Next]_vars => BusInv'
<1> SUFFICES ASSUME BusInv, [Next]_vars PROVE BusInv'
  OBVIOUS
<1>1. ASSUME UNCHANGED <<same_block, tx, det, irq, dev, joined, cpu>>
      PROVE  BusInv'
  BY <1>1 DEF BusInv, Shape, PlanKept, TodoKept, TxKept, DetKept, AskKept, Pending, Unanswered,
    Packet
<1>2. CASE TxStep
  BY <1>2, TransmitterInv, TxEopInv DEF TxStep
<1>3. CASE DevStep
  BY <1>3, DeviceInv
<1>4. CASE Begin
  BY <1>4, BeginInv
<1>5. CASE CpuWork
  BY <1>5, ParkReceiverInv, TxStartInv, TxWaitInv, TxSentInv, ReadInv, EndInv DEF CpuWork, ReadStep
<1>6. CASE Finish
  BY <1>6, FinishInv
<1>7. CASE TickQuiet \/ TickTotal \/ UNCHANGED vars
  BY <1>1, <1>7 DEF TickQuiet, TickTotal, vars
<1> QED
  BY <1>2, <1>3, <1>4, <1>5, <1>6, <1>7 DEF Next

LEMMA BusInvariant == Spec => []BusInv
  BY BusInvInit, BusInvNext, PTL DEF Spec

\* The host never receives a token, a data packet, a handshake or a SOF of its own
\* as a reply: however long an interrupt holds up the CPU, the detector is parked
\* while a packet is being sent (usb_transfer, pio_usb_bus_end_transaction).
THEOREM DeafWhileSending == Spec => []OwnPacketUnheard
<1>1. BusInv => OwnPacketUnheard
  BY DEF BusInv, TxKept, DetKept, Pending, OwnPacketUnheard, Sending
<1> QED
  BY <1>1, BusInvariant, PTL

\* Armed by the PIO at the end of the packet, the detector hears every reply from
\* its first bit (the patch of slot 0 in usb_transfer).
THEOREM RepliesHeardWhole == Spec => []WholeReplies
<1>1. BusInv => WholeReplies
  BY DEF BusInv, AskKept, WholeReplies
<1> QED
  BY <1>1, BusInvariant, PTL

-----------------------------------------------------------------------------
(* Types, and the room in the receive buffer.                                 *)

RoomKept ==
  /\ fifo \in Seq(Byte) /\ Len(fifo) <= FifoDepth
  /\ dev.left \in Seq(Byte)
  /\ cpu.buf \in Seq(Byte) /\ Len(cpu.buf) <= MaxPayload + 4

LEMMA BytesTaken ==
  ASSUME NEW s \in Seq(Byte)
  PROVE  /\ Len(s) \in Nat
         /\ s # <<>> => Head(s) \in Byte /\ Tail(s) \in Seq(Byte) /\ Len(Tail(s)) = Len(s) - 1
         /\ \A b \in Byte : Append(s, b) \in Seq(Byte) /\ Len(Append(s, b)) = Len(s) + 1
<1>1. Len(s) \in Nat
  BY LenProperties
<1>2. s # <<>> => Head(s) \in Byte /\ Tail(s) \in Seq(Byte) /\ Len(Tail(s)) = Len(s) - 1
  BY HeadTailProperties
<1>3. \A b \in Byte : Append(s, b) \in Seq(Byte) /\ Len(Append(s, b)) = Len(s) + 1
  BY AppendProperties
<1> QED
  BY <1>1, <1>2, <1>3

\* A reading step takes a byte, where there is room for it, or nothing, or gives up.
Taken ==
  /\ fifo # <<>> /\ Len(cpu.buf) < MaxPayload + 4 /\ cpu'.pc \in Receiving
  /\ fifo' = Tail(fifo) /\ cpu'.buf = Append(cpu.buf, Head(fifo))

LEMMA ReadTakes ==
  ASSUME BusInv, RoomKept, ReadStep
  PROVE  \/ fifo' = fifo /\ cpu'.buf = cpu.buf /\ cpu'.pc \in Receiving
         \/ fifo' = fifo /\ cpu'.buf = <<>> /\ cpu'.pc = "end"
         \/ Taken
<1>1. Len(cpu.buf) \in Nat /\ MaxPayload \in Nat
  BY BytesTaken, BusAssumption DEF RoomKept
<1> USE DEF Goto, Reads, Only, Fails
<1>2. CASE StartTime \/ StartFlag
  BY <1>2 DEF BusInv, Shape, StartTime, StartFlag, Receiving
<1>3. CASE RxFifo
  <2>1. CASE fifo = <<>> \/ Len(cpu.buf) >= MaxPayload + 4
    BY <1>3, <2>1 DEF BusInv, Shape, RxFifo, Receiving
  <2>2. CASE fifo # <<>> /\ ~(Len(cpu.buf) >= MaxPayload + 4)
    <3>1. fifo' = Tail(fifo) /\ cpu' = [cpu EXCEPT !.buf = Append(@, Head(fifo)), !.pc = "fifo"]
      BY <1>3, <2>2 DEF RxFifo, TakeByte
    <3>2. cpu'.buf = Append(cpu.buf, Head(fifo)) /\ cpu'.pc \in Receiving
      BY <3>1 DEF BusInv, Shape, Receiving
    <3>3. Len(cpu.buf) < MaxPayload + 4
      BY <1>1, <2>2
    <3> QED
      BY <2>2, <3>1, <3>2, <3>3 DEF Taken
  <2> QED
    BY <2>1, <2>2
<1>4. CASE RxFlag \/ RxTime \/ HsTime \/ HsFlag
  BY <1>4 DEF BusInv, Shape, RxFlag, RxTime, HsTime, HsFlag, Receiving
<1>5. CASE HsFifo
  <2>1. CASE ~(Len(cpu.buf) < 2 /\ fifo # <<>>)
    BY <1>5, <2>1 DEF BusInv, Shape, HsFifo, Receiving
  <2>2. CASE Len(cpu.buf) < 2 /\ fifo # <<>>
    <3>1. fifo' = Tail(fifo) /\ cpu' = [cpu EXCEPT !.buf = Append(@, Head(fifo)), !.pc = "hs_time"]
      BY <1>5, <2>2 DEF HsFifo, TakeByte
    <3>2. cpu'.buf = Append(cpu.buf, Head(fifo)) /\ cpu'.pc \in Receiving
      BY <3>1 DEF BusInv, Shape, Receiving
    <3>3. Len(cpu.buf) < MaxPayload + 4
      BY <1>1, <2>2
    <3> QED
      BY <2>2, <3>1, <3>2, <3>3 DEF Taken
  <2> QED
    BY <2>1, <2>2
<1> QED
  BY <1>2, <1>3, <1>4, <1>5 DEF ReadStep

LEMMA ReadRoom ==
  ASSUME BusInv, RoomKept, ReadStep
  PROVE  RoomKept'
<1>1. dev' = dev
  BY ReadChanges
<1>2. <<>> \in Seq(Byte) /\ Len(<<>>) = 0 /\ MaxPayload \in Nat
  BY BusAssumption
<1>3. CASE fifo' = fifo /\ cpu'.buf = cpu.buf
  BY <1>1, <1>3 DEF RoomKept
<1>4. CASE fifo' = fifo /\ cpu'.buf = <<>>
  <2>1. Len(cpu'.buf) <= MaxPayload + 4 /\ cpu'.buf \in Seq(Byte)
    BY <1>2, <1>4
  <2> QED
    BY <1>1, <1>4, <2>1 DEF RoomKept
<1>5. CASE Taken
  <2>1. fifo' \in Seq(Byte) /\ Len(fifo') <= FifoDepth
    BY <1>5, BytesTaken, BusAssumption DEF RoomKept, Taken
  <2>2. cpu'.buf \in Seq(Byte) /\ Len(cpu'.buf) <= MaxPayload + 4
    BY <1>2, <1>5, BytesTaken DEF RoomKept, Taken
  <2> QED
    BY <1>1, <2>1, <2>2 DEF RoomKept
<1> QED
  BY <1>3, <1>4, <1>5, ReadTakes

LEMMA DeviceRoom ==
  ASSUME BusInv, RoomKept, DevStep
  PROVE  RoomKept'
<1>1. cpu' = cpu
  BY DEF DevStep, DeviceReply, DeviceByte, DeviceEop, Outside
<1>2. dev'.left \in Seq(Byte)
  <2>1. CASE DeviceReply
    BY <2>1, ReplyForm DEF DeviceReply, AllReplies
  <2>2. CASE DeviceByte
    <3>1. dev'.left = dev.left \/ dev'.left = Tail(dev.left)
      BY <2>2 DEF BusInv, Shape, DeviceByte
    <3> QED
      BY <2>2, <3>1, BytesTaken DEF RoomKept, DeviceByte
  <2>3. CASE DeviceEop
    BY <2>3 DEF BusInv, Shape, DeviceEop
  <2> QED
    BY <2>1, <2>2, <2>3 DEF DevStep
<1>3. fifo' \in Seq(Byte) /\ Len(fifo') <= FifoDepth
  <2>1. CASE DeviceByte
    <3>1. fifo' = fifo \/ fifo' = Append(fifo, Head(dev.left))
      BY <2>1 DEF DeviceByte
    <3>2. Head(dev.left) \in Byte /\ Len(fifo) < FifoDepth /\ dev.left # <<>>
      BY <2>1, BytesTaken DEF DeviceByte, RoomKept
    <3>3. /\ fifo \in Seq(Byte) /\ Len(fifo) \in Nat /\ FifoDepth \in Nat
          /\ Append(fifo, Head(dev.left)) \in Seq(Byte)
          /\ Len(Append(fifo, Head(dev.left))) = Len(fifo) + 1
      BY <3>2, BytesTaken, BusAssumption DEF RoomKept
    <3> QED
      BY <3>1, <3>2, <3>3
  <2>2. CASE DeviceReply \/ DeviceEop
    BY <2>2 DEF DeviceReply, DeviceEop, RoomKept
  <2> QED
    BY <2>1, <2>2 DEF DevStep
<1> QED
  BY <1>1, <1>2, <1>3 DEF RoomKept

LEMMA RoomNext ==
  ASSUME BusInv, RoomKept, [Next]_vars
  PROVE  RoomKept'
<1>1. <<>> \in Seq(Byte) /\ Len(<<>>) = 0 /\ MaxPayload \in Nat /\ FifoDepth \in Nat
  BY BusAssumption
<1>2. ASSUME fifo' \in {fifo, <<>>}, dev'.left \in {dev.left, <<>>}, cpu'.buf \in {cpu.buf, <<>>}
      PROVE  RoomKept'
  <2>1. fifo' \in Seq(Byte) /\ Len(fifo') <= FifoDepth
    <3>1. CASE fifo' = fifo
      BY <3>1 DEF RoomKept
    <3>2. CASE fifo' = <<>>
      BY <1>1, <3>2
    <3> QED
      BY <1>2, <3>1, <3>2
  <2>2. dev'.left \in Seq(Byte)
    BY <1>1, <1>2 DEF RoomKept
  <2>3. cpu'.buf \in Seq(Byte) /\ Len(cpu'.buf) <= MaxPayload + 4
    <3>1. CASE cpu'.buf = cpu.buf
      BY <3>1 DEF RoomKept
    <3>2. CASE cpu'.buf = <<>>
      BY <1>1, <3>2
    <3> QED
      BY <1>2, <3>1, <3>2
  <2> QED
    BY <2>1, <2>2, <2>3 DEF RoomKept
<1>3. CASE TxStep
  BY <1>2, <1>3 DEF BusInv, Shape, TxStep, TxGap, TxQueue, TxEop, TxComp, TxStall, Hardware
<1>4. CASE DevStep
  BY <1>4, DeviceRoom
<1>5. CASE Begin
  BY <1>2, <1>5 DEF BusInv, Shape, Begin, CpuIdle
<1>6. CASE ParkReceiver \/ End
  <2>1. dev'.left \in {dev.left, <<>>}
    <3>1. dev' = dev \/ dev' = DevIdle \/ dev' = [dev EXCEPT !.fresh = FALSE, !.sent = <<>>]
      BY <1>6 DEF ParkReceiver, End, Stale
    <3>2. DevIdle.left = <<>>
      BY DEF DevIdle
    <3>3. [dev EXCEPT !.fresh = FALSE, !.sent = <<>>].left = dev.left
      BY DEF BusInv, Shape
    <3> QED
      BY <3>1, <3>2, <3>3
  <2>2. fifo' \in {fifo, <<>>} /\ cpu'.buf \in {cpu.buf, <<>>}
    BY <1>6 DEF BusInv, Shape, ParkReceiver, End, CpuIdle, Goto
  <2> QED
    BY <1>2, <2>1, <2>2
<1>7. CASE TxStart \/ TxClear \/ TxQueued \/ TxEopWait \/ TxCompWait
  BY <1>2, <1>7 DEF BusInv, Shape, TxStart, TxClear, TxQueued, TxEopWait, TxCompWait, Goto, Untimed
<1>8. CASE TxSent
  BY <1>2, <1>8 DEF BusInv, Shape, TxSent
<1>9. CASE ReadStep
  BY <1>9, ReadRoom
<1>10. CASE Finish
  BY <1>2, <1>10 DEF BusInv, Shape, Finish, Reads
<1>11. CASE TickQuiet \/ TickTotal \/ UNCHANGED vars
  BY <1>2, <1>11 DEF TickQuiet, TickTotal, vars
<1> QED
  BY <1>3, <1>4, <1>5, <1>6, <1>7, <1>8, <1>9, <1>10, <1>11 DEF Next, CpuWork, ReadStep

LEMMA RoomInvariant == Spec => [](BusInv /\ RoomKept)
<1>1. Init => BusInv /\ RoomKept
  BY BusInvInit, BusAssumption DEF Init, DevIdle, CpuIdle, RoomKept
<1>2. BusInv /\ RoomKept /\ [Next]_vars => (BusInv /\ RoomKept)'
  BY BusInvNext, RoomNext
<1> QED
  BY <1>1, <1>2, PTL DEF Spec

\* Type correctness: whatever arrives, and however long it goes on, the receive
\* buffer is never written beyond its end (the limit in
\* receive_packet_and_handshake_limit, the bound of wait_handshake).
THEOREM BusTypes == Spec => []TypeOK
<1>1. BusInv /\ RoomKept => TypeOK
  BY DEF BusInv, Shape, TxStates, CpuPcs, RoomKept, TypeOK
<1> QED
  BY <1>1, RoomInvariant, PTL

-----------------------------------------------------------------------------
(* What has been heard of which reply.                                        *)

\* The phases of a transaction: its own packets are not all out; they are, and an
\* answer may be heard.
Hush == cpu.pc \in Sending /\ Unanswered /\ (Pending \/ ~Packet.arm)
Listening ==
  \/ cpu.pc \in Receiving
  \/ cpu.pc \in Sending /\ Unanswered /\ ~Pending /\ Packet.arm

\* The line has yet to bring the bytes of r after the first j.
Coming(r, j) ==
  /\ dev.babble = r.babble
  /\ dev.left = IF r.babble THEN <<USB_SYNC>> ELSE SubSeq(r.left, j + 1, Len(r.left))

\* The CPU has read the bytes i to m of r, and the FIFO holds the next ones up to j;
\* of a babbling line they are all alike.
Read(r, i, m) ==
  IF r.babble THEN cpu.buf \in Seq({USB_SYNC}) ELSE cpu.buf = SubSeq(r.left, i, m)
Held(r, m, j) ==
  IF r.babble THEN fifo \in Seq({USB_SYNC}) ELSE fifo = SubSeq(r.left, m + 1, j)

\* r is what the device sent in answer to this transaction.
SentNow(r) ==
  dev.sent = r.sent /\ r \in IF cpu.kind = "OUT" THEN Replies.out ELSE Replies.in

Nothing == cpu.buf = <<>> /\ fifo = <<>>

\* One reply is heard, from its first byte on only if it is fresh.
HeardOf(r, i, m, j) ==
  /\ dev.pc = "replying" => Coming(r, j)
  /\ dev.fresh => SentNow(r)
  /\ Read(r, i, m) /\ Held(r, m, j)
  /\ dev.pc = "replying" /\ det # "busy" => Nothing
  /\ i = 1 => dev.fresh \/ (det # "busy" /\ Nothing)

HeardOne ==
  /\ dev.pc # "asked"
  /\ \E r \in AllReplies : \E i \in 1..Len(r.left) + 1 :
       \E m \in i - 1 .. Len(r.left) : \E j \in m..Len(r.left) : HeardOf(r, i, m, j)

\* The transaction has ended, refused by the device or without an answer.
Refused == ~cpu.result.ok /\ cpu.result.pid \in Handshakes

HeardKept ==
  /\ dev.pc = "replying" => \E r \in AllReplies : \E j \in 0..Len(r.left) : Coming(r, j)
  /\ cpu.pc \notin Receiving => cpu.buf = <<>>
  /\ Hush => Nothing
  /\ Listening => (dev.pc # "replying" /\ Nothing) \/ HeardOne
  /\ Refused => cpu.pc = "end"
  /\ cpu.result.ok \/ Refused => dev.pc # "asked" /\ AcceptedIsSent

LEMMA NoAnswer == 0 \notin Handshakes
BY DEF Handshakes, USB_PID_ACK, USB_PID_NAK, USB_PID_STALL

\* Slices of a reply.
LEMMA SliceEmpty ==
  ASSUME NEW l \in Seq(Byte), NEW i \in 1..Len(l) + 1
  PROVE  SubSeq(l, i, i - 1) = <<>>
<1>1. Len(l) \in Nat
  BY LenProperties
<1> QED
  BY <1>1, SubSeqEmpty

LEMMA SliceHead ==
  ASSUME NEW l \in Seq(Byte), NEW i \in 1..Len(l) + 1, NEW m \in i - 1 .. Len(l),
         SubSeq(l, i, m) # <<>>
  PROVE  /\ m >= i /\ Head(SubSeq(l, i, m)) = l[i] /\ l[i] \in Byte
         /\ Tail(SubSeq(l, i, m)) = SubSeq(l, i + 1, m)
<1>1. Len(l) \in Nat /\ l \in [1..Len(l) -> Byte]
  BY LenProperties
<1>2. m >= i
  <2>1. m < i => SubSeq(l, i, m) = <<>>
    BY <1>1, SubSeqEmpty
  <2> QED
    BY <1>1, <2>1
<1>3. i \in 1..Len(l) /\ m \in i..Len(l)
  BY <1>1, <1>2
<1> QED
  BY <1>1, <1>2, <1>3, HeadTailOfSubSeq

LEMMA SliceAppend ==
  ASSUME NEW l \in Seq(Byte), NEW i \in 1..Len(l) + 1, NEW m \in i - 1 .. Len(l), m < Len(l)
  PROVE  Append(SubSeq(l, i, m), l[m + 1]) = SubSeq(l, i, m + 1)
<1>1. Len(l) \in Nat /\ l \in [1..Len(l) -> Byte]
  BY LenProperties
<1>2. i \in 1..Len(l) /\ m + 1 \in i..Len(l) /\ m + 1 - 1 = m /\ m + 1 \in 1..Len(l) /\ m \in Int
  BY <1>1
<1>3. SubSeq(l, i, m + 1) = SubSeq(l, i, m) \o <<l[m + 1]>>
  <2> HIDE <1>1
  <2>1. SubSeq(l, i, m + 1) = SubSeq(l, i, m + 1 - 1) \o <<l[m + 1]>>
    BY <1>2, SubSeqRecursiveSecond
  <2> QED
    BY <1>2, <2>1
<1>4. SubSeq(l, i, m) \in Seq(Byte) /\ l[m + 1] \in Byte
  <2>1. \A k \in i..m : l[k] \in Byte
    BY <1>1, <1>2
  <2> QED
    BY <1>1, <1>2, <2>1, SubSeqProperties
<1> QED
  BY <1>3, <1>4, AppendIsConcat

\* A step after which nothing is listened to.
LEMMA HeardApart ==
  ASSUME HeardKept, ~Listening', Hush' => Nothing', cpu'.buf = <<>>, ~cpu'.result.ok, ~Refused',
         dev'.pc = "replying" =>
           dev.pc = "replying" /\ dev'.left = dev.left /\ dev'.babble = dev.babble
  PROVE  HeardKept'
BY DEF HeardKept, Coming

\* A step that changes nothing of what has been heard.
LEMMA HeardFrame ==
  ASSUME HeardKept, fifo' = fifo, dev' = dev, det' = "busy" <=> det = "busy",
         cpu'.buf = cpu.buf, cpu'.kind = cpu.kind, cpu'.result = cpu.result,
         Hush' => Hush, Listening' => Listening, cpu.pc = "end" => cpu'.pc = "end",
         cpu'.pc \notin Receiving => cpu.pc \notin Receiving
  PROVE  HeardKept'
<1>1. Nothing' <=> Nothing
  BY DEF Nothing
<1>2. \A r : SentNow(r)' <=> SentNow(r)
  BY DEF SentNow
<1>3. \A r, i, m, j : HeardOf(r, i, m, j) => HeardOf(r, i, m, j)'
  BY <1>1, <1>2 DEF HeardOf, Coming, Read, Held
<1>4. HeardOne => HeardOne'
  BY <1>3 DEF HeardOne
<1>5. (AcceptedIsSent => AcceptedIsSent') /\ (Refused' <=> Refused)
  BY DEF AcceptedIsSent, Accepted, Refused
<1> QED
  BY <1>1, <1>4, <1>5 DEF HeardKept, Coming

\* The transmitter opens the listening phase, with nothing heard.
LEMMA HeardTransmit ==
  ASSUME BusInv, RoomKept, HeardKept, TxStep
  PROVE  HeardKept'
<1>1. cpu' = cpu /\ fifo' = fifo /\ Packet' = Packet /\ Unanswered' = Unanswered
  BY DEF TxStep, TxGap, TxQueue, TxEop, TxComp, TxStall, Hardware, Packet, Unanswered
<1>2. CASE TxGap \/ TxQueue \/ TxComp \/ TxStall
  <2>1. dev' = dev /\ det' = det /\ (Pending' <=> Pending)
    BY <1>1, <1>2 DEF BusInv, Shape, TxStates, Pending, TxGap, TxQueue, TxComp, TxStall, Hardware
  <2>2. (Hush' <=> Hush) /\ (Listening' <=> Listening)
    BY <1>1, <2>1 DEF Hush, Listening
  <2> QED
    BY <1>1, <2>1, <2>2, HeardFrame
<1>3. CASE TxEop
  <2>1. /\ cpu.pc \in Sending \ {"send"} /\ Pending /\ det = "parked" /\ det' # "busy"
        /\ Packet.arm \in BOOLEAN /\ (Packet.arm => Unanswered)
    BY <1>3 DEF BusInv, Shape, TxKept, DetKept, PlanKept, TodoKept, Unanswered, Pending,
               TxEop, Unpark, Sending
  <2>2. \/ dev' = dev /\ ~(Packet.arm /\ dev.pc = "idle")
        \/ /\ Packet.arm /\ dev.pc = "idle" /\ dev'.pc = "asked"
    BY <1>3 DEF BusInv, Shape, TxKept, TxEop
  <2>3. CASE ~Packet.arm
    <3>1. dev' = dev /\ (Hush' => Hush) /\ ~Listening'
      BY <1>1, <2>1, <2>2, <2>3 DEF Hush, Listening, Sending, Receiving
    <3> QED
      BY <1>1, <2>1, <3>1, HeardFrame
  <2>4. CASE Packet.arm
    <3>1. /\ Hush /\ Nothing /\ Nothing' /\ ~Hush' /\ ~dev.fresh /\ dev.pc # "asked"
          /\ ~cpu.result.ok /\ ~Refused /\ ~Refused'
      <4>1. Hush
        BY <2>1, <2>4 DEF Hush
      <4>2. ~Pending'
        BY <1>1, <1>3, <2>1 DEF BusInv, Shape, TxStates, TxEop, Pending
      <4> QED
        BY <1>1, <2>1, <2>4, <4>1, <4>2 DEF Hush, HeardKept, Nothing, BusInv, AskKept, Unanswered,
          Refused, Sending
    <3>2. CASE dev.pc = "replying"
      <4>0. PICK r \in AllReplies : \E j \in 0..Len(r.left) : Coming(r, j)
        BY <3>2 DEF HeardKept
      <4>1. PICK j \in 0..Len(r.left) : Coming(r, j)
        BY <4>0
      <4>2. r.left \in Seq(Byte) /\ Len(r.left) \in Nat
        BY ReplyForm, LenProperties
      <4>3. j + 1 \in 1..Len(r.left) + 1 /\ j \in j + 1 - 1 .. Len(r.left) /\ j \in j..Len(r.left)
            /\ j + 1 - 1 = j
        BY <4>2
      <4>4. SubSeq(r.left, j + 1, j) = <<>>
        BY <4>2, <4>3, SliceEmpty
      <4>5. dev' = dev
        BY <2>2, <3>2
      <4>6. HeardOf(r, j + 1, j, j)'
        <5>1. <<>> \in Seq({USB_SYNC})
          OBVIOUS
        <5> QED
          BY <2>1, <3>1, <4>1, <4>4, <4>5, <5>1 DEF HeardOf, Coming, Read, Held, Nothing
      <4>7. HeardOne'
        BY <3>1, <4>3, <4>5, <4>6 DEF HeardOne
      <4> QED
        BY <1>1, <3>1, <4>5, <4>7 DEF HeardKept, Coming
    <3>3. CASE dev.pc # "replying"
      <4>1. dev'.pc # "replying"
        BY <2>2, <3>3
      <4> QED
        BY <1>1, <3>1, <4>1 DEF HeardKept
    <3> QED
      BY <3>2, <3>3
  <2> QED
    BY <2>1, <2>3, <2>4
<1> QED
  BY <1>2, <1>3 DEF TxStep


\* A step of the device is heard as the line and the detector have it.
LEMMA HeardDevice ==
  ASSUME BusInv, HeardKept, DevStep
  PROVE  HeardKept'
<1>1. /\ UNCHANGED <<tx, cpu>> /\ (Hush' <=> Hush) /\ (Listening' <=> Listening)
      /\ dev'.pc # "asked"
  <2>1. UNCHANGED <<tx, cpu>>
    BY DEF DevStep, DeviceReply, DeviceByte, DeviceEop, Outside
  <2>2. dev'.pc # "asked"
    <3>1. CASE DeviceReply
      <4>1. dev' \in AllReplies
        BY <3>1 DEF DeviceReply, AllReplies
      <4> QED
        BY <4>1, ReplyForm DEF IsReply
    <3>2. CASE DeviceByte \/ DeviceEop
      BY <3>2 DEF BusInv, Shape, DeviceByte, DeviceEop
    <3> QED
      BY <3>1, <3>2 DEF DevStep
  <2> QED
    BY <2>1, <2>2 DEF Hush, Listening, Pending, Unanswered, Packet
<1>2. Hush' => Nothing'
  <2>1. Hush => det = "parked"
    BY DEF BusInv, DetKept, Hush
  <2>2. det = "parked" => fifo' = fifo
    BY DEF DevStep, DeviceReply, DeviceByte, DeviceEop
  <2> QED
    BY <1>1, <2>1, <2>2 DEF HeardKept, Nothing
<1>3. (Refused' <=> Refused) /\ (cpu'.result.ok \/ Refused' => AcceptedIsSent')
  <2>1. ASSUME cpu.result.ok \/ Refused
        PROVE  dev'.fresh = dev.fresh /\ dev'.sent = dev.sent
    BY <2>1 DEF HeardKept, BusInv, Shape, DevStep, DeviceReply, DeviceByte, DeviceEop
  <2>2. Refused' <=> Refused
    BY <1>1 DEF Refused
  <2> QED
    BY <1>1, <2>1, <2>2 DEF HeardKept, AcceptedIsSent, Accepted
<1>4. ASSUME dev'.pc = "replying" => \E r \in AllReplies : \E j \in 0..Len(r.left) : Coming(r, j)',
             Listening => HeardOne'
      PROVE  HeardKept'
  BY <1>1, <1>2, <1>3, <1>4 DEF HeardKept
<1>5. ASSUME NEW r \in AllReplies
      PROVE  /\ Len(r.left) \in Nat /\ r.left \in Seq(Byte) /\ IsReply(r)
             /\ r.babble => r.left = <<USB_SYNC>> /\ Len(r.left) = 1
  <2>1. IsReply(r) /\ r.left \in Seq(Byte) /\ (r.babble => r.left = <<USB_SYNC>>)
    BY ReplyForm DEF IsReply
  <2>2. Len(r.left) \in Nat
    BY <2>1, LenProperties
  <2>3. Len(<<USB_SYNC>>) = 1
    OBVIOUS
  <2> QED
    BY <2>1, <2>2, <2>3
<1>6. <<>> \in Seq({USB_SYNC}) /\ \A s \in Seq({USB_SYNC}) : Append(s, USB_SYNC) \in Seq({USB_SYNC})
  OBVIOUS
<1>7. CASE DeviceReply
  <2>1. PICK r \in AllReplies : dev' = r
    BY <1>7 DEF DeviceReply, AllReplies
  <2>0. dev'.pc = "replying" /\ dev'.fresh = TRUE /\ fifo' = fifo
    BY <1>5, <1>7, <2>1 DEF DeviceReply, IsReply
  <2>2. /\ Len(r.left) \in Nat /\ r.left \in Seq(Byte) /\ (r.babble => r.left = <<USB_SYNC>>)
        /\ SubSeq(r.left, 1, 0) = <<>> /\ SubSeq(r.left, 0 + 1, Len(r.left)) = r.left
    <3>1. Len(r.left) \in Nat /\ r.left \in Seq(Byte) /\ (r.babble => r.left = <<USB_SYNC>>)
      BY <1>5
    <3>2. 1 \in 1..Len(r.left) + 1 /\ 1 - 1 = 0 /\ 0 + 1 = 1
      BY <3>1
    <3>3. SubSeq(r.left, 1, 0) = <<>>
      BY <3>1, <3>2, SliceEmpty
    <3> QED
      BY <3>1, <3>2, <3>3, SubSeqFull
  <2>3. Coming(r, 0)' /\ 0 \in 0..Len(r.left)
    <3>1. dev'.babble = r.babble /\ dev'.left = r.left /\ 0 \in 0..Len(r.left)
      BY <2>1, <2>2
    <3>2. dev'.left = IF r.babble THEN <<USB_SYNC>> ELSE SubSeq(r.left, 0 + 1, Len(r.left))
      BY <2>2, <3>1
    <3> QED
      BY <3>1, <3>2 DEF Coming
  <2>4. ASSUME Listening PROVE HeardOne'
    <3>1. Nothing'
      BY <1>1, <1>7, <2>0, <2>4 DEF HeardKept, HeardOne, Nothing, DeviceReply
    <3>2. SentNow(r)'
      BY <1>1, <1>7, <2>1 DEF SentNow, DeviceReply
    <3>3. Read(r, 1, 0)' /\ Held(r, 0, 0)'
      <4>1. 0 + 1 = 1
        OBVIOUS
      <4> QED
        BY <1>6, <2>2, <3>1, <4>1 DEF Read, Held, Nothing
    <3>4. HeardOf(r, 1, 0, 0)'
      BY <2>0, <2>3, <3>1, <3>2, <3>3 DEF HeardOf
    <3>5. 1 \in 1..Len(r.left) + 1 /\ 0 \in 1 - 1 .. Len(r.left) /\ 0 \in 0..Len(r.left)
      BY <2>2
    <3> QED
      BY <1>1, <3>4, <3>5 DEF HeardOne
  <2> QED
    BY <1>4, <2>3, <2>4
<1>8. CASE DeviceByte
  <2>1. /\ dev.pc = "replying" /\ dev'.pc = "replying" /\ dev.left # <<>>
        /\ dev'.babble = dev.babble /\ dev'.sent = dev.sent /\ dev'.fresh = dev.fresh
        /\ dev'.left = IF dev.babble /\ Len(dev.left) = 1 THEN dev.left ELSE Tail(dev.left)
    BY <1>8 DEF BusInv, Shape, DeviceByte
  <2>2. ASSUME NEW r \in AllReplies, NEW j \in 0..Len(r.left), Coming(r, j)
        PROVE  IF r.babble
               THEN Head(dev.left) = USB_SYNC /\ \A k : Coming(r, k)'
               ELSE j < Len(r.left) /\ Head(dev.left) = r.left[j + 1] /\ Coming(r, j + 1)'
    <3>1. CASE r.babble
      <4>1. dev.left = <<USB_SYNC>> /\ dev.babble /\ Len(dev.left) = 1 /\ Head(dev.left) = USB_SYNC
        BY <2>2, <3>1 DEF Coming
      <4>2. dev'.left = <<USB_SYNC>> /\ dev'.babble = r.babble
        BY <2>1, <2>2, <4>1 DEF Coming
      <4> QED
        BY <3>1, <4>1, <4>2 DEF Coming
    <3>2. CASE ~r.babble
      <4>1. dev.left = SubSeq(r.left, j + 1, Len(r.left)) /\ ~dev.babble
        BY <2>2, <3>2 DEF Coming
      <4>2. j + 1 \in 1..Len(r.left) + 1 /\ Len(r.left) \in j + 1 - 1 .. Len(r.left)
        BY <1>5
      <4>3. /\ Len(r.left) >= j + 1 /\ Head(dev.left) = r.left[j + 1]
            /\ Tail(dev.left) = SubSeq(r.left, j + 1 + 1, Len(r.left))
        BY <1>5, <2>1, <4>1, <4>2, SliceHead
      <4>4. dev'.left = SubSeq(r.left, j + 1 + 1, Len(r.left)) /\ dev'.babble = r.babble
        BY <2>1, <2>2, <4>1, <4>3 DEF Coming
      <4>5. j < Len(r.left)
        BY <1>5, <4>3
      <4> QED
        BY <3>2, <4>3, <4>4, <4>5 DEF Coming
    <3> QED
      BY <3>1, <3>2
  <2>3. \E r \in AllReplies : \E j \in 0..Len(r.left) : Coming(r, j)'
    <3>1. PICK r \in AllReplies : \E j \in 0..Len(r.left) : Coming(r, j)
      BY <2>1 DEF HeardKept
    <3>2. PICK j \in 0..Len(r.left) : Coming(r, j)
      BY <3>1
    <3>3. CASE r.babble
      BY <2>2, <3>2, <3>3
    <3>4. CASE ~r.babble
      <4>1. j + 1 \in 0..Len(r.left) /\ Coming(r, j + 1)'
        BY <1>5, <2>2, <3>2, <3>4
      <4> QED
        BY <4>1
    <3> QED
      BY <3>3, <3>4
  <2>4. ASSUME Listening PROVE HeardOne'
    <3>1. PICK r \in AllReplies : \E i \in 1..Len(r.left) + 1 :
            \E m \in i - 1 .. Len(r.left) : \E j \in m..Len(r.left) : HeardOf(r, i, m, j)
      BY <2>1, <2>4 DEF HeardKept, HeardOne
    <3>2. PICK i \in 1..Len(r.left) + 1 :
            \E m \in i - 1 .. Len(r.left) : \E j \in m..Len(r.left) : HeardOf(r, i, m, j)
      BY <3>1
    <3>3. PICK m \in i - 1 .. Len(r.left) : \E j \in m..Len(r.left) : HeardOf(r, i, m, j)
      BY <3>2
    <3>4. PICK j \in m..Len(r.left) : HeardOf(r, i, m, j)
      BY <3>3
    <3>5. /\ Coming(r, j) /\ (dev.fresh => SentNow(r)) /\ Read(r, i, m) /\ Held(r, m, j)
          /\ (det # "busy" => Nothing)
          /\ (i = 1 => dev.fresh \/ (det # "busy" /\ Nothing))
      BY <2>1, <3>4 DEF HeardOf
    <3>6. (dev'.fresh => SentNow(r)') /\ (Read(r, i, m)' <=> Read(r, i, m))
      BY <1>1, <2>1, <3>5 DEF SentNow, Read
    <3>7. Len(r.left) \in Nat /\ i \in Nat /\ m \in Nat /\ j \in Nat /\ j \in 0..Len(r.left)
      BY <1>5
    <3>8. CASE det = "busy"
      <4>1. det' = "busy" /\ fifo' = Append(fifo, Head(dev.left))
        BY <1>8, <3>8 DEF DeviceByte
      <4>2. CASE r.babble
        <5>1. Coming(r, j)' /\ Held(r, m, j)'
          BY <1>6, <2>2, <3>5, <3>7, <4>1, <4>2 DEF Held
        <5>2. HeardOf(r, i, m, j)'
          BY <2>1, <3>5, <3>6, <3>8, <4>1, <5>1 DEF HeardOf
        <5> QED
          BY <1>1, <5>2 DEF HeardOne
      <4>3. CASE ~r.babble
        <5>1. j < Len(r.left) /\ Head(dev.left) = r.left[j + 1] /\ Coming(r, j + 1)'
          BY <2>2, <3>5, <3>7, <4>3
        <5>2. m + 1 \in 1..Len(r.left) + 1 /\ j \in m + 1 - 1 .. Len(r.left)
              /\ j + 1 \in m..Len(r.left)
          BY <3>7, <5>1
        <5>3. Held(r, m, j + 1)'
          <6>1. Append(SubSeq(r.left, m + 1, j), r.left[j + 1]) = SubSeq(r.left, m + 1, j + 1)
            BY <1>5, <5>1, <5>2, SliceAppend
          <6> QED
            BY <3>5, <4>1, <4>3, <5>1, <6>1 DEF Held
        <5>4. HeardOf(r, i, m, j + 1)'
          BY <2>1, <3>5, <3>6, <3>8, <4>1, <5>1, <5>3 DEF HeardOf
        <5> QED
          BY <1>1, <5>2, <5>4 DEF HeardOne
      <4> QED
        BY <4>2, <4>3
    <3>9. CASE det # "busy"
      <4>1. Nothing /\ Nothing'
        BY <1>1, <1>8, <3>5, <3>9 DEF DeviceByte, Nothing
      <4>2. CASE r.babble
        <5>1. Coming(r, 1)' /\ Read(r, 2, 1)' /\ Held(r, 1, 1)'
          BY <1>6, <2>2, <3>5, <3>7, <4>1, <4>2 DEF Held, Read, Nothing
        <5>2. HeardOf(r, 2, 1, 1)'
          BY <2>1, <3>6, <4>1, <5>1 DEF HeardOf
        <5>3. 2 \in 1..Len(r.left) + 1 /\ 1 \in 2 - 1 .. Len(r.left) /\ 1 \in 1..Len(r.left)
          <6>1. Len(r.left) = 1
            BY <1>5, <4>2
          <6> QED
            BY <6>1
        <5> QED
          BY <1>1, <5>2, <5>3 DEF HeardOne
      <4>3. CASE ~r.babble
        <5>1. j < Len(r.left) /\ Coming(r, j + 1)'
          BY <2>2, <3>5, <3>7, <4>3
        <5>2. /\ j + 2 \in 1..Len(r.left) + 1 /\ j + 1 \in j + 2 - 1 .. Len(r.left)
              /\ j + 1 \in j + 1 .. Len(r.left) /\ j + 2 - 1 = j + 1 /\ j + 1 + 1 = j + 2
              /\ j + 2 # 1
          BY <3>7, <5>1
        <5>3. SubSeq(r.left, j + 2, j + 1) = <<>>
          BY <1>5, <5>2, SliceEmpty
        <5>4. Read(r, j + 2, j + 1)' /\ Held(r, j + 1, j + 1)'
          BY <4>1, <4>3, <5>2, <5>3 DEF Read, Held, Nothing
        <5>5. HeardOf(r, j + 2, j + 1, j + 1)'
          BY <2>1, <3>6, <4>1, <5>1, <5>2, <5>4 DEF HeardOf
        <5> QED
          BY <1>1, <5>2, <5>5 DEF HeardOne
      <4> QED
        BY <4>2, <4>3
    <3> QED
      BY <3>8, <3>9
  <2> QED
    BY <1>4, <2>3, <2>4
<1>9. CASE DeviceEop
  <2>1. /\ dev.pc = "replying" /\ dev'.pc = "idle" /\ fifo' = fifo
        /\ dev'.sent = dev.sent /\ dev'.fresh = dev.fresh
        /\ (det # "busy" => det' = det)
    BY <1>9 DEF BusInv, Shape, DeviceEop
  <2>2. Nothing' <=> Nothing
    BY <1>1, <2>1 DEF Nothing
  <2>3. \A r, i, m, j : HeardOf(r, i, m, j) => HeardOf(r, i, m, j)'
    BY <1>1, <2>1, <2>2 DEF HeardOf, SentNow, Read, Held
  <2>4. HeardOne => HeardOne'
    BY <1>1, <2>3 DEF HeardOne
  <2> QED
    BY <1>4, <2>1, <2>4 DEF HeardKept
<1> QED
  BY <1>7, <1>8, <1>9 DEF DevStep

\* The CPU's steps from packet to packet, up to the phase in which it listens.
LEMMA HeardSend ==
  ASSUME BusInv, HeardKept,
         Begin \/ ParkReceiver \/ TxStart \/ TxClear \/ TxQueued \/ TxEopWait \/ TxCompWait
           \/ TxSent \/ End
  PROVE  HeardKept'
<1>1. CASE Begin
  <2>1. /\ fifo' = fifo /\ dev' = dev /\ cpu'.buf = <<>> /\ cpu'.result.ok = FALSE /\ ~Refused'
        /\ cpu'.pc = "park" \/ (cpu'.pc = "send" /\ cpu'.kind = "SOF")
    <3>1. ASSUME NEW pc, NEW kind, NEW todo,
                 cpu' = [CpuIdle EXCEPT !.pc = pc, !.kind = kind, !.todo = todo]
          PROVE  /\ cpu'.pc = pc /\ cpu'.kind = kind
                 /\ cpu'.buf = <<>> /\ cpu'.result.ok = FALSE /\ ~Refused'
      BY <3>1, NoAnswer DEF CpuIdle, None, Refused
    <3>2. CASE \E n \in SofCounts :
                 cpu' = [CpuIdle EXCEPT !.pc = "send", !.kind = "SOF",
                           !.todo = <<Sets(SofToken(n))>>]
      BY <1>1, <3>1, <3>2 DEF Begin
    <3>3. CASE \E a \in Addresses :
                 \/ \E kind \in {"IN", "ISO"} :
                      cpu' = [CpuIdle EXCEPT !.pc = "park", !.kind = kind,
                                !.todo = <<Arms(AddressToken(USB_PID_IN, a[1], a[2]))>>]
                 \/ \E p \in Payloads :
                      cpu' = [CpuIdle EXCEPT !.pc = "park", !.kind = "OUT",
                                !.todo = <<Sets(AddressToken(USB_PID_OUT, a[1], a[2])),
                                           Arms(DataPacket(USB_PID_DATA1, p))>>]
      BY <1>1, <3>1, <3>3 DEF Begin
    <3> QED
      BY <1>1, <3>2, <3>3 DEF Begin
  <2>2. ~Listening' /\ ~Hush'
    BY <2>1 DEF Listening, Hush, Unanswered, Sending, Receiving
  <2> QED
    BY <2>1, <2>2, HeardApart
<1>2. CASE ParkReceiver
  <2>1. /\ cpu.pc = "park" /\ cpu'.pc = "send" /\ cpu'.buf = cpu.buf /\ cpu'.result = cpu.result
        /\ fifo' = <<>>
    BY <1>2 DEF BusInv, Shape, ParkReceiver, Goto
  <2>2. cpu.buf = <<>> /\ ~cpu.result.ok /\ ~Refused'
    BY <2>1 DEF BusInv, PlanKept, Unanswered, HeardKept, Receiving, Refused
  <2>3. ~Listening' /\ Nothing'
    BY <2>1, <2>2 DEF Listening, Pending, Nothing, Receiving
  <2>4. dev'.pc = "replying" =>
          dev.pc = "replying" /\ dev'.left = dev.left /\ dev'.babble = dev.babble
    BY <1>2 DEF BusInv, Shape, ParkReceiver, Stale, DevIdle
  <2> QED
    BY <2>1, <2>2, <2>3, <2>4, HeardApart
<1>3. CASE TxStart
  <2>1. /\ fifo' = fifo /\ dev' = dev /\ det' = det /\ cpu.pc = "send" /\ tx'.pc = "data"
        /\ cpu'.pc \in {"dma", "clear"} /\ Packet.arm \in BOOLEAN
        /\ cpu' = [cpu EXCEPT !.pc = cpu'.pc]
    <3>1. /\ fifo' = fifo /\ dev' = dev /\ det' = det /\ cpu.pc = "send"
          /\ Packet.arm \in BOOLEAN
      BY <1>3 DEF TxStart, Untimed, BusInv, Shape, PlanKept, TodoKept, Unanswered, Sending
    <3>2. cpu' = [cpu EXCEPT !.pc = IF Packet.arm THEN "dma" ELSE "clear"]
      BY <1>3 DEF TxStart, Goto
    <3>3. TxKept'
      BY <1>3, TxStartInv DEF BusInv
    <3>4. tx'.pc = "data"
      BY <1>3, <3>1 DEF TxStart, BusInv, Shape, TxStates
    <3> QED
      BY <3>1, <3>2, <3>4 DEF BusInv, Shape
  <2>2. /\ cpu'.buf = cpu.buf /\ cpu'.kind = cpu.kind /\ cpu'.result = cpu.result
        /\ Packet' = Packet /\ Unanswered' = Unanswered
    BY <2>1, SendingShape DEF CpuPcs, Sending
  <2>3. (Hush' => Hush) /\ (Listening' => Listening)
        /\ cpu'.pc \notin Receiving /\ cpu.pc \notin Receiving
    BY <2>1, <2>2 DEF Hush, Listening, Pending, Sending, Receiving
  <2> QED
    BY <2>1, <2>2, <2>3, HeardFrame
<1>4. CASE TxClear \/ TxQueued \/ TxEopWait \/ TxCompWait
  <2>1. /\ fifo' = fifo /\ dev' = dev /\ det' = det /\ tx'.pc = tx.pc
        /\ cpu.pc \in Sending \ {"send"} /\ cpu'.pc \in Sending \ {"send"}
        /\ cpu' = [cpu EXCEPT !.pc = cpu'.pc]
    BY <1>4 DEF BusInv, Shape, TxStates, TxClear, TxQueued, TxEopWait, TxCompWait, Untimed,
               Goto, Sending
  <2>2. /\ cpu'.buf = cpu.buf /\ cpu'.kind = cpu.kind /\ cpu'.result = cpu.result
        /\ Packet' = Packet /\ Unanswered' = Unanswered
    BY <2>1, SendingShape DEF CpuPcs
  <2>3. (Hush' => Hush) /\ (Listening' => Listening)
        /\ cpu'.pc \notin Receiving /\ cpu.pc \notin Receiving \cup {"end"}
    BY <2>1, <2>2 DEF Hush, Listening, Pending, Sending, Receiving
  <2> QED
    BY <2>1, <2>2, <2>3, HeardFrame
<1>5. CASE TxSent
  <2>1. /\ fifo' = fifo /\ dev' = dev /\ tx' = tx /\ cpu.pc = "sent" /\ ~Pending
        /\ cpu'.buf = cpu.buf /\ cpu'.kind = cpu.kind /\ cpu'.result = cpu.result
        /\ cpu'.pc = IF Len(cpu.todo) > 1 THEN "send"
                     ELSE IF Packet.arm THEN "start_time" ELSE "end"
        /\ (det' = "busy" <=> det = "busy")
    BY <1>5 DEF BusInv, Shape, TxKept, Pending, TxSent, Unpark
  <2>2. TodoKept /\ Unanswered' = Unanswered
    BY <2>1 DEF BusInv, PlanKept, Sending, Unanswered
  <2>3. CASE Len(cpu.todo) = 2
    <3>1. cpu'.pc = "send" /\ Pending' /\ Hush
      BY <2>1, <2>2, <2>3 DEF TodoKept, Pending, Hush, Sending
    <3>2. ~Listening' /\ cpu.pc \notin Receiving
      BY <2>1, <3>1 DEF Listening, Receiving
    <3> QED
      BY <2>1, <3>1, <3>2, HeardFrame
  <2>4. CASE cpu.todo = <<Packet>>
    <3>1. Len(cpu.todo) = 1 /\ Packet.arm = Unanswered
      BY <2>2, <2>4 DEF TodoKept
    <3>2. cpu'.pc = IF Packet.arm THEN "start_time" ELSE "end"
      BY <2>1, <3>1
    <3>3. ~Hush' /\ cpu.pc \notin Receiving
      BY <2>1, <3>2 DEF Hush, Sending, Receiving
    <3>4. Listening' => Listening
      BY <2>1, <3>1, <3>2 DEF Listening, Sending, Receiving
    <3> QED
      BY <2>1, <3>3, <3>4, HeardFrame
  <2> QED
    BY <2>2, <2>3, <2>4 DEF TodoKept
<1>6. CASE End
  <2>1. cpu'.pc = "idle" /\ cpu'.buf = <<>> /\ cpu'.result.ok = FALSE /\ ~Refused'
    BY <1>6, NoAnswer DEF End, CpuIdle, None, Refused
  <2>2. ~Listening' /\ ~Hush'
    BY <2>1 DEF Listening, Hush, Sending, Receiving
  <2>3. dev'.pc = "replying" =>
          dev.pc = "replying" /\ dev'.left = dev.left /\ dev'.babble = dev.babble
    BY <1>6 DEF BusInv, Shape, End, Stale, DevIdle
  <2> QED
    BY <2>1, <2>2, <2>3, HeardApart
<1> QED
  BY <1>1, <1>2, <1>3, <1>4, <1>5, <1>6

\* What has been read is a piece of one reply, that of the device to this transaction
\* if it is read from its first byte on.
LEMMA HeardPiece ==
  ASSUME BusInv, RoomKept, HeardKept, Listening, cpu.buf # <<>>
  PROVE  /\ dev.pc # "asked"
         /\ \E r \in AllReplies : \E i \in 1..Len(r.left) + 1 :
              /\ cpu.buf \in Pieces(r, i)
              /\ (dev.fresh => SentNow(r)) /\ (i = 1 => dev.fresh)
<1>1. ~Nothing
  BY DEF Nothing
<1>2. dev.pc # "asked"
  BY <1>1 DEF HeardKept, HeardOne
<1>3. PICK r \in AllReplies : \E i \in 1..Len(r.left) + 1 :
        \E m \in i - 1 .. Len(r.left) : \E j \in m..Len(r.left) : HeardOf(r, i, m, j)
  BY <1>1 DEF HeardKept, HeardOne
<1>4. PICK i \in 1..Len(r.left) + 1 :
        \E m \in i - 1 .. Len(r.left) : \E j \in m..Len(r.left) : HeardOf(r, i, m, j)
  BY <1>3
<1>5. PICK m \in i - 1 .. Len(r.left) : \E j \in m..Len(r.left) : HeardOf(r, i, m, j)
  BY <1>4
<1>6. Read(r, i, m) /\ (dev.fresh => SentNow(r)) /\ (i = 1 => dev.fresh)
  BY <1>1, <1>5 DEF HeardOf
<1>7. cpu.buf \in Pieces(r, i)
  <2>1. CASE r.babble
    <3>1. cpu.buf \in Seq({USB_SYNC}) /\ Len(cpu.buf) <= MaxPayload + 4
      BY <1>6, <2>1 DEF Read, RoomKept
    <3>2. Len(cpu.buf) \in 0..MaxPayload + 4 /\ cpu.buf \in [1..Len(cpu.buf) -> {USB_SYNC}]
      BY <3>1, LenProperties, BusAssumption
    <3>3. cpu.buf = [k \in 1..Len(cpu.buf) |-> USB_SYNC]
      BY <3>2
    <3> QED
      BY <2>1, <3>2, <3>3 DEF Pieces
  <2>2. CASE ~r.babble
    BY <1>6, <2>2 DEF Read, Pieces
  <2> QED
    BY <2>1, <2>2
<1> QED
  BY <1>2, <1>6, <1>7

\* What stands in the PID's place is that of a handshake only if the device sent it.
LEMMA HeardHandshake ==
  ASSUME NoChanceMatch, BusInv, RoomKept, HeardKept, Listening, PidOf(cpu.buf) \in Handshakes
  PROVE  dev.pc # "asked" /\ dev.fresh /\ dev.sent = Handshake(PidOf(cpu.buf))
<1>1. cpu.buf # <<>>
  <2>1. Len(<<>>) = 0 /\ ~(0 >= 2)
    OBVIOUS
  <2> QED
    BY <2>1, NoAnswer DEF PidOf
<1>2. dev.pc # "asked"
  BY <1>1, HeardPiece
<1>3. PICK r \in AllReplies : \E i \in 1..Len(r.left) + 1 :
        /\ cpu.buf \in Pieces(r, i)
        /\ (dev.fresh => SentNow(r)) /\ (i = 1 => dev.fresh)
  BY <1>1, HeardPiece
<1>4. PICK i \in 1..Len(r.left) + 1 :
        /\ cpu.buf \in Pieces(r, i)
        /\ (dev.fresh => SentNow(r)) /\ (i = 1 => dev.fresh)
  BY <1>3
<1>5. i = 1 /\ r.sent = Handshake(PidOf(cpu.buf))
  BY <1>4 DEF NoChanceMatch
<1> QED
  BY <1>2, <1>4, <1>5 DEF SentNow

\* The CPU reads one byte more of what it has been reading, or nothing, or gives up.
LEMMA HeardRead ==
  ASSUME NoChanceMatch, BusInv, RoomKept, HeardKept, ReadStep
  PROVE  HeardKept'
<1>1. /\ dev' = dev /\ det' = det /\ cpu'.kind = cpu.kind
      /\ cpu.pc \in Receiving /\ cpu.pc # "end" /\ ~cpu.result.ok
      /\ cpu'.pc \in Receiving => cpu'.result = cpu.result
      /\ cpu'.pc = "end" => cpu'.result = Unsound(cpu.buf)
  BY ReadChanges DEF BusInv, PlanKept, Unanswered, ReadsTo, Receiving
<1>2. Listening /\ (cpu'.pc \in Receiving => ~Hush' /\ Listening')
      /\ (cpu'.pc = "end" => ~Hush' /\ ~Listening')
  BY <1>1 DEF Listening, Hush, Sending, Receiving
<1>3. CASE fifo' = fifo /\ cpu'.buf = cpu.buf /\ cpu'.pc \in Receiving
  BY <1>1, <1>2, <1>3, HeardFrame
<1>4. CASE fifo' = fifo /\ cpu'.buf = <<>> /\ cpu'.pc = "end"
  <2>1. ~cpu'.result.ok /\ cpu'.result.pid = PidOf(cpu.buf)
    BY <1>1, <1>4 DEF Unsound
  <2>2. Refused' => dev'.pc # "asked" /\ AcceptedIsSent'
    <3> SUFFICES ASSUME Refused' PROVE dev'.pc # "asked" /\ AcceptedIsSent'
      OBVIOUS
    <3>1. dev.pc # "asked" /\ dev.fresh /\ dev.sent = Handshake(PidOf(cpu.buf))
      BY <1>2, <2>1, HeardHandshake DEF Refused
    <3> QED
      BY <1>1, <2>1, <3>1 DEF AcceptedIsSent, Accepted
  <2> QED
    BY <1>1, <1>2, <1>4, <2>1, <2>2 DEF HeardKept, Coming
<1>5. CASE Taken
  <2>1. PICK r \in AllReplies : \E i \in 1..Len(r.left) + 1 :
          \E m \in i - 1 .. Len(r.left) : \E j \in m..Len(r.left) : HeardOf(r, i, m, j)
    BY <1>2, <1>5 DEF HeardKept, HeardOne, Nothing, Taken
  <2>2. PICK i \in 1..Len(r.left) + 1 :
          \E m \in i - 1 .. Len(r.left) : \E j \in m..Len(r.left) : HeardOf(r, i, m, j)
    BY <2>1
  <2>3. PICK m \in i - 1 .. Len(r.left) : \E j \in m..Len(r.left) : HeardOf(r, i, m, j)
    BY <2>2
  <2>4. PICK j \in m..Len(r.left) : HeardOf(r, i, m, j)
    BY <2>3
  <2>5. /\ dev.pc = "replying" => Coming(r, j) /\ det = "busy"
        /\ dev.fresh => SentNow(r)
        /\ Read(r, i, m) /\ Held(r, m, j) /\ (i = 1 => dev.fresh)
    BY <1>5, <2>4 DEF HeardOf, Nothing, Taken
  <2>6. dev.pc # "asked" /\ ~cpu'.result.ok /\ ~Refused'
    <3>1. dev.pc # "asked"
      BY <1>2, <1>5 DEF HeardKept, HeardOne, Nothing, Taken
    <3>2. ~cpu'.result.ok /\ ~Refused'
      BY <1>1, <1>5 DEF HeardKept, Refused, Taken
    <3> QED
      BY <3>1, <3>2
  <2>7. /\ (dev.pc = "replying" => Coming(r, j)' /\ det' = "busy")
        /\ (dev.fresh => SentNow(r)')
    BY <1>1, <2>5 DEF Coming, SentNow
  <2>8. CASE r.babble
    <3>1. Head(fifo) = USB_SYNC /\ Tail(fifo) \in Seq({USB_SYNC})
      BY <1>5, <2>5, <2>8, HeadTailProperties DEF Held, Taken
    <3>2. Append(cpu.buf, USB_SYNC) \in Seq({USB_SYNC})
      BY <2>5, <2>8 DEF Read
    <3>3. Read(r, i, m)' /\ Held(r, m, j)'
      BY <1>5, <2>8, <3>1, <3>2 DEF Read, Held, Taken
    <3>4. HeardOf(r, i, m, j)'
      BY <1>1, <2>5, <2>7, <3>3 DEF HeardOf
    <3>5. HeardOne'
      BY <1>1, <2>6, <3>4 DEF HeardOne
    <3> QED
      BY <1>1, <1>2, <1>5, <2>6, <3>5 DEF HeardKept, Coming, Taken
  <2>9. CASE ~r.babble
    <3>1. r.left \in Seq(Byte) /\ Len(r.left) \in Nat
      BY ReplyForm, LenProperties
    <3>2. m + 1 \in 1..Len(r.left) + 1 /\ j \in m + 1 - 1 .. Len(r.left) /\ m \in Nat /\ i \in Nat
      BY <3>1
    <3>3. /\ j >= m + 1 /\ Head(fifo) = r.left[m + 1]
          /\ Tail(fifo) = SubSeq(r.left, m + 1 + 1, j)
      <4>1. fifo = SubSeq(r.left, m + 1, j) /\ SubSeq(r.left, m + 1, j) # <<>>
        BY <1>5, <2>5, <2>9 DEF Held, Taken
      <4>2. /\ j >= m + 1 /\ Head(SubSeq(r.left, m + 1, j)) = r.left[m + 1]
            /\ Tail(SubSeq(r.left, m + 1, j)) = SubSeq(r.left, m + 1 + 1, j)
        <5> DEFINE l == r.left  k == m + 1
        <5>1. l \in Seq(Byte) /\ k \in 1..Len(l) + 1 /\ j \in k - 1 .. Len(l)
              /\ SubSeq(l, k, j) # <<>>
          BY <3>1, <3>2, <4>1
        <5> HIDE DEF l, k
        <5>2. j >= k /\ Head(SubSeq(l, k, j)) = l[k] /\ Tail(SubSeq(l, k, j)) = SubSeq(l, k + 1, j)
          BY <5>1, SliceHead
        <5> QED
          BY <5>2 DEF l, k
      <4> QED
        BY <4>1, <4>2
    <3>4. m < Len(r.left) /\ m + 1 \in i - 1 .. Len(r.left) /\ j \in m + 1 .. Len(r.left)
      BY <3>1, <3>2, <3>3
    <3>5. Append(SubSeq(r.left, i, m), r.left[m + 1]) = SubSeq(r.left, i, m + 1)
      BY <3>1, <3>4, SliceAppend
    <3>6. Read(r, i, m + 1)' /\ Held(r, m + 1, j)'
      BY <1>5, <2>5, <2>9, <3>3, <3>5 DEF Read, Held, Taken
    <3>7. HeardOf(r, i, m + 1, j)'
      BY <1>1, <2>5, <2>7, <3>6 DEF HeardOf
    <3>8. HeardOne'
      BY <1>1, <2>6, <3>4, <3>7 DEF HeardOne
    <3> QED
      BY <1>1, <1>2, <1>5, <2>6, <3>8 DEF HeardKept, Coming, Taken
  <2> QED
    BY <2>8, <2>9
<1> QED
  BY <1>3, <1>4, <1>5, ReadTakes

\* Where the reception ends, an acknowledged packet apart, the transaction does.
LEMMA FinishEnds ==
  ASSUME BusInv, Finish
  PROVE  Refused' => cpu'.pc = "end"
<1>1. CASE cpu.kind = "OUT"
  BY <1>1 DEF BusInv, Shape, Finish
<1>2. CASE cpu.kind # "OUT"
  <2> DEFINE outcome == Outcome(cpu.buf, cpu.kind = "IN")
  <2>1. cpu' = [cpu EXCEPT !.result = outcome, !.buf = <<>>,
                  !.pc = IF outcome.ok /\ cpu.kind = "IN" THEN "send" ELSE "end",
                  !.todo = IF outcome.ok /\ cpu.kind = "IN"
                           THEN <<Sets(Handshake(USB_PID_ACK))>> ELSE <<>>]
    BY <1>2 DEF Finish
  <2> HIDE DEF outcome
  <2> QED
    BY <2>1 DEF BusInv, Shape, Refused
<1> QED
  BY <1>1, <1>2

\* What is taken for an answer was sent as one.
LEMMA HeardFinish ==
  ASSUME NoChanceMatch, BusInv, RoomKept, HeardKept, Finish
  PROVE  HeardKept'
<1>1. /\ dev' = dev /\ fifo' = fifo /\ cpu.pc = "finish" /\ cpu'.kind = cpu.kind
      /\ cpu'.buf = <<>> /\ cpu'.pc \in {"end", "send"}
      /\ cpu'.pc = "send" => cpu'.result.ok = TRUE
  BY DEF BusInv, Shape, Finish, Reads
<1>2. ~Listening' /\ ~Hush'
  BY <1>1 DEF Listening, Hush, Unanswered, Sending, Receiving
<1>3. /\ cpu.kind = "OUT" =>
           cpu'.result = [ok |-> PidOf(cpu.buf) = USB_PID_ACK, pid |-> PidOf(cpu.buf),
                          data |-> cpu.buf]
      /\ cpu.kind # "OUT" => cpu'.result = Outcome(cpu.buf, cpu.kind = "IN")
  <2>1. CASE cpu.kind = "OUT"
    BY <2>1 DEF BusInv, Shape, Finish
  <2>2. CASE cpu.kind # "OUT"
    <3> DEFINE outcome == Outcome(cpu.buf, cpu.kind = "IN")
    <3>1. cpu' = [cpu EXCEPT !.result = outcome, !.buf = <<>>,
                    !.pc = IF outcome.ok /\ cpu.kind = "IN" THEN "send" ELSE "end",
                    !.todo = IF outcome.ok /\ cpu.kind = "IN"
                             THEN <<Sets(Handshake(USB_PID_ACK))>> ELSE <<>>]
      BY <2>2 DEF Finish
    <3> HIDE DEF outcome
    <3>2. cpu'.result = outcome
      BY <3>1 DEF BusInv, Shape
    <3> QED
      BY <2>2, <3>2 DEF outcome
  <2> QED
    BY <2>1, <2>2
<1>4. Listening
  BY <1>1 DEF Listening, Receiving
\* An answer without a packet.
<1>5. ASSUME cpu'.result.pid = PidOf(cpu.buf), PidOf(cpu.buf) \in Handshakes, ~Accepted'
      PROVE  dev.pc # "asked" /\ AcceptedIsSent'
  <2>1. dev.pc # "asked" /\ dev.fresh /\ dev.sent = Handshake(PidOf(cpu.buf))
    BY <1>4, <1>5, HeardHandshake
  <2> QED
    BY <1>1, <1>5, <2>1 DEF AcceptedIsSent
<1>6. CASE cpu.kind = "OUT"
  <2> DEFINE acked == PidOf(cpu.buf) = USB_PID_ACK
  <2>1. cpu'.result = [ok |-> acked, pid |-> PidOf(cpu.buf), data |-> cpu.buf]
    BY <1>3, <1>6
  <2>2. acked => PidOf(cpu.buf) \in Handshakes
    BY DEF Handshakes
  <2>3. cpu'.result.pid = PidOf(cpu.buf) /\ ~Accepted'
    BY <1>1, <1>6, <2>1 DEF Accepted
  <2>4. acked \in BOOLEAN
    OBVIOUS
  <2>5. cpu'.result.ok \/ Refused' => PidOf(cpu.buf) \in Handshakes
    <3> HIDE DEF acked
    <3> QED
      BY <2>1, <2>2, <2>4 DEF Refused
  <2>6. cpu'.result.ok \/ Refused' => dev.pc # "asked" /\ AcceptedIsSent'
    BY <1>5, <2>3, <2>5
  <2> QED
    BY <1>1, <1>2, <1>6, <2>6, FinishEnds DEF HeardKept, Coming
<1>7. CASE cpu.kind # "OUT"
  <2> DEFINE outcome == Outcome(cpu.buf, cpu.kind = "IN")
  <2>1. cpu'.result = outcome
    BY <1>3, <1>7
  <2>2. ~outcome.ok => outcome.pid = PidOf(cpu.buf)
    BY DEF Outcome, Got, Unsound
  <2>3. ASSUME outcome.ok
        PROVE  dev.pc # "asked" /\ AcceptedIsSent'
    <3>1. cpu.buf # <<>>
      <4>1. Len(<<>>) = 0 /\ ~(0 >= 4) /\ ~(0 \in 4..18)
        OBVIOUS
      <4>2. \A ack : Outcome(<<>>, ack) = Unsound(<<>>)
        BY <4>1 DEF Outcome
      <4> QED
        BY <2>3, <4>2 DEF Unsound
    <3> HIDE DEF outcome
    <3>2. dev.pc # "asked"
      BY <1>4, <3>1, HeardPiece
    <3>3. PICK r \in AllReplies : \E i \in 1..Len(r.left) + 1 :
            /\ cpu.buf \in Pieces(r, i)
            /\ (dev.fresh => SentNow(r)) /\ (i = 1 => dev.fresh)
      BY <1>4, <3>1, HeardPiece
    <3>4. PICK i \in 1..Len(r.left) + 1 :
            /\ cpu.buf \in Pieces(r, i)
            /\ (dev.fresh => SentNow(r)) /\ (i = 1 => dev.fresh)
      BY <3>3
    <3>5. Outcome(cpu.buf, cpu.kind = "IN").ok /\ (cpu.kind = "IN") \in BOOLEAN
      BY <2>3 DEF outcome
    <3>6. i = 1
      <4>1. i \in 1..Len(r.left) + 1 /\ Len(r.left) \in Nat
        BY ReplyForm, LenProperties
      <4>2. i \in 2..Len(r.left) + 1 => ~Outcome(cpu.buf, cpu.kind = "IN").ok
        BY <3>4 DEF NoChanceMatch
      <4> QED
        BY <3>5, <4>1, <4>2
    <3>7. dev.fresh /\ dev.sent = r.sent /\ r \in Replies.in
      BY <1>7, <3>4, <3>6 DEF SentNow
    <3>8. Len(r.sent) >= 4 /\ Outcome(cpu.buf, cpu.kind = "IN").data = Payload(r.sent)
      BY <3>4, <3>5, <3>6, <3>7 DEF NoChanceMatch
    <3>9. Accepted'
      BY <1>1, <1>7, <2>1, <2>3 DEF Accepted
    <3> QED
      BY <1>1, <2>1, <3>2, <3>7, <3>8, <3>9 DEF AcceptedIsSent, outcome
  <2>4. ASSUME Refused'
        PROVE  dev.pc # "asked" /\ AcceptedIsSent'
    <3> HIDE DEF outcome
    <3>1. ~outcome.ok /\ ~Accepted' /\ outcome.pid \in Handshakes
      BY <2>1, <2>4 DEF Refused, Accepted
    <3> QED
      BY <1>5, <2>1, <2>2, <3>1
  <2>5. cpu'.result.ok \/ Refused' => dev.pc # "asked" /\ AcceptedIsSent'
    <3> HIDE DEF outcome
    <3> QED
      BY <2>1, <2>3, <2>4
  <2> QED
    BY <1>1, <1>2, <1>7, <2>5, FinishEnds DEF HeardKept, Coming
<1> QED
  BY <1>6, <1>7

LEMMA HeardNext ==
  ASSUME NoChanceMatch, BusInv, RoomKept, HeardKept, [Next]_vars
  PROVE  HeardKept'
<1>1. CASE TxStep
  BY <1>1, HeardTransmit
<1>2. CASE DevStep
  BY <1>2, HeardDevice
<1>3. CASE Begin \/ ParkReceiver \/ TxStart \/ TxClear \/ TxQueued \/ TxEopWait \/ TxCompWait
            \/ TxSent \/ End
  BY <1>3, HeardSend
<1>4. CASE ReadStep
  BY <1>4, HeardRead
<1>5. CASE Finish
  BY <1>5, HeardFinish
<1>6. CASE TickQuiet \/ TickTotal \/ UNCHANGED vars
  <2>1. UNCHANGED <<tx, det, fifo, dev, cpu>>
    BY <1>6 DEF TickQuiet, TickTotal, vars
  <2>2. (Hush' <=> Hush) /\ (Listening' <=> Listening)
    BY <2>1 DEF Hush, Listening, Pending, Unanswered, Packet
  <2> QED
    BY <2>1, <2>2, HeardFrame
<1> QED
  BY <1>1, <1>2, <1>3, <1>4, <1>5, <1>6 DEF Next, CpuWork, ReadStep

\* What the host accepts, and what it acknowledges, is what the device sent in answer
\* to this transaction, from its first byte on, and a handshake it goes by is the
\* device's: neither what is left of an earlier reply nor an end whose beginning was
\* missed is taken for either, wherever the CRC and the form of packets tell them
\* apart (receive_packet_and_handshake_limit with its realignment, wait_handshake,
\* pio_usb_bus_end_transaction).
THEOREM AcceptedWasSent ==
  ASSUME NoChanceMatch
  PROVE  Spec => []AcceptedIsSent
<1>1. Init => HeardKept
  BY NoAnswer DEF Refused, Init, DevIdle, CpuIdle, None, HeardKept, Hush, Listening, Nothing, Sending, Receiving
<1>2. (BusInv /\ RoomKept) /\ HeardKept /\ [Next]_vars => HeardKept'
  BY HeardNext
<1>3. HeardKept => AcceptedIsSent
  BY DEF HeardKept, AcceptedIsSent, Accepted, Refused
<1> QED
  BY <1>1, <1>2, <1>3, RoomInvariant, PTL DEF Spec
=============================================================================
