---------------------------- MODULE BusTransaction ----------------------------
(* One transaction on the bus at the level of PIO flags, FIFO and timer: the  *)
(* host sends a token (and data), arms the receiver, receives, answers.       *)
(* Three parties: the CPU (cpu), the PIO state machines (tx, det), the device *)
(* and the line (dev, external).  An interrupt may delay the CPU between any  *)
(* two of its accesses; TickQuiet and TickTotal let a time limit pass anywhere. *)
EXTENDS LineCoding

CONSTANTS
  Payloads,      \* payloads of data packets
  ReplyPids,     \* PIDs of the data packets a device answers with
  MaxPayload,    \* the receive buffer's room for a payload
  Addresses,     \* <<device address, endpoint number>> in tokens
  SofCounts,     \* frame numbers
  EarlyBits,     \* bits the receiver may sample before SYNC
  Damage,        \* masks a byte may be damaged with
  FifoDepth      \* the CPU is assumed to empty the receive FIFO in time

ASSUME BusAssumption ==
  MaxPayload \in Nat /\ FifoDepth \in Nat \ {0}

VARIABLES
  same_block,  \* pio_usb_tx == pio_usb_rx, fixed by the configuration
  tx,    \* transmitter: pc (its phase), dma (bytes still to be queued), patched
         \* (slot 0 clears IRQ_RX_EOP), flag (IRQ_TX_EOP), stalled (FDEBUG
         \* TXSTALL), asks (the packet calls for an answer)
  det,   \* edge detector: parked at its EOP wait, ready for a packet, busy in one
  irq,   \* receiver flags: COMP (IRQ_RX_EOP), START
  fifo,  \* bytes decoded and not yet read
  dev,   \* the device: pc, left (bytes it has yet to send), cut (it stops without
         \* EOP), babble (it never stops), sent (its packet), fresh (it
         \* answers this transaction)
  joined,  \* ghost: the detector has heard the current reply from its beginning
  cpu,   \* pc; kind; todo (packets to send: bytes, arm); buf (usb_rx_buffer);
         \* result (what the transaction makes of the answer)
  quiet, total   \* the time limits since start was last taken (3 or 7 us) and
                 \* since rx_start (1200 us) are over

vars == <<same_block, tx, det, irq, fifo, dev, joined, cpu, quiet, total>>

Kinds == {"IN", "ISO", "OUT", "SOF"}
Sending == {"send", "clear", "dma", "eop", "comp", "sent"}
Receiving == {"start_time", "start_flag", "fifo", "flag", "time", "finish",
              "hs_time", "hs_fifo", "hs_flag"}
Handshakes == {USB_PID_ACK, USB_PID_NAK, USB_PID_STALL}
None == [ok |-> FALSE, pid |-> 0, data |-> <<>>]
CpuIdle == [pc |-> "idle", kind |-> "SOF", todo |-> <<>>, buf |-> <<>>, result |-> None]
DevIdle == [pc |-> "idle", left |-> <<>>, cut |-> FALSE, babble |-> FALSE, sent |-> <<>>,
            fresh |-> FALSE]

Init ==
  /\ same_block \in BOOLEAN
  /\ tx = [pc |-> "stall", dma |-> FALSE, patched |-> FALSE, flag |-> FALSE,
           stalled |-> TRUE, asks |-> FALSE]
  /\ det = "parked" /\ irq = {"COMP"} /\ fifo = <<>>
  /\ dev = DevIdle /\ joined = FALSE
  /\ cpu = CpuIdle /\ quiet = FALSE /\ total = FALSE

TypeOK ==
  /\ tx.pc \in {"data", "eop", "comp", "stall"}
  /\ det \in {"parked", "ready", "busy"} /\ irq \subseteq {"COMP", "START"}
  /\ (det = "parked") = ("COMP" \in irq)
  /\ fifo \in Seq(Byte) /\ Len(fifo) <= FifoDepth
  /\ cpu.pc \in {"idle", "park", "end"} \cup Sending \cup Receiving
  /\ cpu.kind \in Kinds
  /\ cpu.buf \in Seq(Byte) /\ Len(cpu.buf) <= MaxPayload + 4

-----------------------------------------------------------------------------
(* The PIO state machines.                                                    *)

Hardware == UNCHANGED <<same_block, dev, cpu, quiet, total>>

\* Clearing IRQ_RX_EOP lets a parked detector wait for the next packet.
Unpark ==
  /\ irq' = irq \ {"COMP"}
  /\ det' = IF det = "parked" THEN "ready" ELSE det

\* The transmitter stalls while the DMA has more to queue.
TxGap ==
  /\ tx.pc = "data" /\ tx.dma /\ ~tx.stalled
  /\ tx' = [tx EXCEPT !.stalled = TRUE]
  /\ Hardware /\ UNCHANGED <<det, irq, fifo, joined>>

TxQueue ==
  /\ tx.pc = "data" /\ tx.dma
  /\ tx' = [tx EXCEPT !.dma = FALSE]
  /\ Hardware /\ UNCHANGED <<det, irq, fifo, joined>>

\* Slot 0, the end of packet: irq IRQ_TX_EOP, or irq clear IRQ_RX_EOP.  The
\* packet is complete; a device that is not talking itself has heard it.
TxEop ==
  /\ tx.pc = "data" /\ ~tx.dma
  /\ tx' = [tx EXCEPT !.pc = "eop", !.flag = @ \/ ~tx.patched]
  /\ IF tx.patched THEN Unpark ELSE UNCHANGED <<det, irq>>
  /\ dev' = IF tx.asks /\ dev.pc = "idle" THEN [dev EXCEPT !.pc = "asked", !.fresh = TRUE] ELSE dev
  /\ UNCHANGED <<same_block, fifo, joined, cpu, quiet, total>>

TxComp ==
  /\ tx.pc = "eop"
  /\ tx' = [tx EXCEPT !.pc = "comp"]
  /\ Hardware /\ UNCHANGED <<det, irq, fifo, joined>>

\* At the end of the padding, and as long as it lasts: the flag is sticky.
TxStall ==
  /\ tx.pc = "comp" \/ (tx.pc = "stall" /\ ~tx.stalled)
  /\ tx' = [tx EXCEPT !.pc = "stall", !.stalled = TRUE]
  /\ Hardware /\ UNCHANGED <<det, irq, fifo, joined>>

-----------------------------------------------------------------------------
(* The device and the line.                                                   *)

Outside == UNCHANGED <<same_block, tx, cpu, quiet, total>>

\* What a device may send back, and how it may arrive: with early bits, with one
\* byte damaged, cut off in the middle, or without end.
Reply(packet, bytes) ==
  [pc |-> "replying", left |-> bytes, cut |-> FALSE, babble |-> FALSE, sent |-> packet,
   fresh |-> TRUE]

Damaged(packet, i, mask) == [packet EXCEPT ![i] = Xor(@, mask)]

Arrivals(packet) ==
  {Reply(packet, Captured(packet, early)) : early \in EarlyBits}
  \cup {Reply(packet, Damaged(packet, d[1], d[2])) : d \in (1..Len(packet)) \X Damage}
  \cup {[Reply(packet, SubSeq(packet, 1, n)) EXCEPT !.cut = TRUE] :
          n \in 1..Len(packet)}
  \cup {[Reply(packet, <<USB_SYNC>>) EXCEPT !.babble = TRUE]}

Replies ==
  [in |-> UNION {Arrivals(p) : p \in {DataPacket(pid, q) : pid \in ReplyPids, q \in Payloads}
                                       \cup {Handshake(pid) : pid \in Handshakes \ {USB_PID_ACK}}},
   out |-> UNION {Arrivals(Handshake(pid)) : pid \in Handshakes}]

AllReplies == Replies.in \cup Replies.out

\* Whatever the line does to a reply, what the decoder pushes are bytes.
ASSUME ReplyAssumption == \A r \in AllReplies : r.left \in Seq(Byte)

\* A reply that goes on when its transaction is over.
Stale ==
  IF dev.pc = "replying"
  THEN [dev EXCEPT !.fresh = FALSE, !.sent = <<>>] ELSE DevIdle

\* The first edge of the reply starts a detector that is ready.
DeviceReply ==
  /\ dev.pc = "asked"
  /\ dev' \in IF cpu.kind = "OUT" THEN Replies.out ELSE Replies.in
  /\ joined' = (det = "ready")
  /\ det' = IF det = "ready" THEN "busy" ELSE det
  /\ irq' = IF det = "ready" THEN irq \cup {"START"} ELSE irq
  /\ Outside /\ UNCHANGED fifo

\* A byte is decoded, or it passes a detector that is parked; one that has become
\* ready in the middle starts with it.
DeviceByte ==
  /\ dev.pc = "replying" /\ dev.left # <<>>
  /\ Len(fifo) < FifoDepth
  /\ dev' = [dev EXCEPT !.left = IF dev.babble /\ Len(@) = 1 THEN @ ELSE Tail(@)]
  /\ fifo' = IF det = "busy" THEN Append(fifo, Head(dev.left)) ELSE fifo
  /\ det' = IF det = "ready" THEN "busy" ELSE det
  /\ irq' = IF det = "ready" THEN irq \cup {"START"} ELSE irq
  /\ Outside /\ UNCHANGED joined

DeviceEop ==
  /\ dev.pc = "replying" /\ (dev.left = <<>> \/ dev.babble)
  /\ dev' = [dev EXCEPT !.pc = "idle", !.left = <<>>]
  /\ IF det = "busy" /\ ~dev.cut /\ ~dev.babble
     THEN det' = "parked" /\ irq' = irq \cup {"COMP"}
     ELSE UNCHANGED <<det, irq>>
  /\ Outside /\ UNCHANGED <<fifo, joined>>

\* Time passes, as much as it takes, between any two steps.
TickQuiet ==
  /\ cpu.pc \in Receiving /\ ~quiet
  /\ quiet' = TRUE
  /\ UNCHANGED <<same_block, tx, det, irq, fifo, dev, joined, cpu, total>>

TickTotal ==
  /\ cpu.pc \in Receiving /\ ~total
  /\ total' = TRUE
  /\ UNCHANGED <<same_block, tx, det, irq, fifo, dev, joined, cpu, quiet>>

-----------------------------------------------------------------------------
(* The CPU: sending (usb_transfer).                                           *)

Goto(pc) == cpu' = [cpu EXCEPT !.pc = pc]
Packet == Head(cpu.todo)
Untimed == UNCHANGED <<same_block, fifo, dev, joined, quiet, total>>
Sets(packet) == [bytes |-> packet, arm |-> FALSE]
Arms(packet) == [bytes |-> packet, arm |-> TRUE]

\* Mutant: the receiver is always armed by software.
HwArm_Never(arm) == FALSE /\ arm

\* The PIO itself arms the receiver when both programs are in one block.
HwArm(arm) == arm /\ same_block

\* usb_in_transaction, usb_out_transaction, the SOF of the frame handler.
Begin ==
  /\ cpu.pc = "idle"
  /\ \/ \E a \in Addresses :
          \/ \E kind \in {"IN", "ISO"} :
               cpu' = [CpuIdle EXCEPT !.pc = "park", !.kind = kind,
                         !.todo = <<Arms(AddressToken(USB_PID_IN, a[1], a[2]))>>]
          \/ \E p \in Payloads :
               cpu' = [CpuIdle EXCEPT !.pc = "park", !.kind = "OUT",
                         !.todo = <<Sets(AddressToken(USB_PID_OUT, a[1], a[2])),
                                    Arms(DataPacket(USB_PID_DATA1, p))>>]
     \/ \E n \in SofCounts :
          cpu' = [CpuIdle EXCEPT !.pc = "send", !.kind = "SOF", !.todo = <<Sets(SofToken(n))>>]
  /\ UNCHANGED <<same_block, tx, det, irq, fifo, dev, joined, quiet, total>>

ParkReceiver ==
  /\ cpu.pc = "park"
  /\ det' = "parked" /\ irq' = {"COMP"} /\ fifo' = <<>>
  /\ dev' = IF dev.pc = "asked" THEN DevIdle ELSE Stale
  /\ joined' = FALSE
  /\ Goto("send")
  /\ UNCHANGED <<same_block, tx, quiet, total>>

\* Start of the packet.  With interrupts disabled (arm) slot 0 is patched before
\* the packet can end; otherwise the old flag is cleared some time later.
TxStart ==
  /\ cpu.pc = "send"
  /\ LET started == [tx EXCEPT !.pc = "data", !.dma = TRUE, !.asks = Packet.arm]
     IN  IF Packet.arm
         THEN /\ tx' = [started EXCEPT !.flag = FALSE, !.patched = @ \/ HwArm(TRUE)]
              /\ Goto("dma")
         ELSE tx' = started /\ Goto("clear")
  /\ Untimed /\ UNCHANGED <<det, irq>>

TxClear ==
  /\ cpu.pc = "clear"
  /\ tx' = [tx EXCEPT !.flag = FALSE]
  /\ Goto("dma")
  /\ Untimed /\ UNCHANGED <<det, irq>>

TxQueued ==
  /\ cpu.pc = "dma" /\ ~tx.dma
  /\ tx' = [tx EXCEPT !.stalled = FALSE]
  /\ Goto("eop")
  /\ Untimed /\ UNCHANGED <<det, irq>>

\* Mutant: slot 0 is not restored.
TxEopWait_KeepsPatch ==
  /\ cpu.pc = "eop"
  /\ IF HwArm(Packet.arm)
     THEN /\ "COMP" \notin irq \/ "START" \in irq
          /\ tx' = tx
     ELSE /\ tx.flag \/ tx.stalled
          /\ tx' = [tx EXCEPT !.flag = FALSE]
  /\ Goto("comp")
  /\ Untimed /\ UNCHANGED <<det, irq>>

TxEopWait ==
  /\ cpu.pc = "eop"
  /\ IF HwArm(Packet.arm)
     THEN /\ "COMP" \notin irq \/ "START" \in irq
          /\ tx' = [tx EXCEPT !.patched = FALSE]
     ELSE /\ tx.flag \/ tx.stalled
          /\ tx' = [tx EXCEPT !.flag = FALSE]
  /\ Goto("comp")
  /\ Untimed /\ UNCHANGED <<det, irq>>

TxCompWait ==
  /\ cpu.pc = "comp"
  /\ tx.pc = "comp" \/ tx.stalled
  /\ Goto("sent")
  /\ Untimed /\ UNCHANGED <<tx, det, irq>>

\* Return of usb_transfer, after arming by software where the PIO could not.
\* What follows: the next packet, the reception, or (SOF, handshake) the end.
TxSent ==
  /\ cpu.pc = "sent"
  /\ IF Packet.arm /\ ~HwArm(TRUE) THEN Unpark ELSE UNCHANGED <<det, irq>>
  /\ cpu' = [cpu EXCEPT !.todo = Tail(@),
                        !.pc = IF Len(cpu.todo) > 1 THEN "send"
                               ELSE IF Packet.arm THEN "start_time" ELSE "end"]
  /\ quiet' = FALSE /\ total' = FALSE
  /\ UNCHANGED <<same_block, tx, fifo, dev, joined>>

-----------------------------------------------------------------------------
(* The CPU: receiving (wait_for_rx_start, wait_handshake,                     *)
(* receive_packet_and_handshake_limit).                                       *)

Reads == UNCHANGED <<same_block, tx, det, irq, dev, joined>>
Only(pc) == Goto(pc) /\ Reads /\ UNCHANGED <<fifo, quiet, total>>

\* usb_rx_buffer[1] as the caller finds it, which starts every transaction with 0.
PidOf(buf) == IF Len(buf) >= 2 THEN buf[2] ELSE 0

\* A reception given up leaves nothing but the byte that stands in the PID's place.
Unsound(buf) == [ok |-> FALSE, pid |-> PidOf(buf), data |-> <<>>]

Fails ==
  /\ cpu' = [cpu EXCEPT !.pc = "end", !.buf = <<>>, !.result = Unsound(cpu.buf)]
  /\ Reads /\ UNCHANGED <<fifo, quiet, total>>

StartTime ==
  /\ cpu.pc = "start_time"
  /\ IF quiet THEN Fails ELSE Only("start_flag")

StartFlag ==
  /\ cpu.pc = "start_flag"
  /\ IF "START" \notin irq THEN Only("start_time")
     ELSE /\ Goto(IF cpu.kind = "OUT" THEN "hs_time" ELSE "fifo")
          /\ quiet' = FALSE /\ total' = FALSE
          /\ Reads /\ UNCHANGED fifo

TakeByte(pc) ==
  /\ cpu' = [cpu EXCEPT !.buf = Append(@, Head(fifo)), !.pc = pc]
  /\ fifo' = Tail(fifo)
  /\ quiet' = FALSE
  /\ Reads /\ UNCHANGED total

\* Mutant: a byte too many is stored.
RxFifo_ByteMore ==
  /\ cpu.pc = "fifo"
  /\ IF fifo = <<>> THEN Only("flag")
     ELSE IF Len(cpu.buf) > MaxPayload + 4 THEN Fails ELSE TakeByte("fifo")

\* An oversize packet is given up before any handshake.
RxFifo ==
  /\ cpu.pc = "fifo"
  /\ IF fifo = <<>> THEN Only("flag")
     ELSE IF Len(cpu.buf) >= MaxPayload + 4 THEN Fails ELSE TakeByte("fifo")

RxFlag ==
  /\ cpu.pc = "flag"
  /\ Only(IF "COMP" \in irq THEN "finish" ELSE "time")

RxTime ==
  /\ cpu.pc = "time"
  /\ IF quiet \/ total THEN Fails ELSE Only("fifo")

HsTime ==
  /\ cpu.pc = "hs_time"
  /\ Only(IF quiet THEN "finish" ELSE "hs_fifo")

\* Mutant: bytes beyond the handshake are read, and give the line more time.
HsFifo_NoBound ==
  /\ cpu.pc = "hs_fifo"
  /\ IF fifo = <<>> THEN Only("hs_flag")
     ELSE /\ cpu' = [cpu EXCEPT !.buf = IF Len(@) < 2 THEN Append(@, Head(fifo)) ELSE @,
                               !.pc = "hs_time"]
          /\ fifo' = Tail(fifo) /\ quiet' = FALSE
          /\ Reads /\ UNCHANGED total

HsFifo ==
  /\ cpu.pc = "hs_fifo"
  /\ IF Len(cpu.buf) < 2 /\ fifo # <<>> THEN TakeByte("hs_time") ELSE Only("hs_flag")

HsFlag ==
  /\ cpu.pc = "hs_flag"
  /\ Only(IF "COMP" \in irq THEN "finish" ELSE "hs_time")

\* Mutant: the length is checked, the CRC is not.
CrcMatch_Any(buf, n) == n >= 4 /\ Len(buf) >= n

\* crc_match for a packet of the first n bytes of buf.
CrcMatch(buf, n) ==
  n >= 4 /\ Crc16Bytes(SubSeq(buf, 3, n - 2)) = SubSeq(buf, n - 1, n)

\* SYNC realignment: the buffer without its first bits, where SYNC and the check
\* bits of the PID are in place; a pair of shift and length, which is the buffer's
\* or a byte less.
Shifted(buf, k) ==
  BytesOf(SubSeq(BitsOf(buf), k + 1, 8 * Len(buf)) \o [i \in 1..k |-> 0])

\* Two nibbles are complements exactly when they add up to 15.
PidChecks(pid) == (pid \div 16) + (pid % 16) = 15

Realignments(buf) ==
  {f \in (1..7) \X {Len(buf) - 1, Len(buf)} :
     LET fixed == Shifted(buf, f[1])
     IN  /\ fixed[1] = USB_SYNC /\ PidChecks(fixed[2])
         /\ CrcMatch(fixed, f[2])}

\* The first realignment that fits: smallest shift, full length before shorter.
FirstOf(fits) ==
  CHOOSE f \in fits : \A g \in fits : f[1] < g[1] \/ (f[1] = g[1] /\ f[2] >= g[2])

Got(buf, n) == [ok |-> TRUE, pid |-> buf[2], data |-> SubSeq(buf, 3, n - 2)]

\* What the reception makes of the packet in buf: a PID with its payload, or one
\* without (a handshake, or a packet that is not sound).
Outcome(buf, ack) ==
  LET fits == IF ack /\ Len(buf) \in 4..18 THEN Realignments(buf) ELSE {}
  IN  IF Len(buf) >= 4 /\ CrcMatch(buf, Len(buf)) THEN Got(buf, Len(buf))
      ELSE IF fits # {} THEN Got(Shifted(buf, FirstOf(fits)[1]), FirstOf(fits)[2])
      ELSE Unsound(buf)

\* The end of the reception: ACK what is sound, take an isochronous packet without,
\* read the handshake of an OUT.
Finish ==
  /\ cpu.pc = "finish"
  /\ cpu' =
       IF cpu.kind = "OUT"
       THEN [cpu EXCEPT !.pc = "end", !.buf = <<>>,
               !.result = [ok |-> PidOf(cpu.buf) = USB_PID_ACK, pid |-> PidOf(cpu.buf),
                           data |-> cpu.buf]]
       ELSE LET outcome == Outcome(cpu.buf, cpu.kind = "IN")
            IN  [cpu EXCEPT !.result = outcome, !.buf = <<>>,
                   !.pc = IF outcome.ok /\ cpu.kind = "IN" THEN "send" ELSE "end",
                   !.todo = IF outcome.ok /\ cpu.kind = "IN"
                            THEN <<Sets(Handshake(USB_PID_ACK))>> ELSE <<>>]
  /\ Reads /\ UNCHANGED <<fifo, quiet, total>>

\* end_transaction parks the detector where the packet did not; a SOF ends as it is.
End ==
  /\ cpu.pc = "end"
  /\ cpu' = CpuIdle
  /\ IF cpu.kind = "SOF" THEN UNCHANGED <<det, irq>>
     ELSE det' = "parked" /\ irq' = irq \cup {"COMP"}
  /\ dev' = IF dev.pc = "asked" THEN dev ELSE Stale
  /\ quiet' = FALSE /\ total' = FALSE
  /\ UNCHANGED <<same_block, tx, fifo, joined>>

CpuWork ==
  \/ ParkReceiver
  \/ TxStart \/ TxClear \/ TxQueued \/ TxEopWait \/ TxCompWait \/ TxSent
  \/ StartTime \/ StartFlag \/ RxFifo \/ RxFlag \/ RxTime
  \/ HsTime \/ HsFifo \/ HsFlag \/ End
TxStep == TxGap \/ TxQueue \/ TxEop \/ TxComp \/ TxStall
DevStep == DeviceReply \/ DeviceByte \/ DeviceEop

Next == Begin \/ CpuWork \/ Finish \/ TxStep \/ DevStep \/ TickQuiet \/ TickTotal

Spec == Init /\ [][Next]_vars

\* The PIO runs, time passes, and the CPU comes back from every interrupt.
\* Finish is always enabled where the CPU stands at it, so that its fairness is
\* that the CPU does not stay there.  Nothing is assumed of the device.
FairSpec ==
  /\ Spec
  /\ WF_vars(CpuWork) /\ []<>(cpu.pc # "finish") /\ WF_vars(TxStep)
  /\ WF_vars(TickQuiet) /\ WF_vars(TickTotal)

-----------------------------------------------------------------------------
(* Properties.                                                                *)

\* The detector is parked while we transmit, so no token, data, handshake or SOF
\* of our own is received as a reply (park_receiver, the slot 0 patch and its
\* removal, end_transaction).
OwnPacketUnheard == tx.pc = "data" => det = "parked"

\* Armed by the PIO, the detector hears every reply from its first bit, however
\* long the CPU is held up (the patch of slot 0 in usb_transfer).
WholeReplies == same_block /\ det = "busy" /\ dev.fresh => joined

\* What is accepted, and what is acknowledged, is exactly what the device sent in
\* answer to this transaction, PID apart (which no CRC covers); and a transaction
\* counts as acknowledged, refused or stalled only if the device answered it so, not
\* by what comes late from an earlier one (receive_packet_and_handshake_limit with its
\* realignment, wait_handshake, and the use usb_in_transaction and
\* usb_out_transaction make of usb_rx_buffer[1]).
Payload(packet) == SubSeq(packet, 3, Len(packet) - 2)
Accepted == cpu.kind # "OUT" /\ cpu.result.ok

AcceptedIsSent ==
  /\ Accepted => dev.fresh /\ Len(dev.sent) >= 4 /\ cpu.result.data = Payload(dev.sent)
  /\ ~Accepted /\ cpu.result.pid \in Handshakes =>
       dev.fresh /\ dev.sent = Handshake(cpu.result.pid)

\* What can be read of a reply from its byte i on.
Pieces(r, i) ==
  IF r.babble THEN {[k \in 1..n |-> USB_SYNC] : n \in 0..MaxPayload + 4}
  ELSE {SubSeq(r.left, i, m) : m \in i - 1 .. Len(r.left)}

\* What AcceptedIsSent leaves to the CRC and the form of packets, and holds of some
\* payloads and damages only: no piece of a reply passes for something else, neither
\* a damaged or truncated reply for a sound one nor the end of one for a packet or
\* a handshake.
NoChanceMatch ==
  /\ \A r \in Replies.in, ack \in BOOLEAN : \A piece \in Pieces(r, 1) :
       Outcome(piece, ack).ok =>
         Len(r.sent) >= 4 /\ Outcome(piece, ack).data = Payload(r.sent)
  /\ \A r \in AllReplies, ack \in BOOLEAN : \A i \in 2..Len(r.left) + 1 :
       \A piece \in Pieces(r, i) : ~Outcome(piece, ack).ok
  /\ \A r \in AllReplies : \A i \in 1..Len(r.left) + 1 : \A piece \in Pieces(r, i) :
       PidOf(piece) \in Handshakes => i = 1 /\ r.sent = Handshake(PidOf(piece))

\* A packet fits the buffer it is coded in, is decoded to itself, and divides as
\* USB asks.
Decodes(bytes) ==
  /\ Captured(bytes, <<>>) = bytes
  /\ EncodedLen(bytes) <= IF Len(bytes) = 2 THEN HandshakeSize ELSE EncodedSize(Len(bytes))
  /\ IF bytes[2] \in {USB_PID_IN, USB_PID_OUT, USB_PID_SOF}
     THEN SoundToken(SubSeq(bytes, 3, 4))
     ELSE Len(bytes) = 2 \/ SoundData(SubSeq(bytes, 3, Len(bytes)))

\* The entries of the CRC tables: the tokens they make sound, and the first bytes
\* of data packets, one for every index of the big table.
SoundTokens == {dat \in 0..2047 : SoundToken(SubSeq(Token(USB_PID_IN, dat), 3, 4))}
SoundBytes == {b \in Byte : SoundData(<<b>> \o Crc16Bytes(<<b>>))}

DecodedPackets ==
  {p \in {Handshake(USB_PID_ACK)} \cup {DataPacket(USB_PID_DATA1, q) : q \in Payloads}
         \cup {AddressToken(pid, a[1], a[2]) : pid \in {USB_PID_IN, USB_PID_OUT}, a \in Addresses}
         \cup {SofToken(n) : n \in SofCounts} : Decodes(p)}

\* Every packet we put on the line is decoded to itself by the receiver's rules,
\* divides as USB asks and fits the buffer it is coded in, every entry of the CRC
\* tables is right, and none of the replies can be mistaken for another
\* (pio_usb_ll_encode_tx_data, the callers' buffer sizes, send_token, the SOF packet,
\* usb_crc.c, the checks of receive_packet_and_handshake_limit).
LineSound ==
  /\ SoundTokens = 0..2047 /\ SoundBytes = Byte
  /\ NoChanceMatch
  /\ tx.pc = "data" /\ cpu.todo # <<>> => Packet.bytes \in DecodedPackets

\* Every transaction ends: no wait is endless, whatever the device does and
\* however long an interrupt takes (the waits of usb_transfer, the time limits).
TransactionEnds == (cpu.pc # "idle") ~> (cpu.pc = "idle")
=============================================================================
