------------------------------- MODULE BulkPoll -------------------------------
(* A bulk IN endpoint polled over a bus that loses things, in its two forms:  *)
(* the bulk stream (ring and counters, PIO_USB_HOST_BULK_STREAM) and a queued *)
(* transfer (PIO_USB_HOST_BULK_IN_BURST), each with one packet per frame and  *)
(* more in the rest of it.  The application, on the other core, reads the     *)
(* ring and takes snapshots of the counters.  How a ring is attached and      *)
(* detached is BulkStream, its memory is BulkRing, the exchange itself is     *)
(* BusTransaction.                                                            *)
EXTENDS Integers, Sequences

CONSTANTS
  EpSize,      \* the endpoint's packet size
  Capacity,    \* bytes of the ring
  Total,       \* length of a queued transfer, whole packets
  MaxRetry,    \* TRANSACTION_MAX_RETRY
  BurstMax,    \* BULK_STREAM_BURST_MAX_PACKETS
  PidDamage,   \* whether the check bits of a PID may be wrong in a packet whose CRC is right
  PollLimit    \* bound: IN tokens sent

ASSUME PollAssumption ==
  /\ {EpSize, Capacity, MaxRetry, BurstMax, PollLimit} \subseteq Nat \ {0}
  /\ Total \in {n * EpSize : n \in 1 .. 100} /\ PidDamage \in BOOLEAN

VARIABLES
  stream,  \* the form: a stream, or a queued transfer; fixed in a behaviour
  dev,     \* the device (external): its toggle, acked (packets it has seen
           \* acknowledged), sent (lengths of the packets it has made so far)
  ep,      \* endpoint_t: data_id, has (has_transfer), actual_len, failed_count
  frame,   \* the frame handler: pc, extra (packets of the burst so far), polls
           \* (all tokens), got (what the exchange brought), result
  ring,    \* active, stop (stop_requested), waiting (bytes between read_pos and
           \* write_pos), read (bytes read)
  stats,   \* the counters, and seq (stats_seq)
  snap,    \* bulk_stream_stats: pc, before, out
  taken    \* ghost: the packets taken for new, each [no, len]

vars == <<stream, dev, ep, frame, ring, stats, snap, taken>>

Pid(toggle) == IF toggle = 1 THEN "DATA1" ELSE "DATA0"
Nothing == [len |-> -1, pid |-> "none", no |-> 0]
Words == {"polls", "packets", "bytes", "zero_packets", "error_packets",
          "overrun_packets", "overrun_bytes", "active_frames"}
FirstWords == {"polls", "packets", "bytes", "zero_packets"}
Zero == [w \in Words |-> 0]

Init ==
  /\ stream \in BOOLEAN
  /\ dev = [toggle |-> 0, acked |-> 0, sent |-> <<>>]
  /\ ep = [data_id |-> 0, has |-> FALSE, actual_len |-> 0, failed_count |-> 0]
  /\ frame = [pc |-> "idle", extra |-> 0, polls |-> 0, got |-> Nothing, result |-> 1]
  /\ ring = [active |-> stream, stop |-> FALSE, waiting |-> <<>>, read |-> 0]
  /\ stats = [words |-> Zero, seq |-> 0]
  /\ snap = [pc |-> "idle", before |-> 0, out |-> Zero, available |-> 0]
  /\ taken = <<>>

-----------------------------------------------------------------------------
(* The device and the bus.                                                    *)

\* The packet the device offers: the one not acknowledged yet, or a new one.
Offered(len) == IF Len(dev.sent) > dev.acked THEN dev.sent ELSE Append(dev.sent, len)
Acknowledged == [dev EXCEPT !.toggle = 1 - @, !.acked = @ + 1]

\* One exchange: no answer or a damaged one, NAK, STALL; or a data packet, which the
\* host acknowledges, with the ACK lost or not.
Exchange ==
  /\ frame.pc = "poll" /\ frame.polls < PollLimit
  /\ \E len \in 0 .. EpSize :
       LET offer == [dev EXCEPT !.sent = Offered(len)]
           no == dev.acked + 1
           packet(pid) == [len |-> offer.sent[no], pid |-> pid, no |-> no]
           heard == [Acknowledged EXCEPT !.sent = offer.sent]
       IN  \/ \E pid \in {"none", "NAK", "STALL"} :
                /\ dev' = dev /\ len = 0
                /\ frame' = [frame EXCEPT !.pc = "lock", !.polls = @ + 1,
                                          !.got = [Nothing EXCEPT !.pid = pid]]
           \/ /\ dev' = offer     \* the data packet is damaged
              /\ frame' = [frame EXCEPT !.pc = "lock", !.polls = @ + 1,
                                        !.got = [Nothing EXCEPT !.pid = Pid(dev.toggle)]]
           \/ \E pid \in {Pid(dev.toggle)} \cup (IF PidDamage THEN {"bad"} ELSE {}) :
                /\ dev' \in {offer, heard}
                /\ frame' = [frame EXCEPT !.pc = "lock", !.polls = @ + 1, !.got = packet(pid)]
  /\ UNCHANGED <<stream, ep, ring, stats, snap, taken>>

-----------------------------------------------------------------------------
(* The frame handler: the stream.                                             *)

Core0 == UNCHANGED <<stream, dev, snap>>
Goto(pc) == frame' = [frame EXCEPT !.pc = pc]
Add(more) == [w \in Words |-> stats.words[w] + (IF w \in DOMAIN more THEN more[w] ELSE 0)]
Locked == stats' = [stats EXCEPT !.seq = @ + 1]
Count(more) == stats' = [stats EXCEPT !.words = Add(more)]

\* bulk_stream_frame_begin: a stop is honoured, the frame is counted.
FrameBegin ==
  /\ frame.pc = "idle" /\ frame.polls < PollLimit
  /\ IF stream
     THEN /\ ring.active
          /\ IF ring.stop THEN ring' = [ring EXCEPT !.active = FALSE] /\ UNCHANGED <<stats, frame>>
             ELSE Locked /\ Goto("frame_count") /\ UNCHANGED ring
     ELSE ep.has /\ frame' = [frame EXCEPT !.pc = "poll", !.extra = 0] /\ UNCHANGED <<ring, stats>>
  /\ Core0 /\ UNCHANGED <<ep, taken>>

FrameCount ==
  /\ frame.pc = "frame_count"
  /\ Count([active_frames |-> 1])
  /\ Goto("frame_unlock")
  /\ Core0 /\ UNCHANGED <<ep, ring, taken>>

FrameUnlock ==
  /\ frame.pc = "frame_unlock"
  /\ Locked
  /\ frame' = [frame EXCEPT !.pc = "poll", !.extra = 0]
  /\ Core0 /\ UNCHANGED <<ep, ring, taken>>

\* usb_bulk_ring_transaction after the exchange.
Lock ==
  /\ frame.pc = "lock" /\ stream
  /\ Locked
  /\ Goto("polls")
  /\ Core0 /\ UNCHANGED <<ep, ring, taken>>

CountPoll ==
  /\ frame.pc = "polls"
  /\ Count([polls |-> 1])
  /\ Goto("judge")
  /\ Core0 /\ UNCHANGED <<ep, ring, taken>>

Expected == Pid(ep.data_id)
Take == taken' = Append(taken, [no |-> frame.got.no, len |-> frame.got.len])

\* Mutant: a repeated packet is taken for new.
IsNew_AnyData == frame.got.len >= 0 /\ frame.got.pid \in {"DATA0", "DATA1"}

IsNew == frame.got.len >= 0 /\ frame.got.pid = Expected
IsDuplicate == ~IsNew /\ frame.got.len >= 0 /\ frame.got.pid \in {"DATA0", "DATA1"}
IsNak == frame.got.len < 0 /\ frame.got.pid = "NAK"

JudgeNew ==
  /\ frame.pc = "judge" /\ IsNew
  /\ ep' = [ep EXCEPT !.data_id = 1 - @]
  /\ Take
  /\ Count([packets |-> 1, zero_packets |-> IF frame.got.len = 0 THEN 1 ELSE 0])
  /\ frame' = [frame EXCEPT !.pc = "bytes", !.result = 1]
  /\ Core0 /\ UNCHANGED ring

CountBytes ==
  /\ frame.pc = "bytes"
  /\ Count([bytes |-> frame.got.len])
  /\ Goto("write")
  /\ Core0 /\ UNCHANGED <<ep, ring, taken>>

\* bulk_ring_write: the whole packet, or none of it.
Write ==
  /\ frame.pc = "write"
  /\ IF frame.got.len > Capacity - Len(ring.waiting)
     THEN /\ Count([overrun_packets |-> 1, overrun_bytes |-> frame.got.len])
          /\ UNCHANGED ring
     ELSE /\ ring' = [ring EXCEPT !.waiting = @ \o [i \in 1 .. frame.got.len |-> frame.got.no]]
          /\ UNCHANGED stats
  /\ Goto("unlock")
  /\ Core0 /\ UNCHANGED <<ep, taken>>

\* NAK, a repeat, or an error; a STALL stops the stream.
JudgeOther ==
  /\ frame.pc = "judge" /\ ~IsNew
  /\ IF IsNak \/ IsDuplicate
     THEN frame' = [frame EXCEPT !.pc = "unlock", !.result = 0] /\ UNCHANGED <<stats, ring>>
     ELSE /\ Count([error_packets |-> 1])
          /\ ring' = [ring EXCEPT !.stop = @ \/ frame.got.pid = "STALL"]
          /\ frame' = [frame EXCEPT !.pc = "unlock", !.result = -1]
  /\ Core0 /\ UNCHANGED <<ep, taken>>

\* The burst goes on after a new packet, until the deadline, and at the latest after
\* BurstMax more; the first transaction of a frame is always followed by a burst.
Bursts(goes_on) ==
  IF goes_on /\ frame.extra < BurstMax
  THEN \/ frame' = [frame EXCEPT !.pc = "poll", !.extra = @ + 1, !.got = Nothing]
       \/ frame' = [frame EXCEPT !.pc = "idle", !.extra = 0, !.got = Nothing]
  ELSE frame' = [frame EXCEPT !.pc = "idle", !.extra = 0, !.got = Nothing]

Unlock ==
  /\ frame.pc = "unlock"
  /\ Locked
  /\ Bursts((frame.extra = 0 \/ frame.result = 1) /\ ~ring.stop)
  /\ Core0 /\ UNCHANGED <<ep, ring, taken>>

-----------------------------------------------------------------------------
(* The frame handler: a queued transfer (usb_in_transaction, usb_bulk_in_burst). *)

Complete(e) == [e EXCEPT !.has = FALSE]

\* A sound answer forgets the failures; a transfer continues with each new packet and
\* ends with a short one or when it is full.
Transferred ==
  LET e == [ep EXCEPT !.failed_count = 0]
      more == [e EXCEPT !.actual_len = @ + frame.got.len, !.data_id = 1 - @]
      failed == [ep EXCEPT !.failed_count = @ + 1]
  IN  IF IsNew
      THEN IF frame.got.len < EpSize \/ more.actual_len >= Total THEN Complete(more) ELSE more
      ELSE IF frame.got.len >= 0 \/ IsNak THEN e
      ELSE IF frame.got.pid = "STALL" THEN Complete(e)
      ELSE IF failed.failed_count >= MaxRetry THEN Complete(failed) ELSE failed

Transfer ==
  /\ frame.pc = "lock" /\ ~stream
  /\ ep' = Transferred
  /\ IF IsNew THEN Take ELSE UNCHANGED taken
  /\ Bursts(ep'.has /\ (frame.extra = 0 \/ (IsNew /\ frame.got.len > 0)))
  /\ Core0 /\ UNCHANGED <<ring, stats>>

FrameStep ==
  \/ FrameBegin \/ FrameCount \/ FrameUnlock
  \/ Exchange \/ Lock \/ CountPoll \/ JudgeNew \/ CountBytes \/ Write \/ JudgeOther \/ Unlock
  \/ Transfer

-----------------------------------------------------------------------------
(* The application.                                                           *)

Core1 == UNCHANGED <<stream, dev, frame, stats, taken>>

\* transfer_start: the data toggle goes on where the last transfer left it.
Queue ==
  /\ ~stream /\ ~ep.has
  /\ ep' = [ep EXCEPT !.has = TRUE, !.actual_len = 0, !.failed_count = 0]
  /\ Core1 /\ UNCHANGED <<ring, snap>>

\* bulk_stream_read
Read ==
  /\ stream /\ ring.waiting # <<>> /\ snap.pc = "idle"
  /\ \E k \in 1 .. Len(ring.waiting) :
       ring' = [ring EXCEPT !.waiting = SubSeq(@, k + 1, Len(@)), !.read = @ + k]
  /\ Core1 /\ UNCHANGED <<ep, snap>>

\* bulk_stream_stats, which waits while the sequence is odd and starts again when it
\* has moved.
SnapBegin ==
  /\ stream /\ snap.pc = "idle" /\ stats.seq % 2 = 0
  /\ snap' = [snap EXCEPT !.pc = "first", !.before = stats.seq]
  /\ Core1 /\ UNCHANGED <<ep, ring>>

Copy(words) == [w \in Words |-> IF w \in words THEN stats.words[w] ELSE snap.out[w]]

SnapFirst ==
  /\ snap.pc = "first"
  /\ snap' = [snap EXCEPT !.pc = "second", !.out = Copy(FirstWords)]
  /\ Core1 /\ UNCHANGED <<ep, ring>>

SnapSecond ==
  /\ snap.pc = "second"
  /\ snap' = [snap EXCEPT !.pc = "check", !.out = Copy(Words \ FirstWords)]
  /\ Core1 /\ UNCHANGED <<ep, ring>>

SnapIdle == [pc |-> "idle", before |-> 0, out |-> Zero, available |-> 0]

\* Mutant: the copy is not checked.
SnapCheck_Trusting ==
  /\ snap.pc = "check"
  /\ snap' = [snap EXCEPT !.pc = "done", !.available = Len(ring.waiting)]
  /\ Core1 /\ UNCHANGED <<ep, ring>>

SnapCheck ==
  /\ snap.pc = "check"
  /\ snap' = IF snap.before = stats.seq
             THEN [snap EXCEPT !.pc = "done", !.available = Len(ring.waiting)] ELSE SnapIdle
  /\ Core1 /\ UNCHANGED <<ep, ring>>

SnapDone ==
  /\ snap.pc = "done"
  /\ snap' = SnapIdle
  /\ Core1 /\ UNCHANGED <<ep, ring>>

AppStep == Queue \/ Read \/ SnapBegin \/ SnapFirst \/ SnapSecond \/ SnapCheck \/ SnapDone

Next == FrameStep \/ AppStep

Spec == Init /\ [][Next]_vars

-----------------------------------------------------------------------------
(* Properties.                                                                *)

SentPacket(no) == [no |-> no, len |-> dev.sent[no]]

\* Whatever the bus loses, the packets taken for new are the packets the device has
\* sent, each once and in order: all it has seen acknowledged, and at most one more,
\* whose ACK was lost.  The ring gets them whole or counts them as overrun (expected
\* PID and toggle in usb_bulk_ring_transaction and usb_in_transaction).
DeliveredOnce ==
  frame.pc \in {"idle", "poll"} =>
    /\ Len(taken) \in {dev.acked, dev.acked + 1}
    /\ \A i \in 1 .. Len(taken) : taken[i] = SentPacket(i)

\* A snapshot that bulk_stream_stats returns is of one moment: it adds up, and the ring
\* holds or has delivered every byte it counts as accepted (the sequence lock, and the
\* order of the counting and the writing).
SnapshotConsistent ==
  snap.pc = "done" =>
    LET out == snap.out
    IN  /\ out.packets + out.error_packets <= out.polls
        /\ out.zero_packets + out.overrun_packets <= out.packets
        /\ out.polls <= (1 + BurstMax) * out.active_frames
        /\ out.bytes <= EpSize * (out.packets - out.zero_packets)
        /\ out.bytes - out.overrun_bytes <= ring.read + snap.available
        /\ snap.available <= Capacity
=============================================================================
