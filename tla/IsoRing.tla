------------------------------- MODULE IsoRing -------------------------------
(* The ring of isochronous packets and its helpers, as operators on one       *)
(* record: iso_ring (mem), iso_ring_head, iso_ring_count, iso_ring_lost,      *)
(* iso_ring_silent.  A record of the ring is two bytes of length and the      *)
(* packet, or a lost marker, which is two bytes 0xff.  Bytes outside the ring *)
(* are forgotten (0).                                                         *)
EXTENDS Integers, Sequences

CONSTANTS Size,      \* iso_ring_mask + 1, at least the longest record and a marker
          MaxSilent  \* 32 frames without a response

LostMarker == <<255, 255>>

EmptyRing == [mem |-> [i \in 0 .. Size - 1 |-> 0], head |-> 0, count |-> 0,
              lost |-> FALSE, silent |-> 0]

\* The bytes stored in the n places from position at, cyclically.
Stored(mem, at, bytes) ==
  [i \in 0 .. Size - 1 |->
     LET k == (i - at) % Size IN IF k < Len(bytes) THEN bytes[k + 1] ELSE mem[i]]

\* The first n bytes of the ring.
Front(r, n) == [i \in 1 .. n |-> r.mem[(r.head + i - 1) % Size]]

copy_in(r, bytes) ==
  [r EXCEPT !.mem = Stored(@, (r.head + r.count) % Size, bytes), !.count = @ + Len(bytes)]

copy_out(r, n) ==
  [r EXCEPT !.mem = Stored(@, r.head, [i \in 1 .. n |-> 0]),
            !.head = (@ + n) % Size, !.count = @ - n]

\* iso_ring_check_len, and what it does to a corrupted ring.
Holds(r, n) == n <= r.count
Emptied(r) == [r EXCEPT !.head = 0, !.count = 0, !.lost = TRUE]

head_len(r) ==
  LET value == r.mem[r.head] + 256 * r.mem[(r.head + 1) % Size]
  IN  IF value = 65535 THEN 2 ELSE value + 2

\* A marker in front of what is left.
PutMarker(r) ==
  LET head == (r.head - 2) % Size
  IN  [r EXCEPT !.mem = Stored(@, head, LostMarker), !.head = head, !.count = @ + 2]

\* Mutant: the gap is not marked.
drop_oldest_Unmarked(r) ==
  IF r.count < 2 \/ ~Holds(r, head_len(r)) THEN Emptied(r) ELSE copy_out(r, head_len(r))

\* The oldest packet goes, together with a marker before it; a marker takes its place.
drop_oldest(r) ==
  LET rest == IF head_len(r) = 2 THEN copy_out(r, 2) ELSE r
  IN  IF r.count < 2 THEN [r EXCEPT !.count = 0, !.lost = TRUE]
      ELSE IF ~Holds(r, head_len(r)) THEN Emptied(r)
      ELSE IF head_len(r) = 2 /\ rest.count < 2 THEN rest
      ELSE IF ~Holds(rest, head_len(rest)) THEN Emptied(rest)
      ELSE PutMarker(copy_out(rest, head_len(rest)))

\* Packets are dropped until n bytes fit; every drop leaves less, so that Size of them
\* are enough.
RoomFor(r, n) ==
  LET Dropped(s) == IF s.count + n > Size THEN drop_oldest(s) ELSE s
      after[k \in 0 .. Size] == IF k = 0 THEN r ELSE Dropped(after[k - 1])
  IN  after[Size]

\* What a reception adds: a marker for what was lost, then the packet.
Store(r, packet) ==
  LET marked == IF r.lost
                THEN [copy_in(RoomFor(r, 2), LostMarker) EXCEPT !.lost = FALSE] ELSE r
      n == Len(packet)
  IN  IF n = 0 THEN marked
      ELSE copy_in(RoomFor(marked, 2 + n), <<n % 256, n \div 256>> \o packet)

\* One record moves to a transfer buffer of total_len bytes, if there is one and it
\* fits; one that never fits is dropped.
HandOne(given, total_len) ==
  LET r == given.ring
      n == head_len(r)
  IN  IF r.count < 2 THEN given
      ELSE IF ~Holds(r, n) THEN [given EXCEPT !.ring = Emptied(r)]
      ELSE IF n > total_len THEN [given EXCEPT !.ring = [copy_out(r, n) EXCEPT !.lost = TRUE]]
      ELSE IF Len(given.buf) + n > total_len THEN given
      ELSE [ring |-> copy_out(r, n), buf |-> given.buf \o Front(r, n)]

\* Whole records move, as many as fit; the ring holds no more than one per two bytes.
HandOver(r, total_len) ==
  LET after[k \in 0 .. Size \div 2] ==
        IF k = 0 THEN [ring |-> r, buf |-> <<>>] ELSE HandOne(after[k - 1], total_len)
  IN  after[Size \div 2]

-----------------------------------------------------------------------------
\* process_records of the microphone example, which walks the records of a buffer:
\* the packets, Gap for a marker, and Partial for a record that is cut off.
Gap == <<>>
Partial == <<256>>

process_records(buf) ==
  LET from[i \in 1 .. Len(buf) + 1] ==
        LET len == buf[i] + 256 * buf[i + 1]
        IN  IF i + 1 > Len(buf) THEN <<>>
            ELSE IF len = 65535 THEN <<Gap>> \o from[i + 2]
            ELSE IF i + 1 + len > Len(buf) THEN <<Partial>>
            ELSE <<SubSeq(buf, i + 2, i + 1 + len)>> \o from[i + 2 + len]
  IN  from[1]
=============================================================================
