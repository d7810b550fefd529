------------------------------- MODULE BulkRing -------------------------------
(* The ring of the bulk stream option (PIO_USB_HOST_BULK_STREAM): the host    *)
(* frame core appends received packets, the application drains bytes on the   *)
(* other core, and nothing is locked.  write_pos and read_pos run freely in   *)
(* uint32_t; each is written by one side only.                                *)
(*                                                                            *)
(* The two memcpy halves are copied a byte at a time, so that the other core  *)
(* may run between any two bytes.  The __dmb barriers make the stores visible *)
(* in program order, which is the order of the steps here.                    *)
EXTENDS Integers, Sequences

CONSTANTS
  Capacity,    \* bytes of storage, a power of two in the code
  PosMod,      \* 2^32, the width of the positions
  Bytes,       \* values of a byte
  PacketLens,  \* lengths of the packets a device sends
  ReadLens     \* lengths the application asks for

ASSUME RingAssumption ==
  /\ Capacity \in Nat \ {0} /\ PosMod \in Nat \ {0}
  /\ PosMod % Capacity = 0 /\ PosMod > Capacity
  /\ PacketLens \subseteq Nat /\ ReadLens \subseteq Nat \ {0}

VARIABLES
  buffer,      \* the application's storage
  write_pos, read_pos,
  prod,        \* bulk_ring_write: where it is, its packet and how much is copied
  cons         \* pio_usb_host_bulk_stream_read: the same

vars == <<buffer, write_pos, read_pos, prod, cons>>

Positions == 0 .. PosMod - 1
Packets == UNION {[1 .. n -> Bytes] : n \in PacketLens}
ProdIdle == [pc |-> "idle", data |-> <<>>, copied |-> 0]
ConsIdle == [pc |-> "idle", len |-> 0, dest |-> <<>>]

TypeOK ==
  /\ buffer \in [0 .. Capacity - 1 -> Bytes]
  /\ write_pos \in Positions /\ read_pos \in Positions
  /\ prod \in [pc : {"idle", "copy"}, data : Seq(Bytes), copied : Nat]
  /\ prod.copied <= Len(prod.data)
  /\ cons \in [pc : {"idle", "copy", "done"}, len : Nat, dest : Seq(Bytes)]
  /\ Len(cons.dest) <= cons.len

Init ==
  /\ buffer \in [0 .. Capacity - 1 -> Bytes]
  /\ write_pos = 0 /\ read_pos = 0
  /\ prod = ProdIdle /\ cons = ConsIdle

\* Distance from q to p, in uint32_t.
Distance(p, q) == (p - q) % PosMod

\* Where byte i (from 0) of a copy that starts at position p lies: the second
\* memcpy goes on at the start of the storage.
Cell(p, i) ==
  LET offset == p % Capacity
      first == Capacity - offset
  IN  IF i < first THEN offset + i ELSE i - first

\* Mutant: the room is one byte short.
Fits_OffByOne(used, len) == used <= Capacity /\ len <= Capacity - used + 1

Fits(used, len) == used <= Capacity /\ len <= Capacity - used

\* The other core's read_pos is loaded once; a packet without room is dropped.
WriteBegin(pkt) ==
  /\ prod.pc = "idle"
  /\ Fits(Distance(write_pos, read_pos), Len(pkt))
  /\ prod' = [pc |-> "copy", data |-> pkt, copied |-> 0]
  /\ UNCHANGED <<buffer, write_pos, read_pos, cons>>

CopyIn ==
  /\ prod.pc = "copy" /\ prod.copied < Len(prod.data)
  /\ buffer' = [buffer EXCEPT ![Cell(write_pos, prod.copied)] = prod.data[prod.copied + 1]]
  /\ prod' = [prod EXCEPT !.copied = @ + 1]
  /\ UNCHANGED <<write_pos, read_pos, cons>>

\* Mutant: the position does not wrap at the end of its range.
Publish_NoWrap ==
  /\ prod.pc = "copy" /\ prod.copied = Len(prod.data)
  /\ write_pos' = write_pos + Len(prod.data)
  /\ prod' = ProdIdle
  /\ UNCHANGED <<buffer, read_pos, cons>>

\* Mutant: write_pos is stored before the last byte is in place.
Publish_Early ==
  /\ prod.pc = "copy" /\ prod.copied + 1 >= Len(prod.data)
  /\ write_pos' = (write_pos + Len(prod.data)) % PosMod
  /\ prod' = ProdIdle
  /\ UNCHANGED <<buffer, read_pos, cons>>

Publish ==
  /\ prod.pc = "copy" /\ prod.copied = Len(prod.data)
  /\ write_pos' = (write_pos + Len(prod.data)) % PosMod
  /\ prod' = ProdIdle
  /\ UNCHANGED <<buffer, read_pos, cons>>

\* write_pos is loaded once: how much this call may take.
ReadBegin(len) ==
  LET available == Distance(write_pos, read_pos)
  IN  /\ cons.pc = "idle"
      /\ available <= Capacity
      /\ cons' = [pc |-> "copy", len |-> IF len > available THEN available ELSE len, dest |-> <<>>]
      /\ UNCHANGED <<buffer, write_pos, read_pos, prod>>

CopyOut ==
  /\ cons.pc = "copy" /\ Len(cons.dest) < cons.len
  /\ cons' = [cons EXCEPT !.dest = Append(@, buffer[Cell(read_pos, Len(@))])]
  /\ UNCHANGED <<buffer, write_pos, read_pos, prod>>

Release ==
  /\ cons.pc = "copy" /\ Len(cons.dest) = cons.len
  /\ read_pos' = (read_pos + cons.len) % PosMod
  /\ cons' = [cons EXCEPT !.pc = "done"]
  /\ UNCHANGED <<buffer, write_pos, prod>>

ReadReturn ==
  /\ cons.pc = "done"
  /\ cons' = ConsIdle
  /\ UNCHANGED <<buffer, write_pos, read_pos, prod>>

bulk_ring_write == CopyIn \/ Publish \/ \E pkt \in Packets : WriteBegin(pkt)

bulk_stream_read == CopyOut \/ Release \/ ReadReturn \/ \E len \in ReadLens : ReadBegin(len)

Next == bulk_ring_write \/ bulk_stream_read

Spec == Init /\ [][Next]_vars

-----------------------------------------------------------------------------

\* The bytes between the positions, and what the read that has ended returns.
Queue == [i \in 1 .. Distance(write_pos, read_pos) |-> buffer[Cell(read_pos, i - 1)]]
Result == IF cons.pc = "done" THEN cons.dest ELSE <<>>

Fifo == INSTANCE ByteFifo WITH input <- prod.data, queue <- Queue, result <- Result

\* The ring is a bounded byte queue: packets enter whole, in order and intact,
\* and come out so, however the two cores interleave and the positions wrap.
FifoSpec == Fifo!Spec

\* The two cores never touch one byte of the storage at the same time.
NoDataRace ==
  /\ prod.pc = "copy" /\ prod.copied < Len(prod.data)
  /\ cons.pc = "copy" /\ Len(cons.dest) < cons.len
  => Cell(write_pos, prod.copied) # Cell(read_pos, Len(cons.dest))
=============================================================================
