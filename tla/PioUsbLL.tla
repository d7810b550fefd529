------------------------------- MODULE PioUsbLL -------------------------------
(* The low level endpoint functions of pio_usb.c, as operators on one         *)
(* endpoint_t record.  The host controller and the device controller are both *)
(* built from them.  A transfer is a sequence of transactions (one packet     *)
(* each) and endpoint_t is the only place its progress is kept.               *)
(*                                                                            *)
(* Abstractions: an endpoint address 0x81 is [num |-> 1, in |-> TRUE]; the    *)
(* encoded waveform in ep->buffer is [pid, off, len], the data packet it is   *)
(* the encoding of (off is where in the caller's buffer it starts); app_buf   *)
(* is not kept because it always is the caller's buffer plus the offset of    *)
(* the next packet.                                                           *)
EXTENDS Integers

U8 == 256
U16 == 65536
USB_PID_SETUP == 45      \* 0x2d, stored in data_id of a SETUP transfer

SETUP_LEN == 8           \* bytes of a SETUP packet

Attrs == {"control", "iso", "bulk", "interrupt"}
DataPids == {"DATA0", "DATA1"}

\* The three ep_* registers of a root port, and all its interrupt bits.
EpFlags == {"complete", "error", "stalled"}
IntFlags == EpFlags \cup {"connect", "disconnect"}

EpAddrs == [num : Nat, in : BOOLEAN]
EP0 == [num |-> 0, in |-> FALSE]      \* 0x00, the control endpoint, out
Descriptors == [epaddr : EpAddrs, attr : Attrs, max_size : Nat, interval : 0 .. U8 - 1]

\* endpoint_t.
Endpoints ==
  [size : Nat, ep_num : EpAddrs, attr : Attrs,
   interval : 0 .. U8 - 1, interval_counter : 0 .. U8 - 1,
   data_id : Nat, is_tx : BOOLEAN, root_idx : Nat, dev_addr : Nat,
   has_transfer : BOOLEAN, transfer_started : BOOLEAN, transfer_aborted : BOOLEAN,
   failed_count : Nat, total_len : Nat, actual_len : Nat,
   encoded : [pid : DataPids, off : Nat, len : Nat]]

\* The zero-initialised pool entry.
UnusedEndpoint ==
  [size |-> 0, ep_num |-> [num |-> 0, in |-> FALSE], attr |-> "control",
   interval |-> 0, interval_counter |-> 0,
   data_id |-> 0, is_tx |-> FALSE, root_idx |-> 0, dev_addr |-> 0,
   has_transfer |-> FALSE, transfer_started |-> FALSE, transfer_aborted |-> FALSE,
   failed_count |-> 0, total_len |-> 0, actual_len |-> 0,
   encoded |-> [pid |-> "DATA0", off |-> 0, len |-> 0]]

\* data_id == 1 is DATA1; 0 and USB_PID_SETUP are both sent as DATA0.
DataPid(data_id) == IF data_id = 1 THEN "DATA1" ELSE "DATA0"

\* data_id ^= 1
Toggle(data_id) == IF data_id % 2 = 0 THEN data_id + 1 ELSE data_id - 1

\* Bytes of the next transaction; the subtraction is done in uint16_t.
transaction_len(e) ==
  LET remaining == (e.total_len - e.actual_len) % U16
  IN  IF remaining < e.size THEN remaining ELSE e.size

configure_endpoint(e, d) ==
  [e EXCEPT !.size = d.max_size, !.ep_num = d.epaddr, !.attr = d.attr,
            !.interval = d.interval, !.interval_counter = 0, !.data_id = 0]

\* Encode the data packet the next transaction will send.
prepare_tx_data(e) ==
  [e EXCEPT !.encoded = [pid |-> DataPid(e.data_id), off |-> e.actual_len,
                         len |-> transaction_len(e)]]

\* Mutant: actual_len keeps the previous transfer's count.
transfer_fill_NoReset(e, buflen) ==
  LET f == [e EXCEPT !.total_len = buflen, !.failed_count = 0]
  IN  IF f.is_tx THEN prepare_tx_data(f) ELSE f

\* transfer_start after its has_transfer test, up to the point where the
\* transfer is published to the frame handler ...
transfer_fill(e, buflen) ==
  LET f == [e EXCEPT !.total_len = buflen, !.actual_len = 0, !.failed_count = 0]
  IN  IF f.is_tx THEN prepare_tx_data(f) ELSE f

\* ... and the three stores that publish it, has_transfer last.
transfer_publish(e) ==
  [e EXCEPT !.transfer_started = FALSE, !.transfer_aborted = FALSE, !.has_transfer = TRUE]

\* What transfer_continue leaves in the endpoint when the transfer goes on.
transfer_progress(e, xferred) ==
  [e EXCEPT !.actual_len = (@ + xferred) % U16, !.data_id = Toggle(@)]

\* Short packet, or every byte transferred.
transfer_finished(e, xferred) ==
  \/ xferred < e.size
  \/ (e.actual_len + xferred) % U16 >= e.total_len

\* Mutant: the next packet is not encoded.
transfer_continue_NotEncoded(e, xferred) ==
  LET f == transfer_progress(e, xferred)
  IN  IF transfer_finished(e, xferred) THEN [f EXCEPT !.has_transfer = FALSE] ELSE f

transfer_continue(e, xferred) ==
  LET f == transfer_progress(e, xferred)
  IN  IF transfer_finished(e, xferred) THEN [f EXCEPT !.has_transfer = FALSE]
      ELSE IF f.is_tx THEN prepare_tx_data(f) ELSE f

\* transfer_complete, the endpoint's half: the register half is RaiseFlag.
transfer_complete(e) == [e EXCEPT !.has_transfer = FALSE]
=============================================================================
