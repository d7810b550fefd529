------------------------------ MODULE IsoStream ------------------------------
(* An isochronous stream from the bus to the application: the frame handler   *)
(* polls the endpoint that owns the ring and hands whole records to the       *)
(* queued transfer; the application is the microphone example, on the core    *)
(* the frame handler interrupts.  Between them is the USB stack (usbh,        *)
(* external): it reports completions through a queue of events, in order.     *)
(* One device, one isochronous IN endpoint.                                   *)
EXTENDS IsoRing

CONSTANTS MaxLen,    \* longest packet
          BufLen,    \* the transfer buffer, room for any record (sizeof(iso_buf))
          Ids        \* the packets the host hears of are numbered 0 .. Ids - 1 and over again

ASSUME IsoAssumption ==
  /\ Size \in {2^n : n \in 1 .. 16} /\ MaxLen \in 1 .. 1023
  /\ Size >= MaxLen + 4 /\ BufLen \in Nat /\ BufLen >= MaxLen + 2
  /\ MaxSilent \in 1 .. 255 /\ Ids \in 2 .. 254

VARIABLES
  ring_on,  \* iso_ring # NULL
  polled,   \* iso_ring_ep is the endpoint
  ring,
  ep,       \* endpoint_t: open, has (has_transfer), aborted
  buf,      \* app_buf up to actual_len
  usbh,     \* mounted, busy (a transfer is under way for it), ctrl (the control
            \* request under way, "done" when its event is queued), events
  app,      \* where it is in a call; mic (mic.daddr # 0), paused, pending
            \* (xfer_pending), opened (ep_opened)
  dev,      \* the device (external): there, alt (1 while it streams), next (the
            \* number of its next packet that the host hears of)
  last      \* ghost: the last record the application got since polling began, or Gap

vars == <<ring_on, polled, ring, ep, buf, usbh, app, dev, last>>

EpClosed == [open |-> FALSE, has |-> FALSE, aborted |-> FALSE]
NoMic == [pc |-> "idle", mic |-> FALSE, paused |-> FALSE, pending |-> FALSE, opened |-> FALSE]
UsbhIdle == [mounted |-> FALSE, busy |-> FALSE, ctrl |-> "idle", events |-> <<>>]

Init ==
  /\ ring_on = FALSE /\ polled = FALSE /\ ring = EmptyRing
  /\ ep = EpClosed /\ buf = <<>>
  /\ usbh = UsbhIdle /\ app = NoMic
  /\ dev = [there |-> FALSE, alt |-> 0, next |-> 0]
  /\ last = <<Gap>>

-----------------------------------------------------------------------------
(* The frame handler.                                                         *)

Live == ep.has /\ ~ep.aborted
Post(u, event) == [u EXCEPT !.events = Append(@, event)]
IsoDone(ok) == [kind |-> "iso", ok |-> ok]
CtrlDone(what, ok) == [kind |-> what, ok |-> ok]

Streaming == dev.there /\ dev.alt = 1

\* What an IN can bring of a packet: all of it, its PID and damage after it, or nothing
\* that the host can tell from silence, as when the PID is damaged or the packet is cut
\* before it.  Only the packets the host hears of take a number.
Reception(kind, n) == [kind |-> kind, packet |-> [i \in 1 .. n |-> dev.next]]
Receptions ==
  {Reception("nothing", 0)} \cup
  IF Streaming
  THEN {Reception(kind, 0) : kind \in {"vanished", "damaged"}}
         \cup {Reception("sound", n) : n \in 0 .. MaxLen}
  ELSE {}
Numbered(reception) ==
  [dev EXCEPT !.next = IF reception.kind = "damaged" \/ reception.packet # <<>>
                       THEN (@ + 1) % Ids ELSE @]

FrameOnly == UNCHANGED <<ring_on, app, last>>

\* Mutant: a transfer that does not own the ring is passed over.
FrameSkips_Silently ==
  /\ \/ ~dev.there \/ ~ep.open \/ (~ring_on /\ ~Live)
     \/ ring_on /\ ~polled
  /\ UNCHANGED <<ep, usbh, polled, ring, buf, dev>>

\* The endpoint is not looked at, or does not own the ring: a transfer fails.
FrameSkips ==
  /\ \/ ~dev.there \/ ~ep.open \/ (~ring_on /\ ~Live)
     \/ ring_on /\ ~polled
  /\ IF dev.there /\ ep.open /\ ring_on /\ Live
     THEN ep' = [ep EXCEPT !.has = FALSE] /\ usbh' = Post(usbh, IsoDone(FALSE))
     ELSE UNCHANGED <<ep, usbh>>
  /\ UNCHANGED <<polled, ring, buf, dev>>

\* iso_ring_receive: the ring after the kind of reception is noted ...
Unheard(reception) == reception.kind \in {"nothing", "vanished"}
Noted(reception) ==
  IF Unheard(reception) THEN [ring EXCEPT !.silent = @ + 1]
  ELSE IF reception.kind = "damaged" THEN [ring EXCEPT !.lost = TRUE]
  ELSE [ring EXCEPT !.silent = 0]

\* ... whether the device has been silent for too long ...
Silenced(reception) == Unheard(reception) /\ ring.silent + 1 >= MaxSilent

\* ... and the whole: store, then hand over to a live transfer.
FrameReceives ==
  /\ dev.there /\ ep.open /\ ring_on /\ polled
  /\ \E reception \in Receptions :
       LET stored == Store(Noted(reception), reception.packet)
           given == IF Live THEN HandOver(stored, BufLen) ELSE [ring |-> stored, buf |-> buf]
           complete == Live /\ given.buf # <<>>
       IN  /\ ring' = given.ring /\ buf' = given.buf
           /\ polled' = ~Silenced(reception)
           /\ ep' = [ep EXCEPT !.has = @ /\ ~complete]
           /\ usbh' = IF complete THEN Post(usbh, IsoDone(TRUE)) ELSE usbh
           /\ dev' = Numbered(reception)

\* Without a ring every packet completes the transfer, and so does its absence.
FramePacket ==
  /\ dev.there /\ ep.open /\ ~ring_on /\ Live
  /\ \E reception \in Receptions :
       /\ buf' = reception.packet
       /\ ep' = [ep EXCEPT !.has = FALSE]
       /\ usbh' = Post(usbh, IsoDone(reception.kind = "sound"))
  /\ UNCHANGED <<polled, ring, dev>>

Skip == FrameSkips /\ FrameOnly
Poll == (FrameReceives \/ FramePacket) /\ FrameOnly
Frame == Skip \/ Poll

-----------------------------------------------------------------------------
(* The device and its control requests.                                       *)

World == UNCHANGED <<ring_on, polled, ring, buf, app, last>>

Plug ==
  /\ ~dev.there /\ ~usbh.mounted /\ usbh.events = <<>>
  /\ dev' = [there |-> TRUE, alt |-> 0, next |-> 0]
  /\ World /\ UNCHANGED <<ep, usbh>>

\* connection_check fails every transfer; then the stack is told.
Unplug ==
  /\ dev.there
  /\ dev' = [dev EXCEPT !.there = FALSE]
  /\ ep' = [ep EXCEPT !.has = FALSE]
  /\ LET failed == (IF ep.has THEN <<IsoDone(FALSE)>> ELSE <<>>)
                   \o (IF usbh.ctrl \in {"idle", "done"} THEN <<>>
                       ELSE <<CtrlDone(usbh.ctrl, FALSE)>>)
     IN  usbh' = [usbh EXCEPT !.events = @ \o failed \o <<[kind |-> "remove", ok |-> TRUE]>>]
  /\ World

\* The device stops streaming of its own accord.
Hang ==
  /\ Streaming
  /\ dev' = [dev EXCEPT !.alt = 0]
  /\ World /\ UNCHANGED <<ep, usbh>>

\* A control request ends; one that fails may have had its effect.
ControlEnds ==
  /\ dev.there /\ usbh.ctrl \notin {"idle", "done"}
  /\ \E ok \in BOOLEAN, done \in BOOLEAN :
       /\ ok => done
       /\ usbh' = [Post(usbh, CtrlDone(usbh.ctrl, ok)) EXCEPT !.ctrl = "done"]
       /\ dev' = [dev EXCEPT !.alt = CASE usbh.ctrl = "stream" /\ done -> 1
                                      [] usbh.ctrl = "pause" /\ done -> 0 [] OTHER -> @]
  /\ World /\ UNCHANGED ep

-----------------------------------------------------------------------------
(* The application's core: its own functions, the stack's, the library's.     *)

AppOnly == UNCHANGED dev
Goto(pc) == app' = [app EXCEPT !.pc = pc]

\* pio_usb_host_set_iso_ring, which refuses while an endpoint owns the ring; by its
\* comment it is called while no isochronous transfer is queued.
SetIsoRing ==
  /\ app.pc = "idle" /\ ~app.mic /\ ~ep.has
  /\ \E on \in BOOLEAN :
       /\ ring_on' = IF polled THEN ring_on ELSE on
       /\ ring' = IF polled \/ ~on THEN ring ELSE [EmptyRing EXCEPT !.silent = ring.silent]
  /\ AppOnly /\ UNCHANGED <<polled, ep, buf, usbh, app, last>>

\* The ring is empty, and the ghosts begin anew.
NewPeriod ==
  /\ ring' = EmptyRing
  /\ last' = <<Gap>> /\ dev' = [dev EXCEPT !.next = 0]

\* tuh_interface_set: send_setup takes the endpoint off the ring.  What is left in
\* the ring then, or when the device goes, nobody reads: it is forgotten here.
InterfaceSet(what) ==
  IF usbh.ctrl = "idle"
  THEN usbh' = [usbh EXCEPT !.ctrl = what] /\ polled' = FALSE /\ NewPeriod
  ELSE UNCHANGED <<usbh, polled, ring, dev, last>>

\* tuh_mount_cb, find_microphone, config_desc_cb.
Mount ==
  /\ app.pc = "idle" /\ usbh.events = <<>> /\ ~usbh.mounted /\ dev.there
  /\ usbh' = [usbh EXCEPT !.mounted = TRUE, !.ctrl = "stream"]
  /\ polled' = FALSE
  /\ app' = [app EXCEPT !.mic = TRUE]
  /\ AppOnly /\ UNCHANGED <<ring_on, ring, ep, buf, last>>

Handled == [usbh EXCEPT !.events = Tail(@)]
Handles(kind) == app.pc = "idle" /\ usbh.events # <<>> /\ Head(usbh.events).kind = kind

\* The next transfer is queued unless the stream is paused.
Requeues == app.mic /\ ~app.paused

\* iso_complete_cb and process_records.
IsoComplete ==
  /\ Handles("iso")
  /\ usbh' = [Handled EXCEPT !.busy = FALSE]
  /\ app' = [app EXCEPT !.pending = FALSE, !.pc = IF Requeues THEN "queue" ELSE "idle"]
  /\ LET records == last \o process_records(buf)
         newest == records[Len(records)]
     IN  last' = IF ring_on /\ Head(usbh.events).ok
                 THEN <<IF newest = Gap THEN Gap ELSE <<Head(newest)>>>> ELSE last
  /\ buf' = <<>>
  /\ AppOnly /\ UNCHANGED <<ring_on, polled, ring, ep>>

\* start_streaming
StartStreaming(u) ==
  /\ usbh' = u
  /\ ep' = IF app.opened THEN ep ELSE [EpClosed EXCEPT !.open = TRUE]
  /\ app' = [app EXCEPT !.opened = TRUE, !.paused = FALSE,
                        !.pc = IF app.pending THEN "idle" ELSE "queue"]

\* set_interface_cb, which may set the sampling frequency first.
InterfaceDone ==
  /\ Handles("stream")
  /\ LET u == [Handled EXCEPT !.ctrl = "idle"]
     IN  IF ~Head(usbh.events).ok
         THEN usbh' = u /\ app' = [app EXCEPT !.mic = FALSE] /\ UNCHANGED ep
         ELSE \/ StartStreaming(u)
              \/ usbh' = [u EXCEPT !.ctrl = "rate"] /\ UNCHANGED <<ep, app>>
  /\ AppOnly /\ UNCHANGED <<ring_on, polled, ring, buf, last>>

\* set_sample_rate_cb: the result does not matter.
RateDone ==
  /\ Handles("rate")
  /\ StartStreaming([Handled EXCEPT !.ctrl = "idle"])
  /\ AppOnly /\ UNCHANGED <<ring_on, polled, ring, buf, last>>

\* pause_cb
PauseDone ==
  /\ Handles("pause")
  /\ usbh' = [Handled EXCEPT !.ctrl = "idle"]
  /\ AppOnly /\ UNCHANGED <<ring_on, polled, ring, ep, buf, app, last>>

\* The stack closes the device (pio_usb_host_close_device); tuh_umount_cb.
Remove ==
  /\ Handles("remove")
  /\ ep' = EpClosed /\ polled' = FALSE /\ NewPeriod
  /\ usbh' = [UsbhIdle EXCEPT !.events = Handled.events]
  /\ app' = IF app.mic THEN NoMic ELSE app
  /\ buf' = <<>>
  /\ UNCHANGED ring_on

-----------------------------------------------------------------------------
(* queue_iso_transfer: tuh_edpt_xfer and pio_usb_host_endpoint_transfer, which *)
(* the frame handler may interrupt between any two accesses.                  *)

\* Refused by the stack or by the library: the application gives up.
Refused == [app EXCEPT !.pc = "idle", !.pending = FALSE, !.mic = FALSE]

Queue ==
  /\ app.pc = "queue"
  /\ IF usbh.busy \/ ~ep.open
     THEN app' = Refused /\ UNCHANGED usbh
     ELSE /\ usbh' = [usbh EXCEPT !.busy = TRUE]
          /\ app' = [app EXCEPT !.pending = TRUE,
                                !.pc = IF ring_on /\ ~polled THEN "reset" ELSE "start"]
  /\ AppOnly /\ UNCHANGED <<ring_on, polled, ring, ep, buf, last>>

RingReset ==
  /\ app.pc = "reset"
  /\ NewPeriod
  /\ Goto("attach")
  /\ UNCHANGED <<ring_on, polled, ep, buf, usbh>>

RingAttach ==
  /\ app.pc = "attach"
  /\ polled' = TRUE
  /\ Goto("start")
  /\ AppOnly /\ UNCHANGED <<ring_on, ring, ep, buf, usbh, last>>

\* pio_usb_ll_transfer_start, up to its last store and that store.
TransferStart ==
  /\ app.pc = "start"
  /\ IF ep.has THEN app' = Refused /\ usbh' = [usbh EXCEPT !.busy = FALSE] /\ UNCHANGED buf
     ELSE Goto("publish") /\ buf' = <<>> /\ UNCHANGED usbh
  /\ AppOnly /\ UNCHANGED <<ring_on, polled, ring, ep, last>>

TransferPublish ==
  /\ app.pc = "publish"
  /\ ep' = [ep EXCEPT !.has = TRUE, !.aborted = FALSE]
  /\ Goto("idle")
  /\ AppOnly /\ UNCHANGED <<ring_on, polled, ring, buf, usbh, last>>

-----------------------------------------------------------------------------
(* host_request_task: pause or resume.                                        *)

TogglePause ==
  /\ app.pc = "idle" /\ app.mic
  /\ IF ~app.paused
     THEN /\ app' = [app EXCEPT !.paused = TRUE,
                                !.pc = IF app.pending THEN "abort" ELSE "pause"]
          /\ UNCHANGED <<usbh, polled, ring, dev, last>>
     ELSE InterfaceSet("stream") /\ UNCHANGED app
  /\ UNCHANGED <<ring_on, ep, buf>>

\* abort_transfer: mark, wait for at most 8 frames, then take the transfer back.
AbortMark ==
  /\ app.pc = "abort"
  /\ ep' = [ep EXCEPT !.aborted = ep.has]
  /\ Goto("abort_take")
  /\ AppOnly /\ UNCHANGED <<ring_on, polled, ring, buf, usbh, last>>

\* Mutant: the transfer is left in the endpoint.
AbortTake_Left ==
  /\ app.pc = "abort_take"
  /\ ep' = [ep EXCEPT !.aborted = FALSE]
  /\ usbh' = [usbh EXCEPT !.busy = FALSE]
  /\ app' = [app EXCEPT !.pending = FALSE, !.pc = "pause"]
  /\ AppOnly /\ UNCHANGED <<ring_on, polled, ring, buf, last>>

AbortTake ==
  /\ app.pc = "abort_take"
  /\ ep' = [ep EXCEPT !.has = FALSE, !.aborted = FALSE]
  /\ usbh' = [usbh EXCEPT !.busy = FALSE]
  /\ app' = [app EXCEPT !.pending = FALSE, !.pc = "pause"]
  /\ AppOnly /\ UNCHANGED <<ring_on, polled, ring, buf, last>>

Pause ==
  /\ app.pc = "pause"
  /\ InterfaceSet("pause")
  /\ Goto("idle")
  /\ UNCHANGED <<ring_on, ep, buf>>

AppStep ==
  \/ IsoComplete \/ InterfaceDone \/ RateDone \/ PauseDone \/ Remove
  \/ Queue \/ RingReset \/ RingAttach \/ TransferStart \/ TransferPublish
  \/ AbortMark \/ AbortTake \/ Pause

Next ==
  \/ Frame \/ Plug \/ Unplug \/ Hang \/ ControlEnds
  \/ SetIsoRing \/ Mount \/ TogglePause \/ AppStep

Spec == Init /\ [][Next]_vars

\* Frames keep coming, and an abort ends after at most 8 ms.  (The formula on Poll is
\* WF_vars(Poll), with what enables it written out.)  Nothing is assumed of the device
\* or of the rest of the application.
Polls == dev.there /\ ep.open /\ (IF ring_on THEN polled ELSE Live)

FairSpec ==
  /\ Spec
  /\ WF_vars(Skip) /\ ([]<>~Polls \/ []<><<Poll>>_vars) /\ WF_vars(AbortTake)

-----------------------------------------------------------------------------
(* Properties.                                                                *)

\* The records not yet handed to the application, oldest first.
Waiting ==
  process_records(buf) \o process_records(Front(ring, ring.count))
  \o (IF ring.lost THEN <<Gap>> ELSE <<>>)

IsPacket(record) == record \notin {Gap, Partial}

\* From where polling begins, every record is a whole packet as the device sent it, and
\* between two neighbours in the application's stream the host has heard of no other
\* packet, or there is a marker; after the last one it has heard of none, or a gap is
\* noted.  So a packet damaged after its PID is marked, and so is what a full ring drops.
\* Nothing is claimed of a packet the host takes for silence, which leaves no marker, nor
\* of the records that are thrown away, unmarked, where polling begins anew.
GapsMarked ==
  ring_on =>
    LET stream == last \o Waiting
    IN  /\ \A i \in 1 .. Len(stream) :
             /\ stream[i] # Partial
             /\ IsPacket(stream[i]) =>
                  /\ Len(stream[i]) \in 1 .. MaxLen
                  /\ \A k \in 1 .. Len(stream[i]) : stream[i][k] = stream[i][1]
                  /\ IF i < Len(stream)
                     THEN IsPacket(stream[i + 1]) =>
                            stream[i + 1][1] = (stream[i][1] + 1) % Ids
                     ELSE polled => dev.next = (stream[i][1] + 1) % Ids

\* The application queues a transfer only when the one before is over, for it, for the
\* stack and for the library: a completion that overtakes an abort, a pause or a
\* resume never makes it queue two (iso_complete_cb, host_request_task).
NeverQueuedTwice ==
  app.pc \in {"queue", "reset", "attach", "start", "publish"} =>
    ~ep.has /\ (app.pc = "queue" => ~usbh.busy)

\* A transfer does not wait for ever for a device that has stopped streaming
\* (iso_ring_silent; the frame handler fails a transfer that does not own the ring).
SilentTransferFails ==
  (dev.there /\ ep.has /\ ~Streaming) ~> (~dev.there \/ ~ep.has \/ Streaming)
=============================================================================
