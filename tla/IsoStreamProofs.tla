---------------------------- MODULE IsoStreamProofs ----------------------------
(* Two theorems about the microphone example on the library's iso ring.  First: *)
(* it never queues a second transfer - the events the stack has yet to report, *)
(* in their order, against what the application, the stack and the library each *)
(* believe of the one transfer.  Then: while a device is polled, no packet the *)
(* host has heard of is missing without a marker - the ring and the buffer as *)
(* runs of whole records, and a path over them from the last packet the *)
(* application got to the next one the host will hear of, on which neighbours *)
(* follow each other or a marker lies between. *)
EXTENDS IsoStream, SequenceTheorems, WellFoundedInduction, TLAPS

CtrlKinds == {"stream", "rate", "pause"}
StartKinds == {"stream", "rate"}
Events == [kind : CtrlKinds \cup {"iso", "remove"}, ok : BOOLEAN]
Calling == {"queue", "reset", "attach", "start", "publish"}
Aborting == {"abort", "abort_take"}

Shape ==
  /\ ep \in [open : BOOLEAN, has : BOOLEAN, aborted : BOOLEAN]
  /\ usbh \in [mounted : BOOLEAN, busy : BOOLEAN, ctrl : CtrlKinds \cup {"idle", "done"},
               events : Seq(Events)]
  /\ app \in [pc : Calling \cup Aborting \cup {"idle", "pause"}, mic : BOOLEAN,
              paused : BOOLEAN, pending : BOOLEAN, opened : BOOLEAN]
  /\ dev = [there |-> dev.there, alt |-> dev.alt, next |-> dev.next]
  /\ dev.there \in BOOLEAN

\* The events of some kinds, and the order all of them come in: one completion and
\* one control request at a time, the completion of a transfer before the request
\* that starts the stream again, and the removal last.
Told(events, kinds) == \E i \in 1..Len(events) : events[i].kind \in kinds

IsoDue(events) == Told(events, {"iso"})
CtrlDue(events) == Told(events, CtrlKinds)
StartDue(events) == Told(events, StartKinds)
RemovalDue(events) == Told(events, {"remove"})

Orderly(events) ==
  \A i, j \in 1..Len(events) : i < j =>
    /\ events[i].kind # "remove"
    /\ events[i].kind = "iso" => events[j].kind # "iso"
    /\ events[i].kind \in CtrlKinds => events[j].kind \notin CtrlKinds
    /\ events[i].kind \in StartKinds => events[j].kind # "iso"

EventsKept ==
  /\ Orderly(usbh.events)
  /\ RemovalDue(usbh.events) => ~dev.there
  /\ CtrlDue(usbh.events) =>
       usbh.ctrl # "idle" /\ (usbh.ctrl = "done" \/ ~dev.there)

\* The stream is about to be started: nothing of an earlier transfer is left but
\* perhaps its completion, after which the application does not queue another.
Starts == usbh.ctrl \in StartKinds \/ StartDue(usbh.events)
StartKept ==
  Starts =>
    /\ ~ep.has /\ app.pc \notin Calling
    /\ IsoDue(usbh.events) => ~Requeues

\* The one transfer: it is the library's, or its completion is on its way, or the
\* application is about to queue it.
TransferKept ==
  /\ ep.has => app.pending /\ ~IsoDue(usbh.events)
  /\ app.pc \in Calling => ~ep.has /\ ~IsoDue(usbh.events)
  /\ app.pc \in Calling \ {"queue"} => app.pending
  /\ usbh.busy => ep.has \/ IsoDue(usbh.events) \/ app.pc \in Calling \ {"queue"}

\* A stream that is paused has no transfer once the abort is over.
PauseKept ==
  /\ app.paused => app.pc \notin Calling
  /\ app.paused /\ app.pc \notin Aborting => ~ep.has
  /\ app.pc \in Aborting \cup {"pause"} => app.paused /\ app.mic

\* Only a mounted device has anything under way.
MountKept ==
  app.mic \/ usbh.ctrl # "idle" \/ ep.open \/ ep.has \/ app.pc \in Calling \ {"queue"} =>
    usbh.mounted

QueuedInv == Shape /\ EventsKept /\ StartKept /\ TransferKept /\ PauseKept /\ MountKept

-----------------------------------------------------------------------------
(* The events to come.                                                        *)

\* One event more is told of with those before it.
LEMMA ToldAppend ==
  ASSUME NEW s \in Seq(Events), NEW e \in Events, NEW kinds
  PROVE  /\ Append(s, e) \in Seq(Events)
         /\ Told(Append(s, e), kinds) <=> Told(s, kinds) \/ e.kind \in kinds
<1> DEFINE t == Append(s, e)
<1>1. /\ t \in Seq(Events) /\ Len(t) = Len(s) + 1 /\ Len(s) \in Nat
      /\ \A i \in 1 .. Len(s) : t[i] = s[i]
      /\ t[Len(s) + 1] = e
  OBVIOUS
<1> HIDE DEF t
<1>2. Told(t, kinds) <=> Told(s, kinds) \/ e.kind \in kinds
  BY <1>1 DEF Told
<1> QED
  BY <1>1, <1>2 DEF t

\* What the events of the four groups are after one more.
LEMMA DueAppend ==
  ASSUME NEW s \in Seq(Events), NEW e \in Events
  PROVE  /\ Append(s, e) \in Seq(Events)
         /\ IsoDue(Append(s, e)) <=> IsoDue(s) \/ e.kind = "iso"
         /\ CtrlDue(Append(s, e)) <=> CtrlDue(s) \/ e.kind \in CtrlKinds
         /\ StartDue(Append(s, e)) <=> StartDue(s) \/ e.kind \in StartKinds
         /\ RemovalDue(Append(s, e)) <=> RemovalDue(s) \/ e.kind = "remove"
<1>1. /\ Append(s, e) \in Seq(Events)
      /\ \A kinds : Told(Append(s, e), kinds) <=> Told(s, kinds) \/ e.kind \in kinds
  BY ToldAppend
<1> QED
  BY <1>1, Zenon DEF IsoDue, CtrlDue, StartDue, RemovalDue

\* An event may follow the others when none of them forbids it.
LEMMA OrderAppend ==
  ASSUME NEW s \in Seq(Events), NEW e \in Events,
         Orderly(s), ~RemovalDue(s),
         e.kind = "iso" => ~IsoDue(s) /\ ~StartDue(s),
         e.kind \in CtrlKinds => ~CtrlDue(s)
  PROVE  Orderly(Append(s, e))
<1> DEFINE t == Append(s, e)
<1>1. /\ Len(t) = Len(s) + 1 /\ Len(s) \in Nat
      /\ \A i \in 1 .. Len(s) : t[i] = s[i]
      /\ t[Len(s) + 1] = e
  OBVIOUS
<1> HIDE DEF t
<1>2. \A i \in 1 .. Len(s) :
        /\ s[i].kind # "remove"
        /\ e.kind = "iso" => s[i].kind # "iso" /\ s[i].kind \notin StartKinds
        /\ e.kind \in CtrlKinds => s[i].kind \notin CtrlKinds
  BY DEF IsoDue, CtrlDue, StartDue, RemovalDue, Told
<1>3. ASSUME NEW i \in 1 .. Len(t), NEW j \in 1 .. Len(t), i < j
      PROVE  /\ t[i].kind # "remove"
             /\ t[i].kind = "iso" => t[j].kind # "iso"
             /\ t[i].kind \in CtrlKinds => t[j].kind \notin CtrlKinds
             /\ t[i].kind \in StartKinds => t[j].kind # "iso"
  <2>1. i \in 1 .. Len(s) /\ t[i] = s[i]
    BY <1>1, <1>3
  <2>2. CASE j \in 1 .. Len(s)
    <3>1. t[j] = s[j]
      BY <1>1, <2>2
    <3> QED
      BY <1>3, <2>1, <2>2, <3>1 DEF Orderly
  <2>3. CASE j = Len(s) + 1
    <3>1. t[j] = e
      BY <1>1, <2>3
    <3> QED
      BY <1>2, <2>1, <3>1
  <2> QED
    BY <1>1, <1>3, <2>2, <2>3
<1> QED
  BY <1>3 DEF Orderly, t

\* The oldest event, and what it says of the others.
LEMMA DueTail ==
  ASSUME NEW s \in Seq(Events), s # <<>>, Orderly(s)
  PROVE  /\ Head(s) \in Events
         /\ Tail(s) \in Seq(Events) /\ Orderly(Tail(s))
         /\ IsoDue(s) <=> IsoDue(Tail(s)) \/ Head(s).kind = "iso"
         /\ CtrlDue(s) <=> CtrlDue(Tail(s)) \/ Head(s).kind \in CtrlKinds
         /\ StartDue(s) <=> StartDue(Tail(s)) \/ Head(s).kind \in StartKinds
         /\ RemovalDue(s) <=> RemovalDue(Tail(s)) \/ Head(s).kind = "remove"
         /\ Head(s).kind = "iso" => ~IsoDue(Tail(s))
         /\ Head(s).kind \in CtrlKinds => ~CtrlDue(Tail(s))
         /\ Head(s).kind \in StartKinds => ~IsoDue(Tail(s))
         /\ Head(s).kind = "remove" => Tail(s) = <<>>
<1> DEFINE t == Tail(s)
           h == Head(s)
<1>1. /\ t \in Seq(Events) /\ h \in Events /\ h = s[1]
      /\ Len(t) \in Nat /\ Len(s) \in Nat /\ Len(s) = Len(t) + 1
      /\ \A i \in 1 .. Len(t) : t[i] = s[i + 1]
  BY HeadTailProperties
<1>2. t = <<>> <=> Len(t) = 0
  BY <1>1, EmptySeq
<1> HIDE DEF t, h
<1>3. \A kinds : Told(s, kinds) <=> Told(t, kinds) \/ h.kind \in kinds
  <2> TAKE kinds
  <2>1. ASSUME NEW i \in 1 .. Len(s)
        PROVE  i = 1 \/ (i - 1 \in 1 .. Len(t) /\ t[i - 1] = s[i])
    BY <1>1
  <2>2. 1 \in 1 .. Len(s) /\ \A i \in 1 .. Len(t) : i + 1 \in 1 .. Len(s)
    BY <1>1
  <2> QED
    BY <1>1, <2>1, <2>2 DEF Told
<1>4. Orderly(t)
  <2>1. ASSUME NEW i \in 1 .. Len(t), NEW j \in 1 .. Len(t), i < j
        PROVE  /\ i + 1 \in 1 .. Len(s) /\ j + 1 \in 1 .. Len(s) /\ i + 1 < j + 1
               /\ t[i] = s[i + 1] /\ t[j] = s[j + 1]
    BY <1>1, <2>1
  <2> QED
    BY <2>1 DEF Orderly
<1>5. \A j \in 1 .. Len(t) :
        /\ h.kind # "remove"
        /\ h.kind = "iso" => t[j].kind # "iso"
        /\ h.kind \in CtrlKinds => t[j].kind \notin CtrlKinds
        /\ h.kind \in StartKinds => t[j].kind # "iso"
  <2> TAKE j \in 1 .. Len(t)
  <2>1. 1 \in 1 .. Len(s) /\ j + 1 \in 1 .. Len(s) /\ 1 < j + 1 /\ t[j] = s[j + 1]
    BY <1>1
  <2> QED
    BY <1>1, <2>1 DEF Orderly
<1>6. /\ h.kind = "iso" => ~IsoDue(t)
      /\ h.kind \in CtrlKinds => ~CtrlDue(t)
      /\ h.kind \in StartKinds => ~IsoDue(t)
  BY <1>5 DEF IsoDue, CtrlDue, Told
<1>7. h.kind = "remove" => t = <<>>
  <2>1. h.kind = "remove" => ~(1 \in 1 .. Len(t))
    BY <1>5
  <2> QED
    BY <1>1, <1>2, <2>1
<1>8. /\ IsoDue(s) <=> IsoDue(t) \/ h.kind = "iso"
      /\ CtrlDue(s) <=> CtrlDue(t) \/ h.kind \in CtrlKinds
      /\ StartDue(s) <=> StartDue(t) \/ h.kind \in StartKinds
      /\ RemovalDue(s) <=> RemovalDue(t) \/ h.kind = "remove"
  BY <1>3, Zenon DEF IsoDue, CtrlDue, StartDue, RemovalDue
<1> QED
  BY <1>1, <1>4, <1>6, <1>7, <1>8 DEF t, h

\* Nothing is due when there is no event.
LEMMA NothingDue ==
  /\ <<>> \in Seq(Events) /\ Orderly(<<>>)
  /\ ~IsoDue(<<>>) /\ ~CtrlDue(<<>>) /\ ~StartDue(<<>>) /\ ~RemovalDue(<<>>)
BY DEF Orderly, Told, IsoDue, CtrlDue, StartDue, RemovalDue

\* A request that starts the stream is a control request.
LEMMA StartIsCtrl ==
  ASSUME NEW s
  PROVE  StartDue(s) => CtrlDue(s)
BY DEF StartDue, CtrlDue, Told, StartKinds, CtrlKinds

-----------------------------------------------------------------------------
(* Each step keeps the invariant: first what the frame handler, the device and *)
(* the control requests do.                                                   *)

\* The device stays where it is, or away.
SamePort == \E alt, next : dev' = [there |-> dev.there, alt |-> alt, next |-> next]

LEMMA PortStays ==
  ASSUME SamePort
  PROVE  /\ dev'.there = dev.there
         /\ dev' = [there |-> dev'.there, alt |-> dev'.alt, next |-> dev'.next]
BY DEF SamePort

\* The ring, the buffer and the ghosts may change: the invariant is not about them.
LEMMA RingApart ==
  ASSUME QueuedInv, UNCHANGED <<ep, usbh, app>>, SamePort
  PROVE  QueuedInv'
<1>1. /\ dev'.there = dev.there
      /\ dev' = [there |-> dev'.there, alt |-> dev'.alt, next |-> dev'.next]
  BY PortStays
<1> QED
  BY <1>1 DEF QueuedInv, Shape, EventsKept, StartKept, Starts, Requeues, TransferKept,
     PauseKept, MountKept

\* The transfer ends in the frame handler.
TransferEnds ==
  /\ ep' = [ep EXCEPT !.has = FALSE]
  /\ \E ok \in BOOLEAN : usbh' = Post(usbh, IsoDone(ok))

LEMMA EndsKeep ==
  ASSUME QueuedInv, TransferEnds, dev.there, ep.has, app' = app, SamePort
  PROVE  QueuedInv'
<1>1. PICK ok \in BOOLEAN : usbh' = Post(usbh, IsoDone(ok))
  BY DEF TransferEnds
<1>2. usbh.events \in Seq(Events) /\ IsoDone(ok) \in Events /\ IsoDone(ok).kind = "iso"
      /\ "iso" \notin CtrlKinds /\ "iso" \notin StartKinds
  BY DEF QueuedInv, Shape, Events, IsoDone, CtrlKinds, StartKinds
<1>3. /\ usbh' = [usbh EXCEPT !.events = Append(usbh.events, IsoDone(ok))]
      /\ usbh'.events = Append(usbh.events, IsoDone(ok))
      /\ usbh'.mounted = usbh.mounted /\ usbh'.busy = usbh.busy /\ usbh'.ctrl = usbh.ctrl
  BY <1>1 DEF Post, QueuedInv, Shape
<1>4. /\ usbh'.events \in Seq(Events)
      /\ IsoDue(usbh'.events)
      /\ CtrlDue(usbh'.events) <=> CtrlDue(usbh.events)
      /\ StartDue(usbh'.events) <=> StartDue(usbh.events)
      /\ RemovalDue(usbh'.events) <=> RemovalDue(usbh.events)
  BY <1>2, <1>3, DueAppend
<1>5. ep' = [ep EXCEPT !.has = FALSE] /\ ~ep'.has /\ ep'.open = ep.open
  BY DEF TransferEnds, QueuedInv, Shape
<1>6. /\ dev'.there = dev.there
      /\ dev' = [there |-> dev'.there, alt |-> dev'.alt, next |-> dev'.next]
  BY PortStays
<1>7. ~Starts /\ ~StartDue(usbh.events)
  BY DEF QueuedInv, StartKept, Starts
<1>8. app.pc \notin Calling /\ ~IsoDue(usbh.events)
  BY DEF QueuedInv, TransferKept
<1>9. Orderly(usbh'.events)
  <2>1. Orderly(usbh.events) /\ ~RemovalDue(usbh.events)
    BY DEF QueuedInv, EventsKept
  <2> QED
    BY <1>2, <1>3, <1>7, <1>8, <2>1, OrderAppend
<1>a. Shape'
  BY <1>3, <1>4, <1>5, <1>6 DEF QueuedInv, Shape
<1>b. EventsKept'
  BY <1>3, <1>4, <1>6, <1>9 DEF QueuedInv, EventsKept
<1>c. StartKept'
  BY <1>3, <1>4, <1>7 DEF StartKept, Starts
<1>d. TransferKept'
  BY <1>4, <1>5, <1>8 DEF TransferKept
<1>e. PauseKept' /\ MountKept'
  BY <1>3, <1>5 DEF QueuedInv, PauseKept, MountKept
<1> QED
  BY <1>a, <1>b, <1>c, <1>d, <1>e DEF QueuedInv

LEMMA FrameKeeps ==
  ASSUME QueuedInv, Frame
  PROVE  QueuedInv'
<1>1. app' = app
  BY DEF Frame, Skip, Poll, FrameOnly
<1>2. dev = [there |-> dev.there, alt |-> dev.alt, next |-> dev.next]
  BY DEF QueuedInv, Shape
<1>0. dev' = dev => SamePort
  BY <1>2 DEF SamePort
<1>3. CASE FrameSkips
  <2>1. dev' = dev
    BY <1>3 DEF FrameSkips
  <2>2. CASE dev.there /\ ep.open /\ ring_on /\ Live
    BY <1>0, <1>1, <1>3, <2>1, <2>2, EndsKeep DEF FrameSkips, TransferEnds, Live
  <2>3. CASE ~(dev.there /\ ep.open /\ ring_on /\ Live)
    BY <1>0, <1>1, <1>3, <2>1, <2>3, RingApart DEF FrameSkips
  <2> QED
    BY <2>2, <2>3
<1>4. CASE FrameReceives
  <2>1. PICK reception \in Receptions, complete \in BOOLEAN :
          /\ complete => Live
          /\ ep' = [ep EXCEPT !.has = @ /\ ~complete]
          /\ usbh' = IF complete THEN Post(usbh, IsoDone(TRUE)) ELSE usbh
          /\ dev' = Numbered(reception)
    BY <1>4 DEF FrameReceives
  <2>2. SamePort
    <3>1. \E n : dev' = [dev EXCEPT !.next = n]
      BY <2>1 DEF Numbered
    <3> QED
      BY <1>2, <3>1 DEF SamePort
  <2>3. CASE complete
    <3>1. dev.there /\ ep.has
      BY <1>4, <2>1, <2>3 DEF FrameReceives, Live
    <3>2. ep' = [ep EXCEPT !.has = FALSE]
      BY <2>1, <2>3
    <3> QED
      BY <1>1, <2>1, <2>2, <2>3, <3>1, <3>2, EndsKeep DEF TransferEnds
  <2>4. CASE ~complete
    <3>1. ep' = ep
      BY <2>1, <2>4 DEF QueuedInv, Shape
    <3> QED
      BY <1>1, <2>1, <2>2, <2>4, <3>1, RingApart
  <2> QED
    BY <2>3, <2>4
<1>5. CASE FramePacket
  <2>1. TransferEnds
    <3>1. PICK reception \in Receptions :
            /\ ep' = [ep EXCEPT !.has = FALSE]
            /\ usbh' = Post(usbh, IsoDone(reception.kind = "sound"))
      BY <1>5 DEF FramePacket
    <3>2. (reception.kind = "sound") \in BOOLEAN
      OBVIOUS
    <3> QED
      BY <3>1, <3>2 DEF TransferEnds
  <2>2. dev.there /\ ep.has /\ dev' = dev
    BY <1>5 DEF FramePacket, Live
  <2> QED
    BY <1>0, <1>1, <2>1, <2>2, EndsKeep
<1> QED
  BY <1>3, <1>4, <1>5 DEF Frame, Skip, Poll

\* A device is plugged only when nothing of the one before it is due.
LEMMA PlugKeeps ==
  ASSUME QueuedInv, Plug
  PROVE  QueuedInv'
<1>1. usbh.events = <<>> /\ UNCHANGED <<ep, usbh, app>>
  BY DEF Plug, World
<1>2. ~CtrlDue(usbh.events) /\ ~RemovalDue(usbh.events)
  BY <1>1, NothingDue
<1>3. Shape'
  BY <1>1 DEF QueuedInv, Shape, Plug
<1>4. EventsKept'
  BY <1>1, <1>2 DEF QueuedInv, EventsKept
<1> QED
  BY <1>1, <1>3, <1>4 DEF QueuedInv, StartKept, Starts, Requeues, TransferKept, PauseKept,
     MountKept

\* Up to three events more, as a concatenation and one by one.
LEMMA ThreeMore ==
  ASSUME NEW S, NEW u \in Seq(S), NEW a \in S, NEW b \in S, NEW c \in S
  PROVE  /\ u \o (<<a>> \o <<b>>) \o <<c>> = Append(Append(Append(u, a), b), c)
         /\ u \o (<<a>> \o <<>>) \o <<c>> = Append(Append(u, a), c)
         /\ u \o (<<>> \o <<a>>) \o <<c>> = Append(Append(u, a), c)
         /\ u \o (<<>> \o <<>>) \o <<c>> = Append(u, c)
<1>1. \A w \in Seq(S), x \in S : w \o <<x>> = Append(w, x) /\ Append(w, x) \in Seq(S)
  BY AppendIsConcat, AppendProperties
<1>2. /\ <<a>> \in Seq(S) /\ <<b>> \in Seq(S) /\ <<>> \in Seq(S)
      /\ <<a>> \o <<>> = <<a>> /\ <<>> \o <<a>> = <<a>> /\ <<>> \o <<>> = <<>>
      /\ u \o <<>> = u
  OBVIOUS
<1>3. u \o (<<a>> \o <<b>>) = (u \o <<a>>) \o <<b>>
  BY <1>2, ConcatAssociative
<1> DEFINE u1 == Append(u, a)
           u2 == Append(u1, b)
<1>4. u1 \in Seq(S) /\ u2 \in Seq(S) /\ u \o <<a>> = u1 /\ u1 \o <<b>> = u2
  BY <1>1
<1>5. u2 \o <<c>> = Append(u2, c) /\ u1 \o <<c>> = Append(u1, c) /\ u \o <<c>> = Append(u, c)
  BY <1>1, <1>4
<1> QED
  BY <1>2, <1>3, <1>4, <1>5

\* The device goes: the transfer and the control request fail, and the stack is told.
LEMMA UnplugKeeps ==
  ASSUME QueuedInv, Unplug
  PROVE  QueuedInv'
<1> DEFINE ctrl == usbh.ctrl
           none == ctrl \in {"idle", "done"}
           iso == IsoDone(FALSE)
           fail == CtrlDone(ctrl, FALSE)
           gone == [kind |-> "remove", ok |-> TRUE]
           s0 == usbh.events
           s1 == IF ep.has THEN Append(s0, iso) ELSE s0
           s2 == IF none THEN s1 ELSE Append(s1, fail)
           s3 == Append(s2, gone)
           told == s0 \o ((IF ep.has THEN <<iso>> ELSE <<>>)
                          \o (IF none THEN <<>> ELSE <<fail>>)) \o <<gone>>
<1>1. /\ s0 \in Seq(Events) /\ gone \in Events /\ iso \in Events
      /\ ctrl \in CtrlKinds \cup {"idle", "done"}
      /\ ctrl \in CtrlKinds => fail \in Events
      /\ ctrl \in CtrlKinds <=> ctrl \notin {"idle", "done"}
      /\ ctrl \in StartKinds => ctrl \in CtrlKinds
  BY DEF QueuedInv, Shape, Events, IsoDone, CtrlDone, CtrlKinds, StartKinds
<1>2. /\ iso.kind = "iso" /\ fail.kind = ctrl
      /\ gone.kind = "remove"
      /\ "iso" \notin CtrlKinds /\ "iso" \notin StartKinds
      /\ "remove" \notin CtrlKinds /\ "remove" \notin StartKinds
      /\ ctrl \in CtrlKinds => ctrl # "iso" /\ ctrl # "remove"
  BY DEF IsoDone, CtrlDone, CtrlKinds, StartKinds
<1>3. /\ dev.there /\ ~RemovalDue(s0) /\ Orderly(s0)
      /\ CtrlDue(s0) => ctrl = "done"
      /\ ep.has => ~IsoDue(s0) /\ ~StartDue(s0)
  BY DEF QueuedInv, EventsKept, TransferKept, StartKept, Starts, Unplug
<1>4. usbh' = [usbh EXCEPT !.events = told]
  BY DEF Unplug
<1> HIDE DEF gone, iso, fail
<1>5. told = s3
  <2>1. s0 \in Seq(Events) /\ iso \in Events /\ gone \in Events /\ (~none => fail \in Events)
    BY <1>1
  <2> HIDE DEF s0, s1, s2, s3, none, told
  <2>2. CASE ep.has /\ none
    <3>1. told = s0 \o (<<iso>> \o <<>>) \o <<gone>> /\ s3 = Append(Append(s0, iso), gone)
      BY <2>2 DEF told, s1, s2, s3
    <3> QED
      BY <2>1, <3>1, ThreeMore
  <2>3. CASE ep.has /\ ~none
    <3>1. told = s0 \o (<<iso>> \o <<fail>>) \o <<gone>>
          /\ s3 = Append(Append(Append(s0, iso), fail), gone)
      BY <2>3 DEF told, s1, s2, s3
    <3>2. s0 \in Seq(Events) /\ iso \in Events /\ fail \in Events /\ gone \in Events
      BY <2>1, <2>3, Zenon
    <3> HIDE DEF ctrl
    <3>3. s0 \o (<<iso>> \o <<fail>>) \o <<gone>>
            = Append(Append(Append(s0, iso), fail), gone)
      BY <3>2, ThreeMore
    <3> QED
      BY <3>1, <3>3, Zenon
  <2>4. CASE ~ep.has /\ none
    <3>1. told = s0 \o (<<>> \o <<>>) \o <<gone>> /\ s3 = Append(s0, gone)
      BY <2>4 DEF told, s1, s2, s3
    <3> QED
      BY <2>1, <3>1, ThreeMore
  <2>5. CASE ~ep.has /\ ~none
    <3>1. told = s0 \o (<<>> \o <<fail>>) \o <<gone>> /\ s3 = Append(Append(s0, fail), gone)
      BY <2>5 DEF told, s1, s2, s3
    <3>2. s0 \in Seq(Events) /\ iso \in Events /\ fail \in Events /\ gone \in Events
      BY <2>1, <2>5, Zenon
    <3> HIDE DEF ctrl
    <3>3. s0 \o (<<>> \o <<fail>>) \o <<gone>> = Append(Append(s0, fail), gone)
      BY <3>2, ThreeMore
    <3> QED
      BY <3>1, <3>3, Zenon
  <2> QED
    BY <2>2, <2>3, <2>4, <2>5
<1> HIDE DEF told
<1>6. /\ s1 \in Seq(Events) /\ Orderly(s1) /\ ~RemovalDue(s1)
      /\ IsoDue(s1) <=> IsoDue(s0) \/ ep.has
      /\ CtrlDue(s1) <=> CtrlDue(s0)
      /\ StartDue(s1) <=> StartDue(s0)
  <2>1. CASE ep.has
    <3>1. s1 = Append(s0, iso)
      BY <2>1
    <3>2. s1 \in Seq(Events) /\ (RemovalDue(s1) <=> RemovalDue(s0))
          /\ IsoDue(s1) /\ (CtrlDue(s1) <=> CtrlDue(s0)) /\ (StartDue(s1) <=> StartDue(s0))
      BY <1>1, <1>2, <3>1, DueAppend
    <3>3. Orderly(s1)
      BY <1>1, <1>2, <1>3, <2>1, <3>1, OrderAppend
    <3> QED
      BY <1>3, <2>1, <3>2, <3>3
  <2>2. CASE ~ep.has
    BY <1>1, <1>3, <2>2
  <2> QED
    BY <2>1, <2>2
<1> HIDE DEF s1
<1>7. /\ s2 \in Seq(Events) /\ Orderly(s2) /\ ~RemovalDue(s2)
      /\ IsoDue(s2) <=> IsoDue(s1)
      /\ CtrlDue(s2) => ctrl # "idle"
      /\ StartDue(s2) => StartDue(s1) \/ ctrl \in StartKinds
  <2>1. CASE ctrl \in CtrlKinds
    <3>1. ~CtrlDue(s1) /\ s2 = Append(s1, fail) /\ ctrl # "idle"
      BY <1>1, <1>3, <1>6, <2>1
    <3> QED
      BY <1>1, <1>2, <1>6, <2>1, <3>1, DueAppend, OrderAppend
  <2>2. CASE ctrl \notin CtrlKinds
    BY <1>1, <1>3, <1>6, <2>2
  <2> QED
    BY <2>1, <2>2
<1> HIDE DEF s2
<1>8. /\ s3 \in Seq(Events) /\ Orderly(s3)
      /\ IsoDue(s3) <=> IsoDue(s2)
      /\ CtrlDue(s3) <=> CtrlDue(s2)
      /\ StartDue(s3) <=> StartDue(s2)
  BY <1>1, <1>2, <1>7, DueAppend, OrderAppend
<1> HIDE DEF s3
<1>9. /\ usbh'.events = s3
      /\ usbh'.mounted = usbh.mounted /\ usbh'.busy = usbh.busy /\ usbh'.ctrl = usbh.ctrl
  BY <1>4, <1>5 DEF QueuedInv, Shape
<1>a. /\ ep' = [ep EXCEPT !.has = FALSE] /\ ~ep'.has /\ ep'.open = ep.open
      /\ app' = app
      /\ dev' = [there |-> FALSE, alt |-> dev.alt, next |-> dev.next] /\ ~dev'.there
  BY DEF Unplug, World, QueuedInv, Shape
<1>b. Starts' => Starts
  BY <1>6, <1>7, <1>8, <1>9 DEF Starts
<1>c. Shape'
  BY <1>4, <1>5, <1>8, <1>a DEF QueuedInv, Shape
<1>d. EventsKept'
  BY <1>7, <1>8, <1>9, <1>a DEF EventsKept
<1>e. StartKept'
  <2>1. Starts => ~ep.has /\ app.pc \notin Calling /\ (IsoDue(s0) => ~Requeues)
    BY DEF QueuedInv, StartKept
  <2>2. IsoDue(s3) <=> IsoDue(s0) \/ ep.has
    BY <1>6, <1>7, <1>8
  <2>3. Requeues' <=> Requeues
    BY <1>a DEF Requeues
  <2> QED
    BY <1>9, <1>a, <1>b, <2>1, <2>2, <2>3 DEF StartKept
<1>f. TransferKept'
  BY <1>6, <1>7, <1>8, <1>9, <1>a DEF QueuedInv, TransferKept
<1>g. PauseKept' /\ MountKept'
  BY <1>9, <1>a DEF QueuedInv, PauseKept, MountKept
<1> QED
  BY <1>c, <1>d, <1>e, <1>f, <1>g DEF QueuedInv

LEMMA ControlKeeps ==
  ASSUME QueuedInv, ControlEnds
  PROVE  QueuedInv'
<1>1. PICK ok \in BOOLEAN :
        usbh' = [Post(usbh, CtrlDone(usbh.ctrl, ok)) EXCEPT !.ctrl = "done"]
  BY DEF ControlEnds
<1> DEFINE e == CtrlDone(usbh.ctrl, ok)
<1>2. /\ usbh.events \in Seq(Events) /\ e \in Events /\ e.kind = usbh.ctrl
      /\ usbh.ctrl \in CtrlKinds /\ usbh.ctrl # "iso" /\ usbh.ctrl # "remove"
      /\ usbh.ctrl # "idle" /\ usbh.ctrl # "done"
      /\ "done" \notin StartKinds /\ "done" # "idle"
  BY DEF QueuedInv, Shape, ControlEnds, Events, CtrlDone, CtrlKinds, StartKinds
<1>3. /\ usbh'.events = Append(usbh.events, e) /\ usbh'.ctrl = "done"
      /\ usbh'.mounted = usbh.mounted /\ usbh'.busy = usbh.busy
      /\ usbh' = [usbh EXCEPT !.events = Append(usbh.events, e), !.ctrl = "done"]
  BY <1>1 DEF Post, QueuedInv, Shape
<1> HIDE DEF e
<1>4. /\ usbh'.events \in Seq(Events)
      /\ IsoDue(usbh'.events) <=> IsoDue(usbh.events)
      /\ StartDue(usbh'.events) <=> StartDue(usbh.events) \/ usbh.ctrl \in StartKinds
      /\ RemovalDue(usbh'.events) <=> RemovalDue(usbh.events)
  BY <1>2, <1>3, DueAppend
<1>5. ep' = ep /\ app' = app /\ dev.there
      /\ dev'.there = dev.there
      /\ dev' = [there |-> dev.there, alt |-> dev'.alt, next |-> dev'.next]
  BY DEF ControlEnds, World, QueuedInv, Shape
<1>6. Orderly(usbh'.events)
  <2>1. Orderly(usbh.events) /\ ~RemovalDue(usbh.events) /\ ~CtrlDue(usbh.events)
    BY <1>2, <1>5 DEF QueuedInv, EventsKept
  <2> QED
    BY <1>2, <1>3, <2>1, OrderAppend
<1>7. Starts' => Starts
  BY <1>2, <1>3, <1>4 DEF Starts
<1>8. Shape'
  BY <1>3, <1>4, <1>5 DEF QueuedInv, Shape
<1>9. EventsKept'
  BY <1>2, <1>3, <1>4, <1>5, <1>6 DEF QueuedInv, EventsKept
<1>a. StartKept'
  BY <1>4, <1>5, <1>7 DEF QueuedInv, StartKept, Requeues
<1>b. TransferKept'
  BY <1>3, <1>4, <1>5 DEF QueuedInv, TransferKept
<1>c. PauseKept' /\ MountKept'
  BY <1>2, <1>3, <1>5 DEF QueuedInv, PauseKept, MountKept
<1> QED
  BY <1>8, <1>9, <1>a, <1>b, <1>c DEF QueuedInv

-----------------------------------------------------------------------------
(* Then the calls of the application's core.                                  *)

\* A completion is handled: the device's next transfer is queued, or none is.
LEMMA CompleteKeeps ==
  ASSUME QueuedInv, IsoComplete
  PROVE  QueuedInv'
<1> DEFINE s == usbh.events
           t == Tail(s)
<1>1. s \in Seq(Events) /\ s # <<>> /\ Orderly(s) /\ Head(s).kind = "iso"
  BY DEF QueuedInv, Shape, EventsKept, IsoComplete, Handles
<1>2. "iso" \notin CtrlKinds /\ "iso" \notin StartKinds
  BY DEF CtrlKinds, StartKinds
<1>3. /\ t \in Seq(Events) /\ Orderly(t) /\ IsoDue(s) /\ ~IsoDue(t)
      /\ CtrlDue(t) <=> CtrlDue(s)
      /\ StartDue(t) <=> StartDue(s)
      /\ RemovalDue(t) => RemovalDue(s)
  BY <1>1, <1>2, DueTail
<1> HIDE DEF t
<1>4. /\ usbh' = [usbh EXCEPT !.events = t, !.busy = FALSE]
      /\ usbh'.events = t /\ ~usbh'.busy
      /\ usbh'.mounted = usbh.mounted /\ usbh'.ctrl = usbh.ctrl
  BY DEF IsoComplete, Handled, QueuedInv, Shape, t
<1>5. app.pc = "idle" /\ ep' = ep /\ dev' = dev
  BY DEF IsoComplete, Handles, AppOnly
<1>6. /\ app' = [app EXCEPT !.pending = FALSE, !.pc = IF Requeues THEN "queue" ELSE "idle"]
      /\ app'.pc = (IF Requeues THEN "queue" ELSE "idle")
      /\ app'.mic = app.mic /\ app'.paused = app.paused
  BY DEF IsoComplete, QueuedInv, Shape
<1>7. ~ep.has
  BY <1>3 DEF QueuedInv, TransferKept
<1>8. Starts' => ~Requeues
  BY <1>3, <1>4 DEF QueuedInv, StartKept, Starts
<1>9. Shape'
  BY <1>3, <1>4, <1>5, <1>6 DEF QueuedInv, Shape, Calling, Aborting
<1>a. EventsKept'
  BY <1>3, <1>4, <1>5 DEF QueuedInv, EventsKept
<1>b. StartKept'
  BY <1>3, <1>4, <1>5, <1>6, <1>7, <1>8 DEF StartKept, Calling
<1>c. TransferKept'
  BY <1>3, <1>4, <1>5, <1>6, <1>7 DEF TransferKept, Calling
<1>d. PauseKept' /\ MountKept'
  BY <1>4, <1>5, <1>6, <1>7 DEF QueuedInv, PauseKept, MountKept, Requeues, Calling, Aborting
<1> QED
  BY <1>9, <1>a, <1>b, <1>c, <1>d DEF QueuedInv

\* The event of a control request that starts the stream is handled: no transfer is
\* left, and no completion.
LEMMA StartHandled ==
  ASSUME QueuedInv, NEW kind \in StartKinds, Handles(kind)
  PROVE  /\ Handled.events \in Seq(Events) /\ Orderly(Handled.events)
         /\ ~IsoDue(Handled.events) /\ ~CtrlDue(Handled.events) /\ ~StartDue(Handled.events)
         /\ RemovalDue(Handled.events) => ~dev.there
         /\ ~ep.has /\ ~usbh.busy /\ app.pc = "idle" /\ usbh.mounted
         /\ Handled.mounted = usbh.mounted /\ Handled.busy = usbh.busy
         /\ Handled = [usbh EXCEPT !.events = Handled.events]
<1> DEFINE s == usbh.events
           t == Tail(s)
<1>1. s \in Seq(Events) /\ s # <<>> /\ Orderly(s) /\ Head(s).kind = kind
  BY DEF QueuedInv, Shape, EventsKept, Handles
<1>2. kind \in CtrlKinds /\ kind # "iso" /\ kind # "remove"
  BY DEF CtrlKinds, StartKinds
<1>3. /\ t \in Seq(Events) /\ Orderly(t) /\ ~IsoDue(t) /\ ~CtrlDue(t)
      /\ IsoDue(s) <=> IsoDue(t)
      /\ CtrlDue(s) /\ StartDue(s)
      /\ RemovalDue(t) => RemovalDue(s)
  BY <1>1, <1>2, DueTail
<1>4. ~StartDue(t)
  BY <1>3, StartIsCtrl
<1> HIDE DEF t
<1>5. /\ Handled = [usbh EXCEPT !.events = t] /\ Handled.events = t
      /\ Handled.mounted = usbh.mounted /\ Handled.busy = usbh.busy
  BY DEF Handled, QueuedInv, Shape, t
<1>6. app.pc = "idle" /\ ~ep.has
  BY <1>3 DEF QueuedInv, StartKept, Starts, Handles
<1>7. ~usbh.busy
  BY <1>3, <1>6 DEF QueuedInv, TransferKept, Calling
<1>8. usbh.mounted
  BY <1>3 DEF QueuedInv, EventsKept, MountKept
<1>9. RemovalDue(t) => ~dev.there
  BY <1>3 DEF QueuedInv, EventsKept
<1> QED
  BY <1>3, <1>4, <1>5, <1>6, <1>7, <1>8, <1>9

\* The stream starts: the first transfer is queued unless one is pending.
LEMMA StreamingKeeps ==
  ASSUME QueuedInv, NEW kind \in StartKinds, Handles(kind),
         StartStreaming([Handled EXCEPT !.ctrl = "idle"]), dev' = dev
  PROVE  QueuedInv'
<1> DEFINE t == Handled.events
<1>1. /\ t \in Seq(Events) /\ Orderly(t)
      /\ ~IsoDue(t) /\ ~CtrlDue(t) /\ ~StartDue(t)
      /\ RemovalDue(t) => ~dev.there
      /\ ~ep.has /\ ~usbh.busy /\ app.pc = "idle" /\ usbh.mounted
      /\ Handled = [usbh EXCEPT !.events = t]
  BY StartHandled
<1> HIDE DEF t
<1>2. /\ usbh' = [usbh EXCEPT !.events = t, !.ctrl = "idle"]
      /\ usbh'.events = t /\ usbh'.ctrl = "idle" /\ ~usbh'.busy /\ usbh'.mounted
  BY <1>1 DEF StartStreaming, QueuedInv, Shape
<1>3. /\ ep' \in [open : BOOLEAN, has : BOOLEAN, aborted : BOOLEAN]
      /\ ~ep'.has
  BY <1>1 DEF StartStreaming, EpClosed, QueuedInv, Shape
<1>4. /\ app' = [app EXCEPT !.opened = TRUE, !.paused = FALSE,
                            !.pc = IF app.pending THEN "idle" ELSE "queue"]
      /\ app'.pc \in {"idle", "queue"} /\ ~app'.paused
  BY DEF StartStreaming, QueuedInv, Shape
<1>5. Shape'
  BY <1>1, <1>2, <1>3, <1>4 DEF QueuedInv, Shape, Calling, Aborting
<1>6. EventsKept'
  BY <1>1, <1>2 DEF EventsKept
<1>7. StartKept'
  BY <1>1, <1>2 DEF StartKept, Starts, StartKinds
<1>8. TransferKept'
  BY <1>1, <1>2, <1>3, <1>4 DEF TransferKept, Calling
<1>9. PauseKept' /\ MountKept'
  BY <1>2, <1>3, <1>4 DEF PauseKept, MountKept, Aborting
<1> QED
  BY <1>5, <1>6, <1>7, <1>8, <1>9 DEF QueuedInv

LEMMA InterfaceKeeps ==
  ASSUME QueuedInv, InterfaceDone
  PROVE  QueuedInv'
<1> DEFINE t == Handled.events
           u == [Handled EXCEPT !.ctrl = "idle"]
<1>1. Handles("stream") /\ "stream" \in StartKinds /\ dev' = dev
  BY DEF InterfaceDone, StartKinds, AppOnly
<1>2. /\ t \in Seq(Events) /\ Orderly(t)
      /\ ~IsoDue(t) /\ ~CtrlDue(t) /\ ~StartDue(t)
      /\ RemovalDue(t) => ~dev.there
      /\ ~ep.has /\ ~usbh.busy /\ app.pc = "idle" /\ usbh.mounted
      /\ Handled = [usbh EXCEPT !.events = t]
  BY <1>1, StartHandled
<1> HIDE DEF t
<1>3. CASE StartStreaming(u)
  BY <1>1, <1>3, StreamingKeeps
<1>4. ASSUME ep' = ep, app' = app \/ app' = [app EXCEPT !.mic = FALSE],
             NEW ctrl \in {"idle", "rate"}, usbh' = [u EXCEPT !.ctrl = ctrl]
      PROVE  QueuedInv'
  <2>1. /\ usbh' = [usbh EXCEPT !.events = t, !.ctrl = ctrl]
        /\ usbh'.events = t /\ ~usbh'.busy /\ usbh'.mounted
    BY <1>2, <1>4 DEF QueuedInv, Shape
  <2>2. app'.pc = "idle" /\ app'.paused = app.paused
    BY <1>2, <1>4 DEF QueuedInv, Shape
  <2>3. Shape'
    <3>1. Shape /\ t \in Seq(Events) /\ ctrl \in CtrlKinds \cup {"idle", "done"}
      BY <1>2, <1>4 DEF QueuedInv, CtrlKinds
    <3>2. usbh' \in [mounted : BOOLEAN, busy : BOOLEAN, events : Seq(Events),
                     ctrl : CtrlKinds \cup {"idle", "done"}]
      BY <2>1, <3>1 DEF Shape
    <3>3. app' \in [pc : Calling \cup Aborting \cup {"idle", "pause"}, mic : BOOLEAN,
                    paused : BOOLEAN, pending : BOOLEAN, opened : BOOLEAN]
      BY <1>4, <3>1 DEF Shape
    <3> QED
      BY <1>1, <1>4, <3>1, <3>2, <3>3 DEF Shape
  <2>4. EventsKept' /\ StartKept' /\ TransferKept'
    BY <1>1, <1>2, <1>4, <2>1, <2>2 DEF EventsKept, StartKept, TransferKept, Calling
  <2>5. PauseKept' /\ MountKept'
    BY <1>2, <1>4, <2>1, <2>2 DEF PauseKept, MountKept, Calling, Aborting
  <2> QED
    BY <2>3, <2>4, <2>5 DEF QueuedInv
<1>5. u = [u EXCEPT !.ctrl = "idle"]
  BY <1>2 DEF QueuedInv, Shape
<1>6. \/ StartStreaming(u)
      \/ usbh' = u /\ app' = [app EXCEPT !.mic = FALSE] /\ ep' = ep
      \/ usbh' = [u EXCEPT !.ctrl = "rate"] /\ app' = app /\ ep' = ep
  BY DEF InterfaceDone
<1> QED
  BY <1>3, <1>4, <1>5, <1>6

LEMMA RateKeeps ==
  ASSUME QueuedInv, RateDone
  PROVE  QueuedInv'
<1>1. "rate" \in StartKinds /\ dev' = dev
  BY DEF StartKinds, RateDone, AppOnly
<1> QED
  BY <1>1, StreamingKeeps DEF RateDone

LEMMA PauseDoneKeeps ==
  ASSUME QueuedInv, PauseDone
  PROVE  QueuedInv'
<1> DEFINE s == usbh.events
           t == Tail(s)
<1>1. s \in Seq(Events) /\ s # <<>> /\ Orderly(s) /\ Head(s).kind = "pause"
  BY DEF QueuedInv, Shape, EventsKept, PauseDone, Handles
<1>2. "pause" \in CtrlKinds
  BY DEF CtrlKinds
<1>3. /\ t \in Seq(Events) /\ Orderly(t) /\ ~CtrlDue(t) /\ CtrlDue(s)
      /\ IsoDue(t) <=> IsoDue(s)
      /\ RemovalDue(t) => RemovalDue(s)
  BY <1>1, <1>2, DueTail
<1>4. ~StartDue(t)
  BY <1>3, StartIsCtrl
<1> HIDE DEF t
<1>5. /\ usbh' = [usbh EXCEPT !.events = t, !.ctrl = "idle"]
      /\ usbh'.events = t /\ usbh'.ctrl = "idle"
      /\ usbh'.mounted = usbh.mounted /\ usbh'.busy = usbh.busy
  BY DEF PauseDone, Handled, QueuedInv, Shape, t
<1>6. ep' = ep /\ dev' = dev /\ app' = app
  BY DEF PauseDone, AppOnly
<1>7. Shape'
  BY <1>3, <1>5, <1>6 DEF QueuedInv, Shape
<1>8. EventsKept'
  BY <1>3, <1>5, <1>6 DEF QueuedInv, EventsKept
<1>9. StartKept'
  BY <1>4, <1>5 DEF StartKept, Starts, StartKinds
<1>a. TransferKept'
  BY <1>3, <1>5, <1>6 DEF QueuedInv, TransferKept
<1>b. PauseKept' /\ MountKept'
  BY <1>5, <1>6 DEF QueuedInv, PauseKept, MountKept
<1> QED
  BY <1>7, <1>8, <1>9, <1>a, <1>b DEF QueuedInv

\* The device goes with everything that was under way for it.
LEMMA RemoveKeeps ==
  ASSUME QueuedInv, Remove
  PROVE  QueuedInv'
<1> DEFINE s == usbh.events
<1>1. s \in Seq(Events) /\ s # <<>> /\ Orderly(s) /\ Head(s).kind = "remove"
      /\ app.pc = "idle"
  BY DEF QueuedInv, Shape, EventsKept, Remove, Handles
<1>2. Tail(s) = <<>>
  BY <1>1, DueTail
<1>3. /\ usbh' = [mounted |-> FALSE, busy |-> FALSE, ctrl |-> "idle", events |-> <<>>]
      /\ ep' = [open |-> FALSE, has |-> FALSE, aborted |-> FALSE]
  <2>1. Handled.events = Tail(s)
    BY DEF Handled, QueuedInv, Shape
  <2> QED
    BY <1>2, <2>1 DEF Remove, EpClosed, UsbhIdle
<1>4. /\ usbh'.events = <<>> /\ ~usbh'.busy /\ usbh'.ctrl = "idle"
      /\ ~ep'.has /\ ~ep'.open
  BY <1>3
<1>5. app' = NoMic \/ (app' = app /\ ~app.mic)
  BY DEF Remove
<1>6. app'.pc = "idle" /\ ~app'.mic
  BY <1>1, <1>5 DEF NoMic
<1>7. dev' = [dev EXCEPT !.next = 0]
  BY DEF Remove, NewPeriod
<1>8. Shape'
  <2>1. SamePort
    BY <1>7 DEF SamePort, QueuedInv, Shape
  <2>2. /\ dev'.there = dev.there
        /\ dev' = [there |-> dev'.there, alt |-> dev'.alt, next |-> dev'.next]
    BY <2>1, PortStays
  <2>3. app' \in [pc : Calling \cup Aborting \cup {"idle", "pause"}, mic : BOOLEAN,
                  paused : BOOLEAN, pending : BOOLEAN, opened : BOOLEAN]
    <3>1. CASE app' = NoMic
      BY <3>1 DEF NoMic
    <3>2. CASE app' = app
      BY <3>2 DEF QueuedInv, Shape
    <3> QED
      BY <1>5, <3>1, <3>2
  <2>4. usbh' \in [mounted : BOOLEAN, busy : BOOLEAN, ctrl : CtrlKinds \cup {"idle", "done"},
                   events : Seq(Events)]
    BY <1>3, NothingDue
  <2>5. ep' \in [open : BOOLEAN, has : BOOLEAN, aborted : BOOLEAN] /\ dev.there \in BOOLEAN
    BY <1>3 DEF QueuedInv, Shape
  <2> QED
    BY <2>2, <2>3, <2>4, <2>5 DEF Shape
<1>9. EventsKept' /\ StartKept' /\ TransferKept'
  BY <1>4, <1>6, NothingDue DEF EventsKept, StartKept, Starts, StartKinds, TransferKept,
     Calling
<1>a. PauseKept' /\ MountKept'
  BY <1>4, <1>6 DEF PauseKept, MountKept, Calling, Aborting
<1> QED
  BY <1>8, <1>9, <1>a DEF QueuedInv

LEMMA MountKeeps ==
  ASSUME QueuedInv, Mount
  PROVE  QueuedInv'
<1>1. /\ app.pc = "idle" /\ usbh.events = <<>> /\ ~usbh.mounted /\ dev.there
      /\ usbh' = [usbh EXCEPT !.mounted = TRUE, !.ctrl = "stream"]
      /\ app' = [app EXCEPT !.mic = TRUE]
      /\ ep' = ep /\ dev' = dev
  BY DEF Mount, AppOnly
<1>2. /\ usbh'.events = <<>> /\ usbh'.mounted /\ usbh'.busy = usbh.busy
      /\ app'.pc = "idle" /\ app'.paused = app.paused
  BY <1>1 DEF QueuedInv, Shape
<1>3. ~ep.has /\ ~usbh.busy
  BY <1>1, NothingDue DEF QueuedInv, MountKept, TransferKept, Calling
<1>4. Shape'
  BY <1>1 DEF QueuedInv, Shape, CtrlKinds
<1>5. EventsKept' /\ StartKept' /\ TransferKept'
  BY <1>1, <1>2, <1>3, NothingDue DEF EventsKept, StartKept, TransferKept, Calling
<1>6. PauseKept' /\ MountKept'
  BY <1>1, <1>2, <1>3 DEF PauseKept, MountKept, Calling, Aborting
<1> QED
  BY <1>4, <1>5, <1>6 DEF QueuedInv

-----------------------------------------------------------------------------
(* Last, the call that queues a transfer, and a pause.                        *)

\* A step of a call: nothing of the stack's changes but whether it is busy.
LEMMA CallShape ==
  ASSUME QueuedInv, SamePort, ep' \in [open : BOOLEAN, has : BOOLEAN, aborted : BOOLEAN],
         NEW busy \in BOOLEAN, usbh' = [usbh EXCEPT !.busy = busy],
         app' \in [pc : Calling \cup Aborting \cup {"idle", "pause"}, mic : BOOLEAN,
                   paused : BOOLEAN, pending : BOOLEAN, opened : BOOLEAN]
  PROVE  /\ Shape' /\ EventsKept'
         /\ usbh'.events = usbh.events /\ usbh'.ctrl = usbh.ctrl
         /\ usbh'.mounted = usbh.mounted /\ usbh'.busy = busy
         /\ Starts' <=> Starts
<1>1. /\ dev'.there = dev.there
      /\ dev' = [there |-> dev'.there, alt |-> dev'.alt, next |-> dev'.next]
  BY PortStays
<1>2. /\ usbh'.events = usbh.events /\ usbh'.ctrl = usbh.ctrl
      /\ usbh'.mounted = usbh.mounted /\ usbh'.busy = busy
  BY DEF QueuedInv, Shape
<1>3. Shape'
  BY <1>1 DEF QueuedInv, Shape
<1>4. EventsKept' /\ (Starts' <=> Starts)
  BY <1>1, <1>2 DEF QueuedInv, EventsKept, Starts
<1> QED
  BY <1>2, <1>3, <1>4

LEMMA SameDevice ==
  ASSUME QueuedInv
  PROVE  /\ dev' = dev => SamePort
         /\ NewPeriod => SamePort
         /\ usbh = [usbh EXCEPT !.busy = usbh.busy]
BY DEF QueuedInv, Shape, SamePort, NewPeriod

LEMMA QueueKeeps ==
  ASSUME QueuedInv, Queue
  PROVE  QueuedInv'
<1>1. app.pc = "queue" /\ "queue" \in Calling /\ "queue" \notin Aborting
      /\ ep' = ep /\ dev' = dev
  BY DEF Queue, AppOnly, Calling, Aborting
<1>2. ~ep.has /\ ~IsoDue(usbh.events) /\ ~usbh.busy /\ ~Starts /\ ~app.paused
  BY <1>1 DEF QueuedInv, TransferKept, StartKept, PauseKept
<1>3. CASE usbh.busy \/ ~ep.open
  <2>1. app' = Refused /\ usbh' = usbh
    BY <1>3 DEF Queue
  <2>2. app'.pc = "idle" /\ app'.paused = app.paused /\ ~app'.mic
    BY <2>1 DEF Refused, QueuedInv, Shape
  <2>3. Shape'
    BY <1>1, <2>1 DEF Refused, QueuedInv, Shape
  <2>4. EventsKept' /\ StartKept' /\ TransferKept'
    BY <1>1, <1>2, <2>1, <2>2 DEF QueuedInv, EventsKept, StartKept, Starts, TransferKept,
       Calling
  <2>5. PauseKept' /\ MountKept'
    BY <1>1, <1>2, <2>1, <2>2 DEF QueuedInv, PauseKept, MountKept, Calling, Aborting
  <2> QED
    BY <2>3, <2>4, <2>5 DEF QueuedInv
<1>4. CASE ~(usbh.busy \/ ~ep.open)
  <2>1. PICK pc \in {"reset", "start"} :
          app' = [app EXCEPT !.pending = TRUE, !.pc = pc]
    BY <1>4 DEF Queue
  <2>2. usbh' = [usbh EXCEPT !.busy = TRUE]
    BY <1>4 DEF Queue
  <2>3. app'.pc = pc /\ app'.pending /\ app'.paused = app.paused
    BY <2>1 DEF QueuedInv, Shape
  <2>4. app' \in [pc : Calling \cup Aborting \cup {"idle", "pause"}, mic : BOOLEAN,
                  paused : BOOLEAN, pending : BOOLEAN, opened : BOOLEAN]
    BY <2>1 DEF QueuedInv, Shape, Calling
  <2>5. /\ Shape' /\ EventsKept' /\ usbh'.events = usbh.events
        /\ usbh'.mounted = usbh.mounted /\ (Starts' <=> Starts)
    <3>1. ep' \in [open : BOOLEAN, has : BOOLEAN, aborted : BOOLEAN]
      BY <1>1 DEF QueuedInv, Shape
    <3> QED
      BY <1>1, <2>2, <2>4, <3>1, SameDevice, CallShape
  <2>6. StartKept' /\ TransferKept'
    BY <1>1, <1>2, <2>3, <2>5 DEF StartKept, TransferKept, Calling
  <2>7. PauseKept' /\ MountKept'
    BY <1>1, <1>2, <1>4, <2>3, <2>5 DEF QueuedInv, PauseKept, MountKept, Aborting
  <2> QED
    BY <2>5, <2>6, <2>7 DEF QueuedInv
<1> QED
  BY <1>3, <1>4

\* Between two steps of the call only its own position changes.
LEMMA GoesOn ==
  ASSUME QueuedInv, UNCHANGED <<ep, usbh>>, SamePort, app.pc \in Calling \ {"queue"},
         NEW pc \in Calling \ {"queue"}, app' = [app EXCEPT !.pc = pc]
  PROVE  QueuedInv'
<1>1. /\ app'.pc = pc /\ app'.pending = app.pending /\ app'.paused = app.paused
      /\ app'.mic = app.mic
  BY DEF QueuedInv, Shape
<1>2. app' \in [pc : Calling \cup Aborting \cup {"idle", "pause"}, mic : BOOLEAN,
                paused : BOOLEAN, pending : BOOLEAN, opened : BOOLEAN]
  BY DEF QueuedInv, Shape
<1>3. Shape' /\ EventsKept' /\ (Starts' <=> Starts)
  <2>1. ep' \in [open : BOOLEAN, has : BOOLEAN, aborted : BOOLEAN]
        /\ usbh.busy \in BOOLEAN /\ usbh' = [usbh EXCEPT !.busy = usbh.busy]
    BY DEF QueuedInv, Shape
  <2> QED
    BY <1>2, <2>1, CallShape
<1>4. pc \notin Aborting \cup {"pause"}
  BY DEF Calling, Aborting
<1>5. app.pc \in Calling /\ app.pc # "queue" /\ pc \in Calling /\ pc # "queue"
  OBVIOUS
<1>6. /\ ~ep.has /\ ~IsoDue(usbh.events) /\ app.pending /\ ~Starts /\ ~app.paused
      /\ usbh.mounted
  BY <1>5 DEF QueuedInv, TransferKept, StartKept, PauseKept, MountKept
<1>7. StartKept'
  BY <1>3, <1>6 DEF StartKept
<1>8. TransferKept'
  BY <1>1, <1>3, <1>5, <1>6 DEF TransferKept
<1>9. PauseKept' /\ MountKept'
  BY <1>1, <1>4, <1>6 DEF PauseKept, MountKept
<1> QED
  BY <1>3, <1>7, <1>8, <1>9 DEF QueuedInv

LEMMA ResetKeeps ==
  ASSUME QueuedInv, RingReset \/ RingAttach
  PROVE  QueuedInv'
<1>1. CASE RingReset
  <2>1. app.pc \in Calling \ {"queue"} /\ "attach" \in Calling \ {"queue"}
        /\ app' = [app EXCEPT !.pc = "attach"] /\ UNCHANGED <<ep, usbh>>
    BY <1>1 DEF RingReset, Calling, Goto
  <2> QED
    BY <1>1, <2>1, SameDevice, GoesOn DEF RingReset
<1>2. CASE RingAttach
  <2>1. app.pc \in Calling \ {"queue"} /\ "start" \in Calling \ {"queue"}
        /\ app' = [app EXCEPT !.pc = "start"] /\ UNCHANGED <<ep, usbh, dev>>
    BY <1>2 DEF RingAttach, Calling, Goto, AppOnly
  <2> QED
    BY <2>1, SameDevice, GoesOn
<1> QED
  BY <1>1, <1>2

LEMMA TransferStartKeeps ==
  ASSUME QueuedInv, TransferStart
  PROVE  QueuedInv'
<1>1. app.pc \in Calling \ {"queue"} /\ "publish" \in Calling \ {"queue"}
  BY DEF TransferStart, Calling
<1>2. ~ep.has
  BY <1>1 DEF QueuedInv, TransferKept
<1>3. UNCHANGED <<ep, usbh, dev>> /\ app' = [app EXCEPT !.pc = "publish"]
  BY <1>2 DEF TransferStart, AppOnly, Goto
<1> QED
  BY <1>1, <1>3, SameDevice, GoesOn

\* The store that gives the transfer to the frame handler.
LEMMA PublishKeeps ==
  ASSUME QueuedInv, TransferPublish
  PROVE  QueuedInv'
<1>1. app.pc \in Calling \ {"queue"} /\ UNCHANGED <<usbh, dev>>
  BY DEF TransferPublish, AppOnly, Calling
<1>2. ep' = [ep EXCEPT !.has = TRUE, !.aborted = FALSE] /\ app' = [app EXCEPT !.pc = "idle"]
  BY DEF TransferPublish, Goto
<1>3. /\ ~IsoDue(usbh.events) /\ app.pending /\ ~Starts /\ ~app.paused /\ usbh.mounted
  BY <1>1 DEF QueuedInv, TransferKept, StartKept, PauseKept, MountKept
<1>4. /\ app'.pc = "idle" /\ app'.pending /\ app'.paused = app.paused
      /\ ep'.has
  BY <1>2, <1>3 DEF QueuedInv, Shape
<1>5. Shape' /\ EventsKept'
  BY <1>1, <1>2 DEF QueuedInv, Shape, EventsKept
<1>6. StartKept' /\ TransferKept'
  BY <1>1, <1>3, <1>4 DEF StartKept, Starts, TransferKept, Calling
<1>7. PauseKept' /\ MountKept'
  BY <1>1, <1>3, <1>4 DEF PauseKept, MountKept, Aborting, Calling
<1> QED
  BY <1>5, <1>6, <1>7 DEF QueuedInv

\* A request to pause or to resume: by now nothing of the transfer may be left.
LEMMA RequestKeeps ==
  ASSUME QueuedInv, NEW what \in CtrlKinds, InterfaceSet(what),
         app.mic \/ app.pc = "pause",
         app.paused, app.pc \in {"idle", "pause"}, ep' = ep,
         app' = [app EXCEPT !.pc = "idle"]
  PROVE  QueuedInv'
<1>1. /\ app'.pc = "idle" /\ app'.pending = app.pending /\ app'.paused = app.paused
      /\ app'.mic = app.mic
  BY DEF QueuedInv, Shape
<1>2. app.pc \notin Calling /\ app.pc \notin Aborting /\ "idle" \notin Calling
      /\ "idle" \notin Aborting
  BY DEF Calling, Aborting
<1>3. ~ep.has /\ app.mic /\ usbh.mounted
  BY <1>2 DEF QueuedInv, PauseKept, MountKept
<1>4. SamePort /\ dev'.there = dev.there
  BY SameDevice, PortStays DEF InterfaceSet
<1>5. /\ usbh' \in [mounted : BOOLEAN, busy : BOOLEAN, ctrl : CtrlKinds \cup {"idle", "done"},
                    events : Seq(Events)]
      /\ usbh'.events = usbh.events /\ usbh'.mounted = usbh.mounted
      /\ usbh'.busy = usbh.busy
      /\ usbh'.ctrl = usbh.ctrl \/ (usbh.ctrl = "idle" /\ usbh'.ctrl = what)
  BY DEF InterfaceSet, QueuedInv, Shape
<1>6. Shape'
  BY <1>4, <1>5, PortStays DEF QueuedInv, Shape
<1>7. EventsKept'
  BY <1>4, <1>5 DEF QueuedInv, EventsKept
<1>8. StartKept'
  BY <1>1, <1>2, <1>3 DEF StartKept, Requeues
<1>9. TransferKept' /\ PauseKept' /\ MountKept'
  BY <1>1, <1>2, <1>3, <1>5 DEF QueuedInv, TransferKept, PauseKept, MountKept
<1> QED
  BY <1>6, <1>7, <1>8, <1>9 DEF QueuedInv

LEMMA ToggleKeeps ==
  ASSUME QueuedInv, TogglePause
  PROVE  QueuedInv'
<1>1. CASE app.paused
  <2>1. InterfaceSet("stream") /\ app' = app /\ ep' = ep /\ app.pc = "idle" /\ app.mic
    BY <1>1 DEF TogglePause
  <2>2. app' = [app EXCEPT !.pc = "idle"] /\ "stream" \in CtrlKinds
    BY <2>1 DEF QueuedInv, Shape, CtrlKinds
  <2> QED
    BY <1>1, <2>1, <2>2, RequestKeeps
<1>2. CASE ~app.paused
  <2>1. PICK pc \in {"abort", "pause"} :
          /\ app' = [app EXCEPT !.paused = TRUE, !.pc = pc]
          /\ pc = "pause" => ~app.pending
    BY <1>2 DEF TogglePause
  <2>2. app.pc = "idle" /\ app.mic /\ UNCHANGED <<ep, usbh, dev>>
    BY <1>2 DEF TogglePause
  <2>3. /\ app'.pc = pc /\ app'.paused /\ app'.pending = app.pending /\ app'.mic
    BY <2>1, <2>2 DEF QueuedInv, Shape
  <2>4. pc \notin Calling /\ (pc \notin Aborting => pc = "pause")
    BY DEF Calling, Aborting
  <2>5. Shape'
    BY <2>1, <2>2 DEF QueuedInv, Shape, Aborting
  <2>6. EventsKept' /\ StartKept'
    BY <2>2, <2>3, <2>4 DEF QueuedInv, EventsKept, StartKept, Starts, Requeues
  <2>7. TransferKept' /\ PauseKept' /\ MountKept'
    BY <2>1, <2>2, <2>3, <2>4 DEF QueuedInv, TransferKept, PauseKept, MountKept, Calling
  <2> QED
    BY <2>5, <2>6, <2>7 DEF QueuedInv
<1> QED
  BY <1>1, <1>2

LEMMA AbortKeeps ==
  ASSUME QueuedInv, AbortMark \/ AbortTake
  PROVE  QueuedInv'
<1>1. CASE AbortMark
  <2>1. /\ app.pc = "abort" /\ UNCHANGED <<usbh, dev>>
        /\ ep' = [ep EXCEPT !.aborted = ep.has]
        /\ app' = [app EXCEPT !.pc = "abort_take"]
    BY <1>1 DEF AbortMark, AppOnly, Goto
  <2>2. /\ app'.pc = "abort_take" /\ app'.paused = app.paused /\ app'.pending = app.pending
        /\ app'.mic = app.mic /\ ep'.has = ep.has /\ ep'.open = ep.open
    BY <2>1 DEF QueuedInv, Shape
  <2>3. Shape'
    BY <2>1 DEF QueuedInv, Shape, Aborting
  <2>4. EventsKept' /\ StartKept'
    BY <2>1, <2>2 DEF QueuedInv, EventsKept, StartKept, Starts, Requeues, Calling
  <2>5. TransferKept' /\ PauseKept' /\ MountKept'
    BY <2>1, <2>2 DEF QueuedInv, TransferKept, PauseKept, MountKept, Calling, Aborting
  <2> QED
    BY <2>3, <2>4, <2>5 DEF QueuedInv
<1>2. CASE AbortTake
  <2>1. /\ app.pc = "abort_take" /\ dev' = dev
        /\ ep' = [ep EXCEPT !.has = FALSE, !.aborted = FALSE]
        /\ usbh' = [usbh EXCEPT !.busy = FALSE]
        /\ app' = [app EXCEPT !.pending = FALSE, !.pc = "pause"]
    BY <1>2 DEF AbortTake, AppOnly
  <2>2. /\ app'.pc = "pause" /\ app'.paused = app.paused /\ app'.mic = app.mic
        /\ ~ep'.has /\ ep'.open = ep.open
    BY <2>1 DEF QueuedInv, Shape
  <2>3. /\ Shape' /\ EventsKept' /\ usbh'.events = usbh.events /\ usbh'.ctrl = usbh.ctrl
        /\ usbh'.mounted = usbh.mounted /\ usbh'.busy = FALSE /\ (Starts' <=> Starts)
    <3>1. ep' \in [open : BOOLEAN, has : BOOLEAN, aborted : BOOLEAN]
      BY <2>1 DEF QueuedInv, Shape
    <3>2. app' \in [pc : Calling \cup Aborting \cup {"idle", "pause"}, mic : BOOLEAN,
                    paused : BOOLEAN, pending : BOOLEAN, opened : BOOLEAN]
      BY <2>1 DEF QueuedInv, Shape
    <3> QED
      BY <2>1, <3>1, <3>2, SameDevice, CallShape
  <2>4. StartKept'
    BY <2>2, <2>3 DEF QueuedInv, StartKept, Requeues, Calling
  <2>5. TransferKept' /\ PauseKept' /\ MountKept'
    BY <2>1, <2>2, <2>3 DEF QueuedInv, TransferKept, PauseKept, MountKept, Calling, Aborting
  <2> QED
    BY <2>3, <2>4, <2>5 DEF QueuedInv
<1> QED
  BY <1>1, <1>2

LEMMA PauseKeeps ==
  ASSUME QueuedInv, Pause
  PROVE  QueuedInv'
<1>1. "pause" \in CtrlKinds
  BY DEF CtrlKinds
<1>2. app.paused
  BY DEF QueuedInv, PauseKept, Pause
<1> QED
  BY <1>1, <1>2, RequestKeeps DEF Pause, Goto

-----------------------------------------------------------------------------
(* The theorem.                                                               *)

LEMMA QueuedInit == Init => QueuedInv
<1> SUFFICES ASSUME Init
             PROVE  QueuedInv
  OBVIOUS
<1>1. usbh.events = <<>> /\ ~usbh.busy /\ usbh.ctrl = "idle" /\ ~ep.has /\ ~ep.open
      /\ app.pc = "idle" /\ ~app.mic /\ ~app.paused
  BY DEF Init, UsbhIdle, EpClosed, NoMic
<1>2. Shape
  BY NothingDue DEF Init, UsbhIdle, EpClosed, NoMic, Shape
<1>3. EventsKept /\ StartKept /\ TransferKept
  BY <1>1, NothingDue DEF EventsKept, StartKept, Starts, StartKinds, TransferKept, Calling
<1>4. PauseKept /\ MountKept
  BY <1>1 DEF PauseKept, MountKept, Calling, Aborting
<1> QED
  BY <1>2, <1>3, <1>4 DEF QueuedInv

LEMMA QueuedNext == QueuedInv /\ [Next]_vars => QueuedInv'
<1> SUFFICES ASSUME QueuedInv, [Next]_vars
             PROVE  QueuedInv'
  OBVIOUS
<1>1. CASE Hang
  <2>1. UNCHANGED <<ep, usbh, app>> /\ SamePort
    BY <1>1 DEF Hang, World, SamePort, QueuedInv, Shape
  <2> QED
    BY <2>1, RingApart
<1>2. CASE SetIsoRing \/ UNCHANGED vars
  <2>1. UNCHANGED <<ep, usbh, app, dev>>
    BY <1>2 DEF SetIsoRing, AppOnly, vars
  <2> QED
    BY <2>1, SameDevice, RingApart
<1>3. CASE AppStep
  BY <1>3, CompleteKeeps, InterfaceKeeps, RateKeeps, PauseDoneKeeps, RemoveKeeps, QueueKeeps,
     ResetKeeps, TransferStartKeeps, PublishKeeps, AbortKeeps, PauseKeeps DEF AppStep
<1> QED
  BY <1>1, <1>2, <1>3, FrameKeeps, PlugKeeps, UnplugKeeps, ControlKeeps, MountKeeps,
     ToggleKeeps DEF Next

\* Whatever the frame handler, the device, the stack's events and the requests to pause
\* and resume do in between, the application queues a transfer only when the one before
\* is over for it, for the stack and for the library (iso_complete_cb, abort_transfer,
\* start_streaming and queue_iso_transfer of the microphone example).
THEOREM NeverQueuesTwice == Spec => []NeverQueuedTwice
<1>1. QueuedInv => NeverQueuedTwice
  BY DEF QueuedInv, TransferKept, NeverQueuedTwice, Calling
<1> QED
  BY <1>1, QueuedInit, QueuedNext, PTL DEF Spec

-----------------------------------------------------------------------------
(* Numbers: the least of a set, induction, and places in a ring.              *)

LEMMA LeastNatural ==
  ASSUME NEW S \in SUBSET Nat, S # {}
  PROVE  \E m \in S : \A k \in S : m <= k
<1> DEFINE R == OpToRel(<, Nat)
<1>1. IsWellFoundedOn(R, Nat)
  BY NatLessThanWellFounded
<1>2. \A x, y \in Nat : <<x, y>> \in R <=> x < y
  BY DEF OpToRel
<1> HIDE DEF R
<1>3. PICK m \in S : \A k \in S : ~(<<k, m>> \in R)
  BY <1>1, WFMin
<1>4. \A k \in S : ~(k < m)
  BY <1>2, <1>3
<1> QED
  BY <1>4

\* Induction up to n over a set of numbers.
LEMMA Ascend ==
  ASSUME NEW n \in Nat, NEW T, 0 \in T, \A k \in 0 .. n - 1 : k \in T => k + 1 \in T
  PROVE  0 .. n \subseteq T
<1> DEFINE S == {k \in 0 .. n : k \notin T}
<1> SUFFICES ASSUME S # {}
             PROVE  FALSE
  OBVIOUS
<1>1. PICK m \in S : \A k \in S : m <= k
  <2>1. S \in SUBSET Nat
    OBVIOUS
  <2> HIDE DEF S
  <2> QED
    BY <2>1, LeastNatural
<1>2. m # 0 /\ m - 1 \in 0 .. n - 1 /\ m - 1 \notin S
  BY <1>1
<1>3. m - 1 \in T
  BY <1>2
<1>4. (m - 1) + 1 \in T
  BY <1>2, <1>3
<1> QED
  BY <1>1, <1>4

\* A place one turn away is taken once.
LEMMA OneTurn ==
  ASSUME NEW N \in Nat, N > 0, NEW x \in Int
  PROVE  /\ x \in 0 .. N - 1 => x % N = x
         /\ x \in N .. 2 * N - 1 => x % N = x - N
         /\ x \in -N .. -1 => x % N = x + N
OBVIOUS

LEMMA SizeNat == Size \in Nat /\ Size > 4
BY IsoAssumption

\* A function on 1 .. n is a sequence of length n.
LEMMA AsSeq ==
  ASSUME NEW S, NEW n \in Nat, NEW f \in [1 .. n -> S]
  PROVE  f \in Seq(S) /\ Len(f) = n
OBVIOUS

\* A sequence whose parts are two others is their concatenation.
LEMMA Joined ==
  ASSUME NEW S, NEW a \in Seq(S), NEW b \in Seq(S), NEW c \in Seq(S),
         Len(c) = Len(a) + Len(b),
         \A i \in 1 .. Len(a) : c[i] = a[i],
         \A i \in 1 .. Len(b) : c[Len(a) + i] = b[i]
  PROVE  c = a \o b
<1>1. /\ a \o b \in Seq(S) /\ Len(a \o b) = Len(a) + Len(b)
      /\ \A i \in 1 .. Len(a) + Len(b) :
           (a \o b)[i] = IF i <= Len(a) THEN a[i] ELSE b[i - Len(a)]
  BY ConcatProperties
<1>2. Len(a) \in Nat /\ Len(b) \in Nat
  BY LenProperties
<1>3. ASSUME NEW i \in 1 .. Len(c)
      PROVE  c[i] = (a \o b)[i]
  <2>1. CASE i <= Len(a)
    <3>1. i \in 1 .. Len(a)
      BY <1>2, <2>1
    <3> QED
      BY <1>1, <1>2, <2>1, <3>1
  <2>2. CASE ~(i <= Len(a))
    <3>1. i - Len(a) \in 1 .. Len(b) /\ Len(a) + (i - Len(a)) = i
      BY <1>2, <2>2
    <3> QED
      BY <1>1, <1>2, <2>2, <3>1
  <2> QED
    BY <2>1, <2>2
<1> QED
  BY <1>1, <1>3, SeqEqual

\* Places in a ring, reached from a place inside it.
LEMMA PlaceAfter ==
  ASSUME NEW N \in Nat, N > 0, NEW a \in -N .. 2 * N - 1, NEW k \in 0 .. N - 1,
         NEW p \in 0 .. 2 * N - 1, a + k = p \/ a + k = p - N \/ a + k = p + N
  PROVE  a % N \in 0 .. N - 1 /\ ((a % N) + k) % N = p % N
<1>1. a % N \in 0 .. N - 1 /\ (a % N = a \/ a % N = a - N \/ a % N = a + N)
  <2>1. a \in -N .. -1 \/ a \in 0 .. N - 1 \/ a \in N .. 2 * N - 1
    OBVIOUS
  <2> QED
    BY <2>1, OneTurn
<1> DEFINE b == a % N
<1> HIDE DEF b
<1>2. b \in 0 .. N - 1 /\ b + k \in 0 .. 2 * N - 1
      /\ (b + k = p \/ b + k = p - N \/ b + k = p + N)
  BY <1>1 DEF b
<1>3. (b + k) % N = p % N
  <2>1. b + k \in 0 .. N - 1 \/ b + k \in N .. 2 * N - 1
    BY <1>2
  <2>2. p \in 0 .. N - 1 \/ p \in N .. 2 * N - 1
    OBVIOUS
  <2> QED
    BY <1>2, <2>1, <2>2, OneTurn
<1> QED
  BY <1>1, <1>3 DEF b

\* After c bytes from h on there is room for n more; and after n of them the rest.
LEMMA RoomPlaces ==
  ASSUME NEW N \in Nat, N > 0, NEW h \in 0 .. N - 1, NEW c \in 0 .. N, NEW n \in Nat, c + n <= N
  PROVE  /\ (h + c) % N \in 0 .. N - 1
         /\ \A i \in 1 .. c : \E k \in 0 .. N - 1 :
              k >= n /\ (((h + c) % N) + k) % N = (h + i - 1) % N
         /\ \A j \in 1 .. n : \E k \in 0 .. N - 1 :
              k < n /\ k + 1 = j /\ (((h + c) % N) + k) % N = (h + (c + j) - 1) % N
<1>1. h + c \in -N .. 2 * N - 1
  OBVIOUS
<1>2. (h + c) % N \in 0 .. N - 1
  <2>1. 0 \in 0 .. N - 1
    OBVIOUS
  <2>2. h + c \in 0 .. 2 * N - 1 /\ (h + c) + 0 = h + c
    OBVIOUS
  <2> QED
    BY <1>1, <2>1, <2>2, PlaceAfter
<1>3. ASSUME NEW i \in 1 .. c
      PROVE  \E k \in 0 .. N - 1 : k >= n /\ (((h + c) % N) + k) % N = (h + i - 1) % N
  <2> DEFINE k == N + i - 1 - c
             p == h + i - 1
  <2>1. k \in 0 .. N - 1 /\ k >= n /\ p \in 0 .. 2 * N - 1 /\ (h + c) + k = p + N
    OBVIOUS
  <2> HIDE DEF k, p
  <2>2. (((h + c) % N) + k) % N = p % N
    <3>1. (h + c) + k = p \/ (h + c) + k = p - N \/ (h + c) + k = p + N
      BY <2>1
    <3> QED
      BY <1>1, <2>1, <3>1, PlaceAfter, Zenon
  <2> QED
    BY <2>1, <2>2 DEF p
<1>4. ASSUME NEW j \in 1 .. n
      PROVE  \E k \in 0 .. N - 1 :
               k < n /\ k + 1 = j /\ (((h + c) % N) + k) % N = (h + (c + j) - 1) % N
  <2> DEFINE k == j - 1
             p == h + (c + j) - 1
  <2>1. k \in 0 .. N - 1 /\ k < n /\ k + 1 = j /\ p \in 0 .. 2 * N - 1 /\ (h + c) + k = p
    OBVIOUS
  <2> HIDE DEF k, p
  <2>2. (((h + c) % N) + k) % N = p % N
    <3>1. (h + c) + k = p \/ (h + c) + k = p - N \/ (h + c) + k = p + N
      BY <2>1
    <3> QED
      BY <1>1, <2>1, <3>1, PlaceAfter, Zenon
  <2> QED
    BY <2>1, <2>2 DEF p
<1> QED
  BY <1>2, <1>3, <1>4

LEMMA RestPlaces ==
  ASSUME NEW N \in Nat, N > 0, NEW h \in 0 .. N - 1, NEW c \in 0 .. N, NEW n \in 1 .. c
  PROVE  /\ (h + n) % N \in 0 .. N - 1
         /\ \A i \in 1 .. c - n : \E k \in 0 .. N - 1 :
              /\ k >= n /\ (h + (n + i) - 1) % N = (h + k) % N
              /\ (((h + n) % N) + i - 1) % N = (h + k) % N
<1>1. h + n \in -N .. 2 * N - 1
  OBVIOUS
<1>2. (h + n) % N \in 0 .. N - 1
  <2>1. 0 \in 0 .. N - 1
    OBVIOUS
  <2>2. h + n \in 0 .. 2 * N - 1 /\ (h + n) + 0 = h + n
    OBVIOUS
  <2> QED
    BY <1>1, <2>1, <2>2, PlaceAfter
<1>3. ASSUME NEW i \in 1 .. c - n
      PROVE  \E k \in 0 .. N - 1 :
              /\ k >= n /\ (h + (n + i) - 1) % N = (h + k) % N
              /\ (((h + n) % N) + i - 1) % N = (h + k) % N
  <2> DEFINE k == n + i - 1
             p == h + k
             m == i - 1
  <2>1. k \in 0 .. N - 1 /\ k >= n /\ p \in 0 .. 2 * N - 1 /\ (h + n) + m = p /\ m \in 0 .. N - 1
        /\ h + (n + i) - 1 = p
    OBVIOUS
  <2>2. ((h + n) % N) + i - 1 = ((h + n) % N) + m
    BY <1>2
  <2> HIDE DEF p, m
  <2>3. (((h + n) % N) + m) % N = p % N
    <3> DEFINE a == h + n
    <3>1. a \in -N .. 2 * N - 1 /\ a + m = p
      BY <1>1, <2>1
    <3> HIDE DEF a
    <3>2. ((a % N) + m) % N = p % N
      BY <2>1, <3>1, PlaceAfter
    <3> QED
      BY <3>2 DEF a
  <2> HIDE DEF k
  <2> QED
    BY <2>1, <2>2, <2>3 DEF p
<1> QED
  BY <1>2, <1>3

LEMMA FrontPlaces ==
  ASSUME NEW N \in Nat, N > 4, NEW h \in 0 .. N - 1, NEW c \in 0 .. N - 2
  PROVE  /\ (h - 2) % N \in 0 .. N - 1
         /\ \A i \in 1 .. c : \E k \in 0 .. N - 1 :
              /\ k >= 2 /\ (((h - 2) % N) + (2 + i) - 1) % N = (h + i - 1) % N
              /\ (((h - 2) % N) + k) % N = (h + i - 1) % N
         /\ \A i \in 1 .. 2 : \E k \in 0 .. N - 1 :
              k < 2 /\ k + 1 = i /\ (((h - 2) % N) + k) % N = (((h - 2) % N) + i - 1) % N
<1>1. h - 2 \in -N .. 2 * N - 1
  OBVIOUS
<1>2. (h - 2) % N \in 0 .. N - 1
  <2>1. 2 \in 0 .. N - 1
    OBVIOUS
  <2>2. h \in 0 .. 2 * N - 1 /\ (h - 2) + 2 = h
    OBVIOUS
  <2> QED
    BY <1>1, <2>1, <2>2, PlaceAfter
<1>3. ASSUME NEW i \in 1 .. c
      PROVE  \E k \in 0 .. N - 1 :
              /\ k >= 2 /\ (((h - 2) % N) + (2 + i) - 1) % N = (h + i - 1) % N
              /\ (((h - 2) % N) + k) % N = (h + i - 1) % N
  <2> DEFINE k == i + 1
             p == h + i - 1
  <2>1. k \in 0 .. N - 1 /\ k >= 2 /\ p \in 0 .. 2 * N - 1 /\ (h - 2) + k = p
    OBVIOUS
  <2>2. ((h - 2) % N) + (2 + i) - 1 = ((h - 2) % N) + k
    BY <1>2
  <2> HIDE DEF k, p
  <2>3. N > 0
    OBVIOUS
  <2>4. (((h - 2) % N) + k) % N = p % N
    <3> DEFINE a == h - 2
    <3>1. a \in -N .. 2 * N - 1 /\ a + k = p
      BY <1>1, <2>1
    <3> HIDE DEF a
    <3>2. ((a % N) + k) % N = p % N
      BY <2>1, <2>3, <3>1, PlaceAfter
    <3> QED
      BY <3>2 DEF a
  <2> QED
    BY <2>1, <2>2, <2>4 DEF p
<1>4. ASSUME NEW i \in 1 .. 2
      PROVE  \E k \in 0 .. N - 1 :
              k < 2 /\ k + 1 = i /\ (((h - 2) % N) + k) % N = (((h - 2) % N) + i - 1) % N
  <2>1. i - 1 \in 0 .. N - 1 /\ i - 1 < 2 /\ (i - 1) + 1 = i
    OBVIOUS
  <2>2. ((h - 2) % N) + i - 1 = ((h - 2) % N) + (i - 1)
    BY <1>2
  <2> QED
    BY <2>1, <2>2
<1> QED
  BY <1>2, <1>3, <1>4

-----------------------------------------------------------------------------
(* The ring as a sequence of bytes, and its helpers on that sequence.         *)

Bytes == 0 .. 255
Rings == [mem : [0 .. Size - 1 -> Bytes], head : 0 .. Size - 1, count : 0 .. Size,
          lost : BOOLEAN, silent : Nat]
Contents(r) == Front(r, r.count)

LEMMA ContentsType ==
  ASSUME NEW r \in Rings
  PROVE  /\ Contents(r) \in Seq(Bytes) /\ Len(Contents(r)) = r.count
         /\ \A i \in 1 .. r.count : Contents(r)[i] = r.mem[(r.head + i - 1) % Size]
<1>1. Size \in Nat /\ Size > 4
  BY SizeNat
<1>2. r.mem \in [0 .. Size - 1 -> Bytes] /\ r.head \in 0 .. Size - 1 /\ r.count \in 0 .. Size
  BY DEF Rings
<1>3. ASSUME NEW i \in 1 .. r.count
      PROVE  r.mem[(r.head + i - 1) % Size] \in Bytes
  <2>1. r.head + i - 1 \in 0 .. Size - 1 \/ r.head + i - 1 \in Size .. 2 * Size - 1
    BY <1>1, <1>2
  <2>2. (r.head + i - 1) % Size \in 0 .. Size - 1
    BY <1>1, <1>2, <2>1, OneTurn
  <2> QED
    BY <1>2, <2>2
<1>4. Contents(r) = [i \in 1 .. r.count |-> r.mem[(r.head + i - 1) % Size]]
  BY DEF Contents, Front
<1> HIDE DEF Contents
<1>5. Contents(r) \in [1 .. r.count -> Bytes]
  BY <1>3, <1>4
<1>6. r.count \in Nat
  BY <1>1, <1>2
<1> QED
  BY <1>4, <1>5, <1>6, AsSeq

\* Bytes stored from a place on are found there, and nowhere else.
LEMMA StoredType ==
  ASSUME NEW mem \in [0 .. Size - 1 -> Bytes], NEW at \in 0 .. Size - 1,
         NEW bytes \in Seq(Bytes), Len(bytes) <= Size
  PROVE  /\ Stored(mem, at, bytes) \in [0 .. Size - 1 -> Bytes]
         /\ \A k \in 0 .. Size - 1 :
              Stored(mem, at, bytes)[(at + k) % Size]
                = IF k < Len(bytes) THEN bytes[k + 1] ELSE mem[(at + k) % Size]
<1>1. Size \in Nat /\ Size > 4 /\ Len(bytes) \in Nat
  BY SizeNat
<1>2. ASSUME NEW i \in 0 .. Size - 1
      PROVE  (i - at) % Size \in 0 .. Size - 1
  <2>1. i - at \in 0 .. Size - 1 \/ i - at \in -Size .. -1
    BY <1>1
  <2> QED
    BY <1>1, <2>1, OneTurn
<1>3. ASSUME NEW i \in 0 .. Size - 1
      PROVE  (IF (i - at) % Size < Len(bytes) THEN bytes[((i - at) % Size) + 1]
                                                 ELSE mem[i]) \in Bytes
  <2>1. (i - at) % Size \in 0 .. Size - 1
    BY <1>2
  <2>2. CASE (i - at) % Size < Len(bytes)
    <3>1. ((i - at) % Size) + 1 \in 1 .. Len(bytes)
      BY <1>1, <2>1, <2>2
    <3> QED
      BY <2>2, <3>1
  <2>3. CASE ~((i - at) % Size < Len(bytes))
    BY <2>3
  <2> QED
    BY <2>2, <2>3
<1>4. Stored(mem, at, bytes) = [i \in 0 .. Size - 1 |->
        IF (i - at) % Size < Len(bytes) THEN bytes[((i - at) % Size) + 1] ELSE mem[i]]
  BY DEF Stored
<1>5. ASSUME NEW k \in 0 .. Size - 1
      PROVE  Stored(mem, at, bytes)[(at + k) % Size]
               = IF k < Len(bytes) THEN bytes[k + 1] ELSE mem[(at + k) % Size]
  <2> DEFINE i == (at + k) % Size
  <2>1. at + k \in 0 .. Size - 1 \/ at + k \in Size .. 2 * Size - 1
    BY <1>1
  <2>2. i \in 0 .. Size - 1 /\ (i = at + k \/ i = at + k - Size)
    BY <1>1, <2>1, OneTurn
  <2> HIDE DEF i
  <2>3. i - at \in 0 .. Size - 1 \/ i - at \in -Size .. -1
    BY <1>1, <2>2
  <2>4. (i - at) % Size = k
    BY <1>1, <2>2, <2>3, OneTurn
  <2>5. Stored(mem, at, bytes)[i] = IF k < Len(bytes) THEN bytes[k + 1] ELSE mem[i]
    BY <1>4, <2>2, <2>4
  <2> QED
    BY <2>5 DEF i
<1> QED
  BY <1>3, <1>4, <1>5

\* The fields of a ring.
LEMMA RingFields ==
  ASSUME NEW r \in Rings
  PROVE  \E mem \in [0 .. Size - 1 -> Bytes], head \in 0 .. Size - 1, count \in 0 .. Size,
            lost \in BOOLEAN, silent \in Nat :
           r = [mem |-> mem, head |-> head, count |-> count, lost |-> lost, silent |-> silent]
BY DEF Rings

LEMMA RingOfFields ==
  ASSUME NEW mem \in [0 .. Size - 1 -> Bytes], NEW head \in 0 .. Size - 1,
         NEW count \in 0 .. Size, NEW lost \in BOOLEAN, NEW silent \in Nat
  PROVE  [mem |-> mem, head |-> head, count |-> count, lost |-> lost, silent |-> silent]
           \in Rings
BY DEF Rings

\* copy_in appends, copy_out takes from the front, PutMarker puts a marker there.
LEMMA CopyIn ==
  ASSUME NEW r \in Rings, NEW bytes \in Seq(Bytes), r.count + Len(bytes) <= Size
  PROVE  /\ copy_in(r, bytes) \in Rings
         /\ copy_in(r, bytes).count = r.count + Len(bytes)
         /\ copy_in(r, bytes).lost = r.lost /\ copy_in(r, bytes).silent = r.silent
         /\ Contents(copy_in(r, bytes)) = Contents(r) \o bytes
<1>0. PICK m \in [0 .. Size - 1 -> Bytes], h \in 0 .. Size - 1, c \in 0 .. Size,
           l \in BOOLEAN, q \in Nat :
        r = [mem |-> m, head |-> h, count |-> c, lost |-> l, silent |-> q]
  BY RingFields
<1> DEFINE n == Len(bytes)
           at == (h + c) % Size
           s == copy_in(r, bytes)
           mem == Stored(m, at, bytes)
<1>1. Size \in Nat /\ Size > 4 /\ Size > 0 /\ n \in Nat
  BY SizeNat
<1>2. c + n <= Size /\ r.count = c /\ r.head = h /\ r.mem = m /\ r.lost = l /\ r.silent = q
  BY <1>0
<1>3. s = [mem |-> mem, head |-> h, count |-> c + n, lost |-> l, silent |-> q]
  <2>1. s = [r EXCEPT !.mem = Stored(r.mem, (r.head + r.count) % Size, bytes),
                      !.count = r.count + Len(bytes)]
    BY DEF copy_in
  <2>2. mem = Stored(r.mem, (r.head + r.count) % Size, bytes)
    BY <1>2
  <2> HIDE DEF mem, s, n
  <2> QED
    BY <1>0, <1>2, <2>1, <2>2 DEF n
<1> HIDE DEF at, mem, s, n
<1>4. /\ at \in 0 .. Size - 1
      /\ \A i \in 1 .. c : \E k \in 0 .. Size - 1 :
           k >= n /\ (at + k) % Size = (h + i - 1) % Size
      /\ \A j \in 1 .. n : \E k \in 0 .. Size - 1 :
           k < n /\ k + 1 = j /\ (at + k) % Size = (h + (c + j) - 1) % Size
  <2>1. c + n <= Size
    BY <1>2
  <2>2. \A i \in 1 .. c : \E k \in 0 .. Size - 1 :
           k >= n /\ (((h + c) % Size) + k) % Size = (h + i - 1) % Size
    BY <1>1, <2>1, RoomPlaces
  <2>4. (h + c) % Size \in 0 .. Size - 1
    BY <1>1, <2>1, RoomPlaces
  <2>3. \A j \in 1 .. n : \E k \in 0 .. Size - 1 :
           k < n /\ k + 1 = j /\ (((h + c) % Size) + k) % Size = (h + (c + j) - 1) % Size
    BY <1>1, <2>1, RoomPlaces
  <2> QED
    BY <2>2, <2>3, <2>4 DEF at
<1>5. /\ mem \in [0 .. Size - 1 -> Bytes]
      /\ \A k \in 0 .. Size - 1 :
           mem[(at + k) % Size] = IF k < n THEN bytes[k + 1] ELSE m[(at + k) % Size]
  <2>1. Len(bytes) <= Size
    BY <1>1, <1>2 DEF n
  <2>2. at \in 0 .. Size - 1
    BY <1>4
  <2> QED
    BY <2>1, <2>2, StoredType DEF mem, n
<1>6. /\ s \in Rings /\ s.count = c + n /\ s.head = h /\ s.mem = mem
      /\ s.lost = l /\ s.silent = q
  <2>1. c + n \in 0 .. Size
    BY <1>1, <1>2
  <2>2. s \in Rings
    BY <1>3, <1>5, <2>1, RingOfFields
  <2> QED
    BY <1>3, <2>2
<1> DEFINE d == Contents(r)
           e == Contents(s)
<1>7. d \in Seq(Bytes) /\ Len(d) = c /\ \A i \in 1 .. c : d[i] = m[(h + i - 1) % Size]
  BY <1>2, ContentsType, Zenon
<1>8. e \in Seq(Bytes) /\ Len(e) = c + n /\ \A i \in 1 .. c + n : e[i] = mem[(h + i - 1) % Size]
  BY <1>6, ContentsType, Zenon
<1> HIDE DEF d, e
<1>9. ASSUME NEW i \in 1 .. c
      PROVE  e[i] = d[i]
  <2>1. PICK k \in 0 .. Size - 1 : k >= n /\ (at + k) % Size = (h + i - 1) % Size
    BY <1>4
  <2>2. mem[(at + k) % Size] = m[(at + k) % Size]
    BY <1>1, <1>5, <2>1
  <2>3. i \in 1 .. c + n
    BY <1>1
  <2> QED
    BY <1>7, <1>8, <2>1, <2>2, <2>3, Zenon
<1>10. ASSUME NEW j \in 1 .. n
       PROVE  e[c + j] = bytes[j]
  <2>1. PICK k \in 0 .. Size - 1 :
          k < n /\ k + 1 = j /\ (at + k) % Size = (h + (c + j) - 1) % Size
    BY <1>4
  <2>2. mem[(at + k) % Size] = bytes[k + 1]
    BY <1>5, <2>1
  <2>3. c + j \in 1 .. c + n
    BY <1>1
  <2> QED
    BY <1>8, <2>1, <2>2, <2>3, Zenon
<1>11. e = d \o bytes
  BY <1>7, <1>8, <1>9, <1>10, Joined DEF n
<1> QED
  BY <1>2, <1>6, <1>11 DEF s, n, d, e

LEMMA CopyOut ==
  ASSUME NEW r \in Rings, NEW n \in 1 .. r.count
  PROVE  /\ copy_out(r, n) \in Rings
         /\ copy_out(r, n).count = r.count - n
         /\ copy_out(r, n).lost = r.lost /\ copy_out(r, n).silent = r.silent
         /\ Front(r, n) \in Seq(Bytes) /\ Len(Front(r, n)) = n
         /\ Contents(r) = Front(r, n) \o Contents(copy_out(r, n))
<1>0. PICK m \in [0 .. Size - 1 -> Bytes], h \in 0 .. Size - 1, c \in 0 .. Size,
           l \in BOOLEAN, q \in Nat :
        r = [mem |-> m, head |-> h, count |-> c, lost |-> l, silent |-> q]
  BY RingFields
<1> DEFINE head == (h + n) % Size
           zeros == [i \in 1 .. n |-> 0]
           s == copy_out(r, n)
           mem == Stored(m, h, zeros)
           f == Front(r, n)
<1>1. Size \in Nat /\ Size > 4 /\ Size > 0 /\ n \in Nat /\ n \in 1 .. c /\ n <= Size
  BY <1>0, SizeNat
<1>2. r.count = c /\ r.head = h /\ r.mem = m /\ r.lost = l /\ r.silent = q
  BY <1>0
<1>3. s = [mem |-> mem, head |-> head, count |-> c - n, lost |-> l, silent |-> q]
  <2>1. s = [r EXCEPT !.mem = Stored(r.mem, r.head, zeros), !.head = (r.head + n) % Size,
                      !.count = r.count - n]
    BY DEF copy_out
  <2>2. mem = Stored(r.mem, r.head, zeros) /\ head = (r.head + n) % Size
    BY <1>2
  <2> HIDE DEF mem, s, head, zeros
  <2> QED
    BY <1>0, <1>2, <2>1, <2>2
<1>a. zeros \in Seq(Bytes) /\ Len(zeros) = n
  <2>1. zeros \in [1 .. n -> Bytes]
    BY DEF Bytes
  <2> HIDE DEF zeros
  <2> QED
    BY <1>1, <2>1, AsSeq
<1>b. f = [i \in 1 .. n |-> m[(h + i - 1) % Size]]
  BY <1>2 DEF Front
<1> HIDE DEF head, mem, s, zeros, f
<1>4. /\ head \in 0 .. Size - 1
      /\ \A i \in 1 .. c - n : \E k \in 0 .. Size - 1 :
           /\ k >= n /\ (h + (n + i) - 1) % Size = (h + k) % Size
           /\ (head + i - 1) % Size = (h + k) % Size
  BY <1>1, RestPlaces, Zenon DEF head
<1>5. /\ mem \in [0 .. Size - 1 -> Bytes]
      /\ \A k \in 0 .. Size - 1 : k >= n => mem[(h + k) % Size] = m[(h + k) % Size]
  <2>1. /\ mem \in [0 .. Size - 1 -> Bytes]
        /\ \A k \in 0 .. Size - 1 :
             mem[(h + k) % Size] = IF k < Len(zeros) THEN zeros[k + 1] ELSE m[(h + k) % Size]
    BY <1>1, <1>a, StoredType, Zenon DEF mem
  <2>2. ASSUME NEW k \in 0 .. Size - 1, k >= n
        PROVE  ~(k < Len(zeros))
    BY <1>1, <1>a, <2>2
  <2> QED
    BY <2>1, <2>2, Zenon
<1>6. /\ s \in Rings /\ s.count = c - n /\ s.head = head /\ s.mem = mem
      /\ s.lost = l /\ s.silent = q
  <2>1. c - n \in 0 .. Size
    BY <1>1
  <2>2. s \in Rings
    BY <1>3, <1>4, <1>5, <2>1, RingOfFields
  <2> QED
    BY <1>3, <2>2
<1> DEFINE d == Contents(r)
           e == Contents(s)
<1>7. d \in Seq(Bytes) /\ Len(d) = c /\ \A i \in 1 .. c : d[i] = m[(h + i - 1) % Size]
  BY <1>2, ContentsType, Zenon
<1>8. e \in Seq(Bytes) /\ Len(e) = c - n
      /\ \A i \in 1 .. c - n : e[i] = mem[(head + i - 1) % Size]
  BY <1>6, ContentsType, Zenon
<1> HIDE DEF d, e
<1>9. f \in Seq(Bytes) /\ Len(f) = n /\ \A i \in 1 .. n : d[i] = f[i]
  <2>1. ASSUME NEW i \in 1 .. n
        PROVE  i \in 1 .. c /\ d[i] \in Bytes
    <3>1. i \in 1 .. Len(d)
      BY <1>1, <1>7
    <3> QED
      BY <1>7, <3>1, ElementOfSeq
  <2>2. \A i \in 1 .. n : f[i] = d[i]
    BY <1>7, <1>b, <2>1
  <2>3. f \in [1 .. n -> Bytes]
    BY <1>b, <2>1, <2>2
  <2> QED
    BY <1>1, <2>2, <2>3, AsSeq
<1>10. ASSUME NEW i \in 1 .. c - n
      PROVE  d[n + i] = e[i]
  <2>1. PICK k \in 0 .. Size - 1 :
           /\ k >= n /\ (h + (n + i) - 1) % Size = (h + k) % Size
           /\ (head + i - 1) % Size = (h + k) % Size
    BY <1>4
  <2>2. mem[(h + k) % Size] = m[(h + k) % Size]
    BY <1>5, <2>1
  <2>3. n + i \in 1 .. c
    BY <1>1
  <2> QED
    BY <1>7, <1>8, <2>1, <2>2, <2>3, Zenon
<1>11. d = f \o e
  <2>1. Len(d) = Len(f) + Len(e)
    BY <1>1, <1>7, <1>8, <1>9
  <2>2. \A i \in 1 .. Len(f) : d[i] = f[i]
    BY <1>9
  <2>3. \A i \in 1 .. Len(e) : d[Len(f) + i] = e[i]
    BY <1>8, <1>9, <1>10
  <2> QED
    BY <1>7, <1>8, <1>9, <2>1, <2>2, <2>3, Joined, Zenon
<1> QED
  BY <1>2, <1>6, <1>9, <1>11 DEF s, d, e, f

LEMMA MarkerPut ==
  ASSUME NEW r \in Rings, r.count + 2 <= Size
  PROVE  /\ PutMarker(r) \in Rings
         /\ PutMarker(r).count = r.count + 2
         /\ PutMarker(r).lost = r.lost /\ PutMarker(r).silent = r.silent
         /\ Contents(PutMarker(r)) = LostMarker \o Contents(r)
<1>0. PICK m \in [0 .. Size - 1 -> Bytes], h \in 0 .. Size - 1, c \in 0 .. Size,
           l \in BOOLEAN, q \in Nat :
        r = [mem |-> m, head |-> h, count |-> c, lost |-> l, silent |-> q]
  BY RingFields
<1> DEFINE head == (h - 2) % Size
           s == PutMarker(r)
           mem == Stored(m, head, LostMarker)
<1>1. Size \in Nat /\ Size > 4 /\ Size > 0 /\ c \in 0 .. Size - 2
  BY <1>0, SizeNat
<1>2. r.count = c /\ r.head = h /\ r.mem = m /\ r.lost = l /\ r.silent = q
  BY <1>0
<1>3. s = [mem |-> mem, head |-> head, count |-> c + 2, lost |-> l, silent |-> q]
  <2>1. s = [r EXCEPT !.mem = Stored(r.mem, (r.head - 2) % Size, LostMarker),
                      !.head = (r.head - 2) % Size, !.count = r.count + 2]
    BY DEF PutMarker
  <2>2. mem = Stored(r.mem, (r.head - 2) % Size, LostMarker) /\ head = (r.head - 2) % Size
    BY <1>2
  <2> HIDE DEF mem, s, head
  <2> QED
    BY <1>0, <1>2, <2>1, <2>2
<1>a. LostMarker \in Seq(Bytes) /\ Len(LostMarker) = 2
  BY DEF LostMarker, Bytes
<1> HIDE DEF head, mem, s
<1>4. /\ head \in 0 .. Size - 1
      /\ \A i \in 1 .. c : \E k \in 0 .. Size - 1 :
           /\ k >= 2 /\ (head + (2 + i) - 1) % Size = (h + i - 1) % Size
           /\ (head + k) % Size = (h + i - 1) % Size
      /\ \A i \in 1 .. 2 : \E k \in 0 .. Size - 1 :
           k < 2 /\ k + 1 = i /\ (head + k) % Size = (head + i - 1) % Size
  BY <1>1, FrontPlaces DEF head
<1>5. /\ mem \in [0 .. Size - 1 -> Bytes]
      /\ \A k \in 0 .. Size - 1 :
           mem[(head + k) % Size] = IF k < 2 THEN LostMarker[k + 1] ELSE m[(head + k) % Size]
  <2>1. Len(LostMarker) <= Size
    BY <1>1, <1>a
  <2>2. head \in 0 .. Size - 1
    BY <1>4
  <2>3. /\ mem \in [0 .. Size - 1 -> Bytes]
        /\ \A k \in 0 .. Size - 1 :
             mem[(head + k) % Size] = IF k < Len(LostMarker) THEN LostMarker[k + 1]
                                      ELSE m[(head + k) % Size]
    BY <1>a, <2>1, <2>2, StoredType DEF mem
  <2> QED
    BY <1>a, <2>3, Zenon
<1>6. /\ s \in Rings /\ s.count = c + 2 /\ s.head = head /\ s.mem = mem
      /\ s.lost = l /\ s.silent = q
  <2>1. c + 2 \in 0 .. Size
    BY <1>1
  <2>2. s \in Rings
    BY <1>3, <1>4, <1>5, <2>1, RingOfFields
  <2> QED
    BY <1>3, <2>2
<1> DEFINE d == Contents(r)
           e == Contents(s)
<1>7. d \in Seq(Bytes) /\ Len(d) = c /\ \A i \in 1 .. c : d[i] = m[(h + i - 1) % Size]
  BY <1>2, ContentsType, Zenon
<1>8. e \in Seq(Bytes) /\ Len(e) = c + 2
      /\ \A i \in 1 .. c + 2 : e[i] = mem[(head + i - 1) % Size]
  BY <1>6, ContentsType, Zenon
<1> HIDE DEF d, e
<1>9. ASSUME NEW i \in 1 .. 2
      PROVE  e[i] = LostMarker[i]
  <2>1. PICK k \in 0 .. Size - 1 :
          k < 2 /\ k + 1 = i /\ (head + k) % Size = (head + i - 1) % Size
    BY <1>4
  <2>2. mem[(head + k) % Size] = LostMarker[k + 1]
    BY <1>5, <2>1
  <2>3. i \in 1 .. c + 2
    BY <1>1
  <2> QED
    BY <1>8, <2>1, <2>2, <2>3, Zenon
<1>10. ASSUME NEW i \in 1 .. c
       PROVE  e[2 + i] = d[i]
  <2>1. PICK k \in 0 .. Size - 1 :
           /\ k >= 2 /\ (head + (2 + i) - 1) % Size = (h + i - 1) % Size
           /\ (head + k) % Size = (h + i - 1) % Size
    BY <1>4
  <2>2. mem[(head + k) % Size] = m[(head + k) % Size]
    BY <1>5, <2>1
  <2>3. 2 + i \in 1 .. c + 2
    BY <1>1
  <2> QED
    BY <1>7, <1>8, <2>1, <2>2, <2>3, Zenon
<1>11. e = LostMarker \o d
  <2>1. Len(e) = Len(LostMarker) + Len(d)
    BY <1>1, <1>7, <1>8, <1>a
  <2> HIDE DEF LostMarker
  <2>2. \A i \in 1 .. Len(LostMarker) : e[i] = LostMarker[i]
    BY <1>9, <1>a
  <2>3. \A i \in 1 .. Len(d) : e[Len(LostMarker) + i] = d[i]
    BY <1>7, <1>10, <1>a
  <2> QED
    BY <1>7, <1>8, <1>a, <2>1, <2>2, <2>3, Joined, Zenon
<1> QED
  BY <1>2, <1>6, <1>11 DEF s, d, e

\* The parts of a concatenation, and a part of a sequence.
LEMMA SeqParts ==
  ASSUME NEW S, NEW c \in Seq(S), NEW e \in Seq(S)
  PROVE  /\ c \o e \in Seq(S) /\ Len(c \o e) = Len(c) + Len(e)
         /\ \A i \in 1 .. Len(c) : (c \o e)[i] = c[i]
         /\ \A i \in 1 .. Len(e) : (c \o e)[Len(c) + i] = e[i]
<1> DEFINE d == c \o e
<1>1. d \in Seq(S)
  BY ConcatProperties
<1>2. Len(d) = Len(c) + Len(e)
  BY ConcatProperties
<1>3. \A i \in 1 .. Len(c) + Len(e) : d[i] = IF i <= Len(c) THEN c[i] ELSE e[i - Len(c)]
  BY ConcatProperties
<1>4. Len(c) \in Nat /\ Len(e) \in Nat
  BY LenProperties
<1> HIDE DEF d
<1>5. ASSUME NEW i \in 1 .. Len(c)
      PROVE  d[i] = c[i]
  <2>1. i \in 1 .. Len(c) + Len(e) /\ i <= Len(c)
    BY <1>4
  <2> QED
    BY <1>3, <2>1
<1>6. ASSUME NEW i \in 1 .. Len(e)
      PROVE  d[Len(c) + i] = e[i]
  <2>1. Len(c) + i \in 1 .. Len(c) + Len(e) /\ ~(Len(c) + i <= Len(c)) /\ (Len(c) + i) - Len(c) = i
    BY <1>4
  <2> QED
    BY <1>3, <2>1
<1> QED
  BY <1>1, <1>2, <1>5, <1>6 DEF d

LEMMA ConcatParts ==
  ASSUME NEW c \in Seq(Bytes), NEW e \in Seq(Bytes)
  PROVE  /\ c \o e \in Seq(Bytes) /\ Len(c \o e) = Len(c) + Len(e)
         /\ \A i \in 1 .. Len(c) : (c \o e)[i] = c[i]
         /\ \A i \in 1 .. Len(e) : (c \o e)[Len(c) + i] = e[i]
BY SeqParts

LEMMA ConcatTail ==
  ASSUME NEW c \in Seq(Bytes), NEW e \in Seq(Bytes)
  PROVE  \A i \in 1 .. Len(e) : (c \o e)[Len(c) + i] = e[i]
BY ConcatParts

LEMMA Between ==
  ASSUME NEW c \in Seq(Bytes), NEW e \in Seq(Bytes), NEW b \in Seq(Bytes)
  PROVE  /\ c \o (e \o b) = (c \o e) \o b /\ c \o e \in Seq(Bytes) /\ (c \o e) \o b \in Seq(Bytes)
         /\ Len(c) \in Nat /\ Len(e) \in Nat /\ Len(b) \in Nat
         /\ Len(c \o e) = Len(c) + Len(e)
         /\ Len((c \o e) \o b) = Len(c) + Len(e) + Len(b)
         /\ \A i \in 1 .. Len(e) : ((c \o e) \o b)[Len(c) + i] = e[i]
<1> DEFINE d == c \o e
           a == d \o b
<1>1. Len(c) \in Nat /\ Len(e) \in Nat /\ Len(b) \in Nat
  BY LenProperties
<1>2. /\ d \in Seq(Bytes) /\ Len(d) = Len(c) + Len(e)
      /\ \A i \in 1 .. Len(e) : d[Len(c) + i] = e[i]
  BY ConcatParts
<1>3. c \o (e \o b) = (c \o e) \o b
  OBVIOUS
<1> HIDE DEF d
<1>4. /\ a \in Seq(Bytes) /\ Len(a) = Len(d) + Len(b)
      /\ \A i \in 1 .. Len(d) : a[i] = d[i]
  <2>1. d \in Seq(Bytes)
    BY <1>2
  <2> QED
    BY <2>1
<1> HIDE DEF a
<1>5. ASSUME NEW i \in 1 .. Len(e)
      PROVE  a[Len(c) + i] = e[i]
  <2>1. Len(c) + i \in 1 .. Len(d)
    BY <1>1, <1>2
  <2> QED
    BY <1>2, <1>4, <2>1
<1> QED
  BY <1>1, <1>2, <1>3, <1>4, <1>5 DEF a, d

LEMMA Part ==
  ASSUME NEW a \in Seq(Bytes), NEW x \in Seq(Bytes), NEW m \in Nat, m >= 1,
         m + Len(x) - 1 <= Len(a),
         \A k \in 1 .. Len(x) : a[(m - 1) + k] = x[k]
  PROVE  SubSeq(a, m, m + Len(x) - 1) = x
<1> DEFINE s == SubSeq(a, m, m + Len(x) - 1)
<1>1. Len(x) \in Nat /\ Len(a) \in Nat
  BY LenProperties
<1>2. ASSUME NEW i \in m .. m + Len(x) - 1
      PROVE  a[i] \in Bytes
  <2>1. i \in 1 .. Len(a)
    BY <1>1
  <2> QED
    BY <2>1, ElementOfSeq
<1>3. m \in Int /\ m + Len(x) - 1 \in Int /\ (m + Len(x) - 1) - m + 1 = Len(x)
      /\ (IF m <= m + Len(x) - 1 THEN (m + Len(x) - 1) - m + 1 ELSE 0) = Len(x)
  BY <1>1
<1>4. s \in Seq(Bytes) /\ Len(s) = Len(x)
  BY <1>2, <1>3, SubSeqProperties
<1>5. ASSUME NEW k \in 1 .. Len(x)
      PROVE  s[k] = x[k]
  <2>1. s[k] = a[(m - 1) + k]
    BY <1>1
  <2> QED
    BY <2>1
<1> HIDE DEF s
<1>6. s = x
  BY <1>4, <1>5, SeqEqual
<1> QED
  BY <1>6 DEF s

-----------------------------------------------------------------------------
(* Records, and what a sequence of them is as bytes.                          *)

\* Two bytes as a length, what a marker is as one, and the longest packet of all: names,
\* for the provers count up to a numeral.
Word(p, q) == p + 256 * q
MarkerWord == 65535
Longest == 1023

LEMMA WordOf ==
  ASSUME NEW n \in 1 .. Longest
  PROVE  /\ n \in Nat /\ n # MarkerWord
         /\ n % 256 \in Bytes /\ n \div 256 \in Bytes /\ Word(n % 256, n \div 256) = n
BY DEF Longest, MarkerWord, Bytes, Word

LEMMA WordMarker == Word(255, 255) = MarkerWord /\ LostMarker = <<255, 255>>
BY DEF Word, MarkerWord, LostMarker

Packets == {[i \in 1 .. n |-> id] : n \in 1 .. MaxLen, id \in 0 .. Ids - 1}
Recs == Packets \cup {Gap}
Enc(x) == IF x = Gap THEN LostMarker ELSE <<Len(x) % 256, Len(x) \div 256>> \o x

LEMMA PacketType ==
  ASSUME NEW x \in Packets
  PROVE  /\ x \in Seq(Bytes) /\ Len(x) \in 1 .. MaxLen /\ Len(x) \in 1 .. Longest
         /\ x # Gap /\ x # Partial
         /\ x[1] \in 0 .. Ids - 1 /\ \A k \in 1 .. Len(x) : x[k] = x[1]
<1>1. PICK n \in 1 .. MaxLen, id \in 0 .. Ids - 1 : x = [i \in 1 .. n |-> id]
  BY DEF Packets
<1>2. n \in Nat /\ n >= 1 /\ n \in 1 .. Longest /\ id \in Bytes /\ Ids \in 2 .. 254
  BY IsoAssumption DEF Bytes, Longest
<1>3. x \in [1 .. n -> Bytes]
  BY <1>1, <1>2
<1>4. x \in Seq(Bytes) /\ Len(x) = n
  BY <1>2, <1>3, AsSeq
<1>5. 1 \in 1 .. n
  BY <1>2
<1>6. x[1] = id /\ \A k \in 1 .. n : x[k] = id
  BY <1>1, <1>5
<1>7. Len(Gap) = 0
  BY DEF Gap
<1>8. Partial[1] = 256
  BY DEF Partial
<1>9. id # 256
  BY <1>2
<1> QED
  BY <1>2, <1>4, <1>6, <1>7, <1>8, <1>9

LEMMA EncType ==
  ASSUME NEW x \in Recs
  PROVE  /\ Enc(x) \in Seq(Bytes) /\ Len(Enc(x)) \in 2 .. MaxLen + 2
         /\ IF x = Gap THEN Enc(x) = LostMarker /\ Len(Enc(x)) = 2
                       ELSE Len(Enc(x)) = Len(x) + 2 /\ Len(Enc(x)) >= 3
         /\ Word(Enc(x)[1], Enc(x)[2]) = IF x = Gap THEN MarkerWord ELSE Len(x)
         /\ Enc(x)[1] \in Bytes /\ Enc(x)[2] \in Bytes
<1>0. MaxLen \in Nat /\ MaxLen >= 1
  BY IsoAssumption
<1>1. CASE x = Gap
  <2>1. Enc(x) = LostMarker
    BY <1>1 DEF Enc
  <2>2. /\ LostMarker \in Seq(Bytes) /\ Len(LostMarker) = 2
        /\ LostMarker[1] = 255 /\ LostMarker[2] = 255 /\ 255 \in Bytes
    BY DEF LostMarker, Bytes
  <2>3. 2 \in 2 .. MaxLen + 2
    BY <1>0
  <2>4. Word(LostMarker[1], LostMarker[2]) = MarkerWord
    BY <2>2, WordMarker
  <2> QED
    BY <1>1, <2>1, <2>2, <2>3, <2>4
<1>2. CASE x # Gap
  <2>1. x \in Packets
    BY <1>2 DEF Recs
  <2>2. PICK n \in Nat : n = Len(x) /\ x \in Seq(Bytes) /\ n \in 1 .. MaxLen /\ n \in 1 .. Longest
    BY <2>1, PacketType
  <2>3. PICK p \in Seq(Bytes) : /\ p = <<n % 256, n \div 256>> /\ Len(p) = 2
                               /\ p[1] \in Bytes /\ p[2] \in Bytes /\ Word(p[1], p[2]) = n
    <3>1. n % 256 \in Bytes /\ n \div 256 \in Bytes /\ Word(n % 256, n \div 256) = n
      BY <2>2, WordOf
    <3> DEFINE u == n % 256
               v == n \div 256
    <3>2. u \in Bytes /\ v \in Bytes /\ Word(u, v) = n
      BY <3>1
    <3> HIDE DEF u, v
    <3>3. <<u, v>> \in Seq(Bytes) /\ Len(<<u, v>>) = 2 /\ <<u, v>>[1] = u /\ <<u, v>>[2] = v
      BY <3>2
    <3> QED
      BY <3>2, <3>3, Zenon DEF u, v
  <2>4. Enc(x) = p \o x
    BY <1>2, <2>2, <2>3 DEF Enc
  <2>5. /\ p \o x \in Seq(Bytes) /\ Len(p \o x) = n + 2
        /\ \A i \in 1 .. Len(p) : (p \o x)[i] = p[i]
        /\ \A i \in 1 .. Len(x) : (p \o x)[Len(p) + i] = x[i]
    <3>1. Len(p) + Len(x) = n + 2
      BY <2>2, <2>3
    <3> QED
      BY <2>2, <3>1, ConcatParts
  <2>6. 1 \in 1 .. Len(p) /\ 2 \in 1 .. Len(p)
    BY <2>3
  <2>7. n + 2 \in 2 .. MaxLen + 2 /\ n + 2 >= 3
    BY <1>0, <2>2
  <2>8. (p \o x)[1] = p[1] /\ (p \o x)[2] = p[2]
    BY <2>5, <2>6
  <2>9. PICK e : e = p \o x
    OBVIOUS
  <2>a. /\ e \in Seq(Bytes) /\ Len(e) \in 2 .. MaxLen + 2 /\ Len(e) = Len(x) + 2 /\ Len(e) >= 3
        /\ Word(e[1], e[2]) = Len(x) /\ e[1] \in Bytes /\ e[2] \in Bytes
    <3>1. /\ e \in Seq(Bytes) /\ Len(e) = n + 2 /\ e[1] = p[1] /\ e[2] = p[2]
      BY <2>5, <2>8, <2>9, Zenon
    <3>2. Word(e[1], e[2]) = Len(x) /\ e[1] \in Bytes /\ e[2] \in Bytes
      BY <2>2, <2>3, <3>1
    <3>3. Len(e) \in 2 .. MaxLen + 2 /\ Len(e) = Len(x) + 2 /\ Len(e) >= 3
      BY <2>2, <2>7, <3>1
    <3> QED
      BY <3>1, <3>2, <3>3
  <2>b. Enc(x) = e
    BY <2>4, <2>9
  <2> QED
    BY <1>2, <2>a, <2>b, Zenon
<1> QED
  BY <1>1, <1>2

LEMMA RecPacket ==
  ASSUME NEW x \in Recs, x # Gap
  PROVE  /\ x \in Packets /\ x \in Seq(Bytes) /\ Len(x) \in 1 .. Longest /\ Len(x) \in 1 .. MaxLen
         /\ x[1] \in 0 .. Ids - 1 /\ \A k \in 1 .. Len(x) : x[k] = x[1]
<1>1. x \in Packets
  BY DEF Recs
<1> QED
  BY <1>1, PacketType, Zenon

\* The bytes of a packet come after its length.
LEMMA EncPacket ==
  ASSUME NEW x \in Recs, x # Gap
  PROVE  \A k \in 1 .. Len(x) : Enc(x)[2 + k] = x[k]
<1> DEFINE q == <<Len(x) % 256, Len(x) \div 256>>
<1>1. Enc(x) = q \o x
  BY DEF Enc
<1>2. x \in Seq(Bytes) /\ Len(x) \in 1 .. Longest
  BY RecPacket, Zenon
<1>3. q \in Seq(Bytes) /\ Len(q) = 2
  <2>1. Len(x) % 256 \in Bytes /\ Len(x) \div 256 \in Bytes
    BY <1>2, WordOf
  <2> QED
    BY <2>1
<1> HIDE DEF q
<1>4. \A k \in 1 .. Len(x) : (q \o x)[Len(q) + k] = x[k]
  BY <1>2, <1>3, ConcatTail, Zenon
<1> QED
  BY <1>1, <1>3, <1>4, Zenon

\* The bytes b are the records rs, one after the other: the least relation that holds
\* of nothing and is kept by a record more at the front.
Closed(T) ==
  /\ <<<<>>, <<>>>> \in T
  /\ \A x \in Recs, b \in Seq(Bytes), rs \in Seq(Recs) :
       <<b, rs>> \in T => <<Enc(x) \o b, <<x>> \o rs>> \in T
Coded(b, rs) == \A T : Closed(T) => <<b, rs>> \in T

LEMMA CodedType ==
  ASSUME NEW b, NEW rs, Coded(b, rs)
  PROVE  b \in Seq(Bytes) /\ rs \in Seq(Recs)
<1> DEFINE T == Seq(Bytes) \X Seq(Recs)
<1>0. <<>> \in Seq(Bytes) /\ <<>> \in Seq(Recs)
  BY EmptySeq
<1>1. <<<<>>, <<>>>> \in T
  BY <1>0, Zenon
<1>2. ASSUME NEW x \in Recs, NEW c \in Seq(Bytes), NEW qs \in Seq(Recs)
      PROVE  <<Enc(x) \o c, <<x>> \o qs>> \in T
  <2>1. Enc(x) \in Seq(Bytes) /\ <<x>> \in Seq(Recs)
    BY EncType
  <2>2. Enc(x) \o c \in Seq(Bytes) /\ <<x>> \o qs \in Seq(Recs)
    BY <2>1, ConcatProperties
  <2> QED
    BY <2>2, Zenon
<1>3. Closed(T)
  BY <1>1, <1>2 DEF Closed
<1> HIDE DEF T
<1>4. <<b, rs>> \in T
  BY <1>3 DEF Coded
<1> QED
  BY <1>4 DEF T

LEMMA CodedEmpty == Coded(<<>>, <<>>)
BY DEF Coded, Closed

LEMMA CodedCons ==
  ASSUME NEW b, NEW rs, Coded(b, rs), NEW x \in Recs
  PROVE  Coded(Enc(x) \o b, <<x>> \o rs)
<1>1. b \in Seq(Bytes) /\ rs \in Seq(Recs)
  BY CodedType
<1> SUFFICES ASSUME NEW T, Closed(T)
             PROVE  <<Enc(x) \o b, <<x>> \o rs>> \in T
  BY DEF Coded
<1>2. <<b, rs>> \in T
  BY DEF Coded
<1> QED
  BY <1>1, <1>2, Zenon DEF Closed

\* Induction over the records.
LEMMA CodedInduction ==
  ASSUME NEW T, <<<<>>, <<>>>> \in T,
         \A x \in Recs, b \in Seq(Bytes), rs \in Seq(Recs) :
           Coded(b, rs) /\ <<b, rs>> \in T => <<Enc(x) \o b, <<x>> \o rs>> \in T,
         NEW b0, NEW rs0, Coded(b0, rs0)
  PROVE  <<b0, rs0>> \in T
<1> DEFINE U == {p \in T : Coded(p[1], p[2])}
<1>1. \A b, rs : <<b, rs>> \in U <=> <<b, rs>> \in T /\ Coded(b, rs)
  <2> HIDE DEF Coded
  <2> QED
    OBVIOUS
<1> HIDE DEF U
<1>2. <<<<>>, <<>>>> \in U
  BY <1>1, CodedEmpty
<1>3. ASSUME NEW x \in Recs, NEW b \in Seq(Bytes), NEW rs \in Seq(Recs), <<b, rs>> \in U
      PROVE  <<Enc(x) \o b, <<x>> \o rs>> \in U
  <2>1. <<b, rs>> \in T /\ Coded(b, rs)
    BY <1>1, <1>3
  <2>2. Coded(Enc(x) \o b, <<x>> \o rs)
    BY <2>1, CodedCons
  <2>3. <<Enc(x) \o b, <<x>> \o rs>> \in T
    BY <2>1, Zenon
  <2> QED
    BY <1>1, <2>2, <2>3, Zenon
<1>4. Closed(U)
  BY <1>2, <1>3, Zenon DEF Closed
<1>5. <<b0, rs0>> \in U
  BY <1>4, Zenon DEF Coded
<1> QED
  BY <1>1, <1>5

\* Either there is nothing, or there is a first record.
Begins(b, rs) ==
  \/ b = <<>> /\ rs = <<>>
  \/ \E x \in Recs, c \in Seq(Bytes), qs \in Seq(Recs) :
       Coded(c, qs) /\ b = Enc(x) \o c /\ rs = <<x>> \o qs

LEMMA CodedHead ==
  ASSUME NEW b, NEW rs, Coded(b, rs)
  PROVE  Begins(b, rs)
<1> DEFINE First(p) == Begins(p[1], p[2])
           T == {p \in Seq(Bytes) \X Seq(Recs) : First(p)}
<1>1. <<<<>>, <<>>>> \in T
  <2> DEFINE p == <<<<>>, <<>>>>
  <2>1. <<>> \in Seq(Bytes) /\ <<>> \in Seq(Recs)
    BY EmptySeq
  <2>2. p[1] = <<>> /\ p[2] = <<>>
    OBVIOUS
  <2>3. p \in Seq(Bytes) \X Seq(Recs)
    BY <2>1, Zenon
  <2> HIDE DEF p
  <2>4. p \in T
    BY <2>2, <2>3, Zenon DEF Begins
  <2> QED
    BY <2>4 DEF p
<1>2. ASSUME NEW x \in Recs, NEW c \in Seq(Bytes), NEW qs \in Seq(Recs), Coded(c, qs)
      PROVE  <<Enc(x) \o c, <<x>> \o qs>> \in T
  <2>1. Coded(Enc(x) \o c, <<x>> \o qs)
    BY <1>2, CodedCons
  <2>2. Enc(x) \o c \in Seq(Bytes) /\ <<x>> \o qs \in Seq(Recs)
    BY <2>1, CodedType
  <2> DEFINE p == <<Enc(x) \o c, <<x>> \o qs>>
  <2>3. p[1] = Enc(x) \o c /\ p[2] = <<x>> \o qs /\ p \in Seq(Bytes) \X Seq(Recs)
    BY <2>2
  <2> HIDE DEF p
  <2>4. First(p)
    BY <1>2, <2>3, Zenon DEF Begins
  <2> HIDE DEF First
  <2>5. p \in T
    BY <2>3, <2>4
  <2> QED
    BY <2>5 DEF p
<1> HIDE DEF T
<1>3. <<b, rs>> \in T
  BY <1>1, <1>2, CodedInduction
<1>4. First(<<b, rs>>)
  <2> HIDE DEF First
  <2> QED
    BY <1>3 DEF T
<1> QED
  BY <1>4

\* One record more at the end.
LEMMA CodedAppend ==
  ASSUME NEW b, NEW rs, Coded(b, rs), NEW x \in Recs
  PROVE  Coded(b \o Enc(x), rs \o <<x>>)
<1> DEFINE T == {p \in Seq(Bytes) \X Seq(Recs) : Coded(p[1] \o Enc(x), p[2] \o <<x>>)}
<1>0. Enc(x) \in Seq(Bytes) /\ <<x>> \in Seq(Recs)
  BY EncType
<1>a. ASSUME NEW c, NEW qs
      PROVE  <<c, qs>> \in T <=> /\ c \in Seq(Bytes) /\ qs \in Seq(Recs)
                                 /\ Coded(c \o Enc(x), qs \o <<x>>)
  <2> HIDE DEF Coded
  <2> QED
    OBVIOUS
<1>1. <<<<>>, <<>>>> \in T
  <2>1. Coded(Enc(x) \o <<>>, <<x>> \o <<>>)
    BY CodedEmpty, CodedCons
  <2>2. Enc(x) \o <<>> = <<>> \o Enc(x) /\ <<x>> \o <<>> = <<>> \o <<x>>
    BY <1>0, ConcatEmptySeq
  <2>3. <<>> \in Seq(Bytes) /\ <<>> \in Seq(Recs)
    OBVIOUS
  <2> HIDE DEF T
  <2> QED
    BY <1>a, <2>1, <2>2, <2>3
<1>2. ASSUME NEW y \in Recs, NEW c \in Seq(Bytes), NEW qs \in Seq(Recs), <<c, qs>> \in T
      PROVE  <<Enc(y) \o c, <<y>> \o qs>> \in T
  <2>0. Enc(y) \in Seq(Bytes) /\ <<y>> \in Seq(Recs)
    BY EncType
  <2>1. Coded(c \o Enc(x), qs \o <<x>>)
    BY <1>a, <1>2
  <2>2. Coded(Enc(y) \o (c \o Enc(x)), <<y>> \o (qs \o <<x>>))
    BY <2>1, CodedCons
  <2>3. Enc(y) \o (c \o Enc(x)) = (Enc(y) \o c) \o Enc(x)
    BY <1>0, <2>0, ConcatAssociative
  <2>5. <<y>> \o (qs \o <<x>>) = (<<y>> \o qs) \o <<x>>
    BY <1>0, <2>0, ConcatAssociative
  <2>4. Enc(y) \o c \in Seq(Bytes) /\ <<y>> \o qs \in Seq(Recs)
    BY <2>0, ConcatProperties
  <2> HIDE DEF T
  <2> QED
    BY <1>a, <2>2, <2>3, <2>4, <2>5
<1> HIDE DEF T
<1>3. <<b, rs>> \in T
  BY <1>1, <1>2, CodedInduction
<1> QED
  BY <1>a, <1>3

-----------------------------------------------------------------------------
(* process_records finds the records that were coded.                         *)

\* One step of the walk, given the records from each later place on.
LenAt(b, i) == Word(b[i], b[i + 1])
Walk(b, from, i) ==
  IF i + 1 > Len(b) THEN <<>>
  ELSE IF LenAt(b, i) = MarkerWord THEN <<Gap>> \o from[i + 2]
  ELSE IF i + 1 + LenAt(b, i) > Len(b) THEN <<Partial>>
  ELSE <<SubSeq(b, i + 2, i + 1 + LenAt(b, i))>> \o from[i + 2 + LenAt(b, i)]

\* It looks at later places only.
LEMMA WalkLater ==
  ASSUME NEW b \in Seq(Bytes), NEW g, NEW h, NEW i \in 1 .. Len(b) + 1,
         \A j \in i + 1 .. Len(b) + 1 : g[j] = h[j]
  PROVE  Walk(b, g, i) = Walk(b, h, i)
<1> DEFINE len == LenAt(b, i)
<1>0. Len(b) \in Nat
  BY LenProperties
<1>1. CASE i + 1 > Len(b)
  BY <1>1 DEF Walk
<1>2. CASE ~(i + 1 > Len(b))
  <2>1. len \in Nat
    <3>1. i \in 1 .. Len(b) /\ i + 1 \in 1 .. Len(b)
      BY <1>0, <1>2
    <3> DEFINE p == b[i]
               q == b[i + 1]
    <3>2. p \in 0 .. 255 /\ q \in 0 .. 255
      BY <3>1, ElementOfSeq DEF Bytes
    <3> HIDE DEF p, q
    <3>3. p + 256 * q \in Nat
      BY <3>2
    <3> QED
      BY <3>3 DEF LenAt, Word, p, q
  <2> HIDE DEF len
  <2>2. i + 2 \in i + 1 .. Len(b) + 1
    BY <1>0, <1>2
  <2>3. g[i + 2] = h[i + 2]
    BY <2>2
  <2>4. CASE i + 1 + len > Len(b)
    BY <2>3, <2>4 DEF Walk, len
  <2>5. CASE ~(i + 1 + len > Len(b))
    <3>1. i + 2 + len \in i + 1 .. Len(b) + 1
      BY <1>0, <2>1, <2>5
    <3>2. g[i + 2 + len] = h[i + 2 + len]
      BY <3>1
    <3> QED
      BY <2>3, <3>2 DEF Walk, len
  <2> QED
    BY <2>4, <2>5
<1> QED
  BY <1>1, <1>2

\* The walk from every place, as the function of the definition.
LEMMA WalkExists ==
  ASSUME NEW b \in Seq(Bytes)
  PROVE  \E g : g = [i \in 1 .. Len(b) + 1 |-> Walk(b, g, i)]
<1> DEFINE n == Len(b)
           Sound(g, k) == \A i \in 1 .. n + 1 : i >= n + 1 - k => g[i] = Walk(b, g, i)
           T == {k \in 0 .. n : \E g : Sound(g, k)}
<1>0. n \in Nat
  BY LenProperties
<1> HIDE DEF n
<1>1. 0 \in T
  <2> DEFINE g == [i \in 1 .. n + 1 |-> <<>>]
  <2>1. ASSUME NEW i \in 1 .. n + 1, i >= n + 1 - 0
        PROVE  g[i] = Walk(b, g, i)
    <3>1. i + 1 > n
      BY <1>0, <2>1
    <3>2. Walk(b, g, i) = <<>>
      BY <3>1 DEF Walk, n
    <3> QED
      BY <3>2
  <2>2. Sound(g, 0)
    BY <2>1
  <2> HIDE DEF g, Sound
  <2> QED
    BY <1>0, <2>2
<1>2. ASSUME NEW k \in 0 .. n - 1, k \in T
      PROVE  k + 1 \in T
  <2>1. PICK g : Sound(g, k)
    BY <1>2
  <2> DEFINE m == n - k
             h == [i \in 1 .. n + 1 |-> IF i = m THEN Walk(b, g, m) ELSE g[i]]
  <2>2. m \in 1 .. n /\ n + 1 - k = m + 1 /\ n + 1 - (k + 1) = m
    BY <1>0
  <2> HIDE DEF m
  <2>3. \A i \in 1 .. n + 1 : h[i] = IF i = m THEN Walk(b, g, m) ELSE g[i]
    OBVIOUS
  <2> HIDE DEF h
  <2>4. ASSUME NEW i \in 1 .. n + 1, i >= m
        PROVE  h[i] = Walk(b, h, i)
    <3>1. \A j \in i + 1 .. Len(b) + 1 : g[j] = h[j]
      <4> TAKE j \in i + 1 .. Len(b) + 1
      <4>1. j \in 1 .. n + 1 /\ j # m
        BY <1>0, <2>2, <2>4 DEF n
      <4> QED
        BY <2>3, <4>1
    <3>2. i \in 1 .. Len(b) + 1
      BY DEF n
    <3>3. Walk(b, g, i) = Walk(b, h, i)
      BY <3>1, <3>2, WalkLater, Zenon
    <3>4. i # m => g[i] = Walk(b, g, i)
      <4>1. i # m => i >= n + 1 - k
        BY <1>0, <2>2, <2>4
      <4> QED
        BY <2>1, <4>1
    <3> QED
      BY <2>3, <3>3, <3>4
  <2>5. Sound(h, k + 1)
    BY <2>2, <2>4
  <2> HIDE DEF Sound
  <2>6. k + 1 \in 0 .. n
    BY <1>0
  <2> QED
    BY <2>5, <2>6
<1>3. n \in T
  <2> HIDE DEF T
  <2>1. 0 .. n \subseteq T
    BY <1>0, <1>1, <1>2, Ascend
  <2> QED
    BY <1>0, <2>1
<1>4. PICK g : Sound(g, n)
  BY <1>3
<1> DEFINE h == [i \in 1 .. n + 1 |-> g[i]]
<1>5. \A i \in 1 .. n + 1 : h[i] = g[i]
  OBVIOUS
<1> HIDE DEF h
<1>6. ASSUME NEW i \in 1 .. n + 1
      PROVE  g[i] = Walk(b, h, i)
  <2>1. g[i] = Walk(b, g, i)
    <3>1. i >= n + 1 - n
      BY <1>0
    <3> QED
      BY <1>4, <3>1
  <2>2. \A j \in i + 1 .. Len(b) + 1 : g[j] = h[j]
    <3> TAKE j \in i + 1 .. Len(b) + 1
    <3>1. j \in 1 .. n + 1
      BY <1>0 DEF n
    <3> QED
      BY <1>5, <3>1
  <2>3. i \in 1 .. Len(b) + 1
    BY DEF n
  <2>4. Walk(b, g, i) = Walk(b, h, i)
    BY <2>2, <2>3, WalkLater, Zenon
  <2> QED
    BY <2>1, <2>4
<1>7. h = [i \in 1 .. Len(b) + 1 |-> Walk(b, h, i)]
  <2>1. [i \in 1 .. n + 1 |-> g[i]] = [i \in 1 .. n + 1 |-> Walk(b, h, i)]
    BY <1>6
  <2>2. h = [i \in 1 .. n + 1 |-> g[i]]
    BY DEF h
  <2>3. h = [i \in 1 .. n + 1 |-> Walk(b, h, i)]
    BY <2>1, <2>2
  <2> QED
    BY <2>3 DEF n
<1> QED
  BY <1>7

LEMMA Processed ==
  ASSUME NEW b \in Seq(Bytes)
  PROVE  \E from : /\ process_records(b) = from[1]
                   /\ \A i \in 1 .. Len(b) + 1 : from[i] = Walk(b, from, i)
<1> DEFINE F(g) == [i \in 1 .. Len(b) + 1 |-> Walk(b, g, i)]
           h == CHOOSE g : g = F(g)
<1>1. process_records(b) = h[1]
  BY DEF process_records, Walk, LenAt, Word, MarkerWord
<1>2. \E g : g = F(g)
  BY WalkExists
<1> HIDE DEF F
<1>3. h = F(h)
  BY <1>2, Zenon
<1> HIDE DEF h
<1>4. \A i \in 1 .. Len(b) + 1 : F(h)[i] = Walk(b, h, i)
  BY DEF F
<1>5. \A i \in 1 .. Len(b) + 1 : h[i] = Walk(b, h, i)
  BY <1>3, <1>4, Zenon
<1> QED
  BY <1>1, <1>5

\* Where a record begins, the walk takes it and goes on behind it.
LEMMA WalkGap ==
  ASSUME NEW a \in Seq(Bytes), NEW nc \in Nat, NEW from,
         nc + 2 <= Len(a), LenAt(a, nc + 1) = MarkerWord
  PROVE  /\ nc + 1 \in 1 .. Len(a) + 1
         /\ Walk(a, from, nc + 1) = <<Gap>> \o from[(nc + 1) + 2]
<1>1. nc + 1 \in 1 .. Len(a) + 1 /\ ~((nc + 1) + 1 > Len(a))
  OBVIOUS
<1> QED
  BY <1>1 DEF Walk

\* The packet x, whole, behind its length and the first nc bytes.
WholeAt(a, nc, x) ==
  /\ nc + (Len(x) + 2) <= Len(a) /\ LenAt(a, nc + 1) = Len(x)
  /\ \A k \in 1 .. Len(x) : a[nc + (2 + k)] = x[k]

\* At place i the walk takes x and goes on at place j.
Takes(a, from, i, x, j) == Walk(a, from, i) = <<x>> \o from[j]

LEMMA WalkWhole ==
  ASSUME NEW a \in Seq(Bytes), NEW nc \in Nat, NEW x \in Packets, NEW from,
         WholeAt(a, nc, x)
  PROVE  Takes(a, from, nc + 1, x, (nc + 1) + 2 + Len(x))
<1>a. /\ nc + (Len(x) + 2) <= Len(a) /\ LenAt(a, nc + 1) = Len(x)
      /\ \A k \in 1 .. Len(x) : a[nc + (2 + k)] = x[k]
  BY DEF WholeAt
<1>0. x \in Seq(Bytes) /\ Len(x) \in 1 .. Longest
  BY PacketType, Zenon
<1>1. Len(x) # MarkerWord /\ Len(x) \in Nat
  BY <1>0, WordOf
<1>2. /\ nc + 1 \in 1 .. Len(a) + 1 /\ ~((nc + 1) + 1 > Len(a))
      /\ ~((nc + 1) + 1 + Len(x) > Len(a))
  BY <1>a, <1>1
<1>3. Walk(a, from, nc + 1)
        = <<SubSeq(a, (nc + 1) + 2, (nc + 1) + 1 + Len(x))>> \o from[(nc + 1) + 2 + Len(x)]
  BY <1>a, <1>1, <1>2, Zenon DEF Walk
<1>4. PICK m \in Nat : m >= 1 /\ m = (nc + 1) + 2
  OBVIOUS
<1>5. m + Len(x) - 1 <= Len(a) /\ m + Len(x) - 1 = (nc + 1) + 1 + Len(x)
  <2>1. PICK lx \in Nat : lx = Len(x)
    BY <1>1
  <2>2. PICK la \in Nat : la = Len(a)
    OBVIOUS
  <2>3. nc + (lx + 2) <= la
    BY <1>a, <2>1, <2>2, Zenon
  <2>4. m + lx - 1 <= la /\ m + lx - 1 = (nc + 1) + 1 + lx
    BY <1>4, <2>3
  <2> QED
    BY <2>1, <2>2, <2>4, Zenon
<1>6. ASSUME NEW k \in 1 .. Len(x)
      PROVE  a[(m - 1) + k] = x[k]
  <2>1. (m - 1) + k = nc + (2 + k)
    BY <1>4
  <2> QED
    BY <1>a, <2>1
<1>7. SubSeq(a, m, m + Len(x) - 1) = x
  BY <1>0, <1>4, <1>5, <1>6, Part
<1> QED
  BY <1>2, <1>3, <1>4, <1>5, <1>7, Zenon DEF Takes

LEMMA WalkRecord ==
  ASSUME NEW c \in Seq(Bytes), NEW x \in Recs, NEW b \in Seq(Bytes), NEW from
  PROVE  /\ Len(c) + 1 \in 1 .. Len((c \o Enc(x)) \o b) + 1
         /\ Walk((c \o Enc(x)) \o b, from, Len(c) + 1)
              = <<x>> \o from[Len(c \o Enc(x)) + 1]
<1>1. PICK e : e = Enc(x)
  OBVIOUS
<1>2. /\ e \in Seq(Bytes) /\ Len(e) = IF x = Gap THEN 2 ELSE Len(x) + 2
      /\ Word(e[1], e[2]) = IF x = Gap THEN MarkerWord ELSE Len(x)
      /\ x # Gap => \A k \in 1 .. Len(x) : e[2 + k] = x[k]
  BY <1>1, EncType, EncPacket
<1>3. PICK a : a = (c \o e) \o b
  OBVIOUS
<1>4. /\ a \in Seq(Bytes) /\ Len(c) \in Nat /\ Len(b) \in Nat
      /\ Len(c \o e) = Len(c) + Len(e)
      /\ Len(a) = Len(c) + Len(e) + Len(b)
      /\ \A i \in 1 .. Len(e) : a[Len(c) + i] = e[i]
  <2>1. e \in Seq(Bytes)
    BY <1>2
  <2>2. /\ (c \o e) \o b \in Seq(Bytes) /\ Len(c) \in Nat /\ Len(b) \in Nat
        /\ Len(c \o e) = Len(c) + Len(e)
        /\ Len((c \o e) \o b) = Len(c) + Len(e) + Len(b)
        /\ \A i \in 1 .. Len(e) : ((c \o e) \o b)[Len(c) + i] = e[i]
    BY <2>1, Between
  <2> QED
    BY <1>3, <2>2, Zenon
<1>5. PICK nc \in Nat, nb \in Nat, ne \in Nat : nc = Len(c) /\ nb = Len(b) /\ ne = Len(e)
  BY <1>2, <1>4
<1>6. /\ Len(a) = nc + ne + nb /\ Len(c \o e) = nc + ne
      /\ \A i \in 1 .. ne : a[nc + i] = e[i]
  BY <1>4, <1>5, Zenon
<1>7. ne >= 2 => LenAt(a, nc + 1) = Word(e[1], e[2])
  <2>1. ne >= 2 => 1 \in 1 .. ne /\ 2 \in 1 .. ne /\ (nc + 1) + 1 = nc + 2
    OBVIOUS
  <2>2. ne >= 2 => a[nc + 1] = e[1] /\ a[(nc + 1) + 1] = e[2]
    BY <1>6, <2>1
  <2> QED
    BY <2>2 DEF LenAt
<1>8. CASE x = Gap
  <2>1. ne = 2 /\ Word(e[1], e[2]) = MarkerWord
    BY <1>2, <1>5, <1>8
  <2>2. nc + 2 <= Len(a) /\ (nc + 1) + 2 = Len(c \o e) + 1 /\ ne >= 2
    BY <1>6, <2>1
  <2>3. LenAt(a, nc + 1) = MarkerWord
    BY <1>7, <2>1, <2>2, Zenon
  <2>4. a \in Seq(Bytes)
    BY <1>4
  <2>5. /\ nc + 1 \in 1 .. Len(a) + 1
        /\ Walk(a, from, nc + 1) = <<Gap>> \o from[(nc + 1) + 2]
    BY <2>2, <2>3, <2>4, WalkGap, Zenon
  <2> QED
    BY <1>1, <1>3, <1>5, <1>8, <2>2, <2>5, Zenon
<1>9. CASE x # Gap
  <2>1. Len(x) \in 1 .. Longest /\ x \in Packets
    BY <1>9, RecPacket, Zenon
  <2>0. Len(x) \in Nat
    BY <2>1, WordOf, Zenon
  <2>2. ne = Len(x) + 2 /\ Word(e[1], e[2]) = Len(x) /\ \A k \in 1 .. Len(x) : e[2 + k] = x[k]
    BY <1>2, <1>5, <1>9, Zenon
  <2>3. nc + (Len(x) + 2) <= Len(a) /\ (nc + 1) + 2 + Len(x) = Len(c \o e) + 1 /\ ne >= 2
    BY <1>6, <2>0, <2>2
  <2>4. LenAt(a, nc + 1) = Len(x)
    BY <1>7, <2>2, <2>3, Zenon
  <2>5. ASSUME NEW k \in 1 .. Len(x)
        PROVE  a[nc + (2 + k)] = x[k]
    <3>1. 2 + k \in 1 .. ne
      BY <2>0, <2>2
    <3> QED
      BY <1>6, <2>2, <3>1, Zenon
  <2>6. a \in Seq(Bytes)
    BY <1>4
  <2>7. /\ nc + 1 \in 1 .. Len(a) + 1
        /\ Walk(a, from, nc + 1) = <<x>> \o from[(nc + 1) + 2 + Len(x)]
    <3>1. WholeAt(a, nc, x)
      BY <2>3, <2>4, <2>5 DEF WholeAt
    <3>2. x \in Packets
      BY <2>1
    <3>3. nc + 1 \in 1 .. Len(a) + 1
      BY <1>6, <2>3
    <3>4. Takes(a, from, nc + 1, x, (nc + 1) + 2 + Len(x))
      BY <2>6, <3>1, <3>2, WalkWhole, Zenon
    <3> QED
      BY <3>3, <3>4, Zenon DEF Takes
  <2> QED
    BY <1>1, <1>3, <1>5, <2>3, <2>7, Zenon
<1> QED
  BY <1>8, <1>9

LEMMA ProcessCoded ==
  ASSUME NEW b0, NEW rs0, Coded(b0, rs0)
  PROVE  process_records(b0) = rs0
<1> DEFINE Sound(a, from) == \A i \in 1 .. Len(a) + 1 : from[i] = Walk(a, from, i)
           Finds(b, rs) ==
             \A c \in Seq(Bytes) : \A from : Sound(c \o b, from) => from[Len(c) + 1] = rs
           T == {p \in Seq(Bytes) \X Seq(Recs) : Finds(p[1], p[2])}
<1>0. ASSUME NEW b \in Seq(Bytes), NEW rs \in Seq(Recs)
      PROVE  <<b, rs>> \in T <=> Finds(b, rs)
  <2> DEFINE p == <<b, rs>>
  <2>1. p[1] = b /\ p[2] = rs /\ p \in Seq(Bytes) \X Seq(Recs)
    OBVIOUS
  <2> HIDE DEF p, Finds
  <2>2. p \in T <=> Finds(b, rs)
    BY <2>1
  <2> QED
    BY <2>2 DEF p
<1>1. <<<<>>, <<>>>> \in T
  <2>1. ASSUME NEW c \in Seq(Bytes), NEW from, Sound(c \o <<>>, from)
        PROVE  from[Len(c) + 1] = <<>>
    <3>1. c \o <<>> = c /\ Len(c) \in Nat
      BY ConcatEmptySeq, LenProperties
    <3>2. Len(c) + 1 \in 1 .. Len(c) + 1 /\ (Len(c) + 1) + 1 > Len(c)
      BY <3>1
    <3>3. from[Len(c) + 1] = Walk(c, from, Len(c) + 1)
      BY <2>1, <3>1, <3>2
    <3>4. Walk(c, from, Len(c) + 1) = <<>>
      BY <3>2 DEF Walk
    <3> QED
      BY <3>3, <3>4
  <2> HIDE DEF Sound
  <2>2. Finds(<<>>, <<>>)
    BY <2>1
  <2>3. <<>> \in Seq(Bytes) /\ <<>> \in Seq(Recs)
    BY EmptySeq
  <2> HIDE DEF T, Finds
  <2> QED
    BY <1>0, <2>2, <2>3
<1>2. ASSUME NEW x \in Recs, NEW b \in Seq(Bytes), NEW rs \in Seq(Recs), <<b, rs>> \in T
      PROVE  <<Enc(x) \o b, <<x>> \o rs>> \in T
  <2>1. Finds(b, rs)
    <3> HIDE DEF T, Finds
    <3> QED
      BY <1>0, <1>2
  <2>2. Enc(x) \in Seq(Bytes) /\ <<x>> \in Seq(Recs)
    BY EncType
  <2>3. ASSUME NEW c \in Seq(Bytes), NEW from, Sound(c \o (Enc(x) \o b), from)
        PROVE  from[Len(c) + 1] = <<x>> \o rs
    <3> DEFINE d == c \o Enc(x)
    <3>1. c \o (Enc(x) \o b) = d \o b /\ d \in Seq(Bytes)
      <4> DEFINE e == Enc(x)
      <4>1. e \in Seq(Bytes)
        BY <2>2
      <4> HIDE DEF e
      <4>2. c \o (e \o b) = (c \o e) \o b /\ c \o e \in Seq(Bytes)
        BY <4>1
      <4> QED
        BY <4>2 DEF e
    <3>2. /\ Len(c) + 1 \in 1 .. Len(d \o b) + 1
          /\ Walk(d \o b, from, Len(c) + 1) = <<x>> \o from[Len(d) + 1]
      BY WalkRecord
    <3> HIDE DEF d
    <3>3. Sound(d \o b, from)
      BY <2>3, <3>1
    <3>4. from[Len(c) + 1] = Walk(d \o b, from, Len(c) + 1)
      BY <3>2, <3>3
    <3> HIDE DEF Sound
    <3>5. from[Len(d) + 1] = rs
      BY <2>1, <3>1, <3>3
    <3> QED
      BY <3>2, <3>4, <3>5
  <2> HIDE DEF Sound
  <2>4. Finds(Enc(x) \o b, <<x>> \o rs)
    BY <2>3
  <2>5. Enc(x) \o b \in Seq(Bytes) /\ <<x>> \o rs \in Seq(Recs)
    BY <2>2, ConcatProperties
  <2> HIDE DEF T, Finds
  <2> QED
    BY <1>0, <2>4, <2>5
<1>3. b0 \in Seq(Bytes) /\ rs0 \in Seq(Recs)
  BY CodedType
<1>4. Finds(b0, rs0)
  <2> HIDE DEF T, Finds
  <2>1. <<b0, rs0>> \in T
    BY <1>1, <1>2, CodedInduction
  <2> QED
    BY <1>0, <1>3, <2>1
<1>5. PICK from : process_records(b0) = from[1] /\ Sound(b0, from)
  BY <1>3, Processed
<1>6. <<>> \o b0 = b0 /\ <<>> \in Seq(Bytes) /\ Len(<<>>) + 1 = 1
  BY <1>3, ConcatEmptySeq, EmptySeq
<1> HIDE DEF Sound
<1>7. from[Len(<<>>) + 1] = rs0
  BY <1>4, <1>5, <1>6
<1> QED
  BY <1>5, <1>6, <1>7

-----------------------------------------------------------------------------
(* What is at the head of a ring of records, and what is left when it goes.   *)

\* Equal fronts leave equal rests.
LEMMA Cancel ==
  ASSUME NEW a \in Seq(Bytes), NEW b \in Seq(Bytes), NEW c \in Seq(Bytes), NEW d \in Seq(Bytes),
         a \o b = c \o d, Len(a) = Len(c)
  PROVE  a = c /\ b = d
<1>1. PICK s : s = a \o b /\ s = c \o d
  OBVIOUS
<1>2. /\ Len(s) = Len(a) + Len(b)
      /\ \A i \in 1 .. Len(a) : s[i] = a[i]
      /\ \A i \in 1 .. Len(b) : s[Len(a) + i] = b[i]
  <2>1. /\ Len(a \o b) = Len(a) + Len(b)
        /\ \A i \in 1 .. Len(a) : (a \o b)[i] = a[i]
        /\ \A i \in 1 .. Len(b) : (a \o b)[Len(a) + i] = b[i]
    BY ConcatParts
  <2> QED
    BY <1>1, <2>1, Zenon
<1>3. /\ Len(s) = Len(c) + Len(d)
      /\ \A i \in 1 .. Len(c) : s[i] = c[i]
      /\ \A i \in 1 .. Len(d) : s[Len(c) + i] = d[i]
  <2>1. /\ Len(c \o d) = Len(c) + Len(d)
        /\ \A i \in 1 .. Len(c) : (c \o d)[i] = c[i]
        /\ \A i \in 1 .. Len(d) : (c \o d)[Len(c) + i] = d[i]
    BY ConcatParts
  <2> QED
    BY <1>1, <2>1, Zenon
<1>4. Len(a) \in Nat /\ Len(b) \in Nat /\ Len(c) \in Nat /\ Len(d) \in Nat
  BY LenProperties
<1>5. Len(b) = Len(d)
  BY <1>2, <1>3, <1>4
<1>6. ASSUME NEW i \in 1 .. Len(a)
      PROVE  a[i] = c[i]
  BY <1>2, <1>3
<1>7. ASSUME NEW i \in 1 .. Len(b)
      PROVE  b[i] = d[i]
  <2>1. s[Len(a) + i] = b[i]
    BY <1>2
  <2>2. s[Len(c) + i] = d[i]
    BY <1>3, <1>5
  <2> QED
    BY <2>1, <2>2, Zenon
<1>8. a = c
  BY <1>6, SeqEqual
<1>9. b = d
  BY <1>5, <1>7, SeqEqual
<1> QED
  BY <1>8, <1>9

\* The ring is in order, and its bytes are the records rs.
Holding(r, rs) == r \in Rings /\ Coded(Contents(r), rs)

LEMMA HoldingType ==
  ASSUME NEW r, NEW rs, Holding(r, rs)
  PROVE  r \in Rings /\ rs \in Seq(Recs) /\ r.count \in Nat /\ r.count <= Size
<1>1. r \in Rings /\ Coded(Contents(r), rs)
  BY DEF Holding
<1>2. rs \in Seq(Recs)
  BY <1>1, CodedType
<1>3. r.count \in 0 .. Size
  BY <1>1 DEF Rings
<1>4. r.count \in Nat /\ r.count <= Size
  BY <1>3, SizeNat
<1> QED
  BY <1>1, <1>2, <1>4

\* The first two bytes, as head_len reads them.
LEMMA HeadRead ==
  ASSUME NEW r \in Rings, r.count >= 2
  PROVE  head_len(r) = IF Word(Contents(r)[1], Contents(r)[2]) = MarkerWord THEN 2
                       ELSE Word(Contents(r)[1], Contents(r)[2]) + 2
<1>1. PICK m \in [0 .. Size - 1 -> Bytes], h \in 0 .. Size - 1, c \in 0 .. Size,
           l \in BOOLEAN, q \in Nat :
        r = [mem |-> m, head |-> h, count |-> c, lost |-> l, silent |-> q]
  BY RingFields
<1>2. r.mem = m /\ r.head = h /\ r.count = c
  BY <1>1
<1>3. Size \in Nat /\ Size > 4
  BY SizeNat
<1>4. 1 \in 1 .. c /\ 2 \in 1 .. c
  BY <1>2, <1>3
<1>5. Contents(r)[1] = m[(h + 1 - 1) % Size] /\ Contents(r)[2] = m[(h + 2 - 1) % Size]
  BY <1>2, <1>4, ContentsType
<1>6. (h + 1 - 1) % Size = h /\ h + 2 - 1 = h + 1
  <2>1. h + 1 - 1 = h
    OBVIOUS
  <2>2. h % Size = h
    BY <1>3, OneTurn
  <2> QED
    BY <2>1, <2>2
<1>7. Contents(r)[1] = m[h] /\ Contents(r)[2] = m[(h + 1) % Size]
  BY <1>5, <1>6
<1>8. head_len(r) = IF Word(m[h], m[(h + 1) % Size]) = MarkerWord THEN 2
                    ELSE Word(m[h], m[(h + 1) % Size]) + 2
  BY <1>2 DEF head_len, Word, MarkerWord
<1> QED
  BY <1>7, <1>8, Zenon

\* A ring of records is empty, or a whole record is at its head and the rest of them
\* is left when that goes.
HeadIs(r, x, qs) ==
  /\ x \in Recs /\ qs \in Seq(Recs)
  /\ r.count >= 2 /\ head_len(r) \in 2 .. r.count /\ head_len(r) <= MaxLen + 2
  /\ (x = Gap <=> head_len(r) = 2)
  /\ Front(r, head_len(r)) = Enc(x)
  /\ Holding(copy_out(r, head_len(r)), qs)
  /\ copy_out(r, head_len(r)).count = r.count - head_len(r)
  /\ copy_out(r, head_len(r)).lost = r.lost /\ copy_out(r, head_len(r)).silent = r.silent

LEMMA HoldingHead ==
  ASSUME NEW r, NEW rs, Holding(r, rs)
  PROVE  \/ r.count = 0 /\ rs = <<>>
         \/ \E x, qs : rs = <<x>> \o qs /\ HeadIs(r, x, qs)
<1>1. r \in Rings /\ Coded(Contents(r), rs) /\ r.count \in Nat
  BY HoldingType DEF Holding
<1>2. /\ Contents(r) \in Seq(Bytes) /\ Len(Contents(r)) = r.count
  BY <1>1, ContentsType
<1>3. CASE Contents(r) = <<>> /\ rs = <<>>
  <2>1. r.count = 0
    BY <1>2, <1>3
  <2> QED
    BY <1>3, <2>1
<1>4. CASE \E x \in Recs, c \in Seq(Bytes), qs \in Seq(Recs) :
             Coded(c, qs) /\ Contents(r) = Enc(x) \o c /\ rs = <<x>> \o qs
  <2>1. PICK x \in Recs, c \in Seq(Bytes), qs \in Seq(Recs) :
             Coded(c, qs) /\ Contents(r) = Enc(x) \o c /\ rs = <<x>> \o qs
    BY <1>4
  <2>2. PICK e : e = Enc(x)
    OBVIOUS
  <2>3. /\ e \in Seq(Bytes) /\ Len(e) \in 2 .. MaxLen + 2
        /\ (IF x = Gap THEN Len(e) = 2 ELSE Len(e) = Len(x) + 2 /\ Len(e) >= 3)
        /\ Word(e[1], e[2]) = IF x = Gap THEN MarkerWord ELSE Len(x)
    BY <2>2, EncType
  <2>4. PICK n \in Nat : n = Len(e) /\ n >= 2 /\ n <= MaxLen + 2
    BY <2>3, IsoAssumption
  <2>5. PICK s : s = Contents(r) /\ s = e \o c
    BY <2>1, <2>2
  <2>6. /\ Len(s) = n + Len(c) /\ Len(c) \in Nat
        /\ \A i \in 1 .. n : s[i] = e[i]
    <3>1. /\ Len(e \o c) = Len(e) + Len(c)
          /\ \A i \in 1 .. Len(e) : (e \o c)[i] = e[i]
      BY <2>3, ConcatParts
    <3>2. Len(c) \in Nat
      BY LenProperties
    <3> QED
      BY <2>4, <2>5, <3>1, <3>2, Zenon
  <2>7. n <= r.count /\ n \in 1 .. r.count /\ n \in 2 .. r.count /\ r.count >= 2
    <3>1. r.count = n + Len(c)
      BY <1>2, <2>5, <2>6
    <3> QED
      BY <1>1, <2>4, <2>6, <3>1
  <2>8. s[1] = e[1] /\ s[2] = e[2]
    <3>1. 1 \in 1 .. n /\ 2 \in 1 .. n
      BY <2>4
    <3> QED
      BY <2>6, <3>1
  <2>9. head_len(r) = n
    <3>1. head_len(r) = IF Word(s[1], s[2]) = MarkerWord THEN 2 ELSE Word(s[1], s[2]) + 2
      BY <1>1, <2>5, <2>7, HeadRead, Zenon
    <3>2. CASE x = Gap
      <4>1. Word(s[1], s[2]) = MarkerWord /\ n = 2
        BY <2>3, <2>4, <2>8, <3>2
      <4> QED
        BY <3>1, <4>1
    <3>3. CASE x # Gap
      <4>1. Word(s[1], s[2]) = Len(x) /\ n = Len(x) + 2
        BY <2>3, <2>4, <2>8, <3>3
      <4>2. Len(x) # MarkerWord
        BY <3>3, RecPacket, WordOf
      <4> QED
        BY <3>1, <4>1, <4>2, Zenon
    <3> QED
      BY <3>2, <3>3
  <2>10. /\ copy_out(r, n) \in Rings /\ copy_out(r, n).count = r.count - n
         /\ copy_out(r, n).lost = r.lost /\ copy_out(r, n).silent = r.silent
         /\ Front(r, n) \in Seq(Bytes) /\ Len(Front(r, n)) = n
         /\ Contents(r) = Front(r, n) \o Contents(copy_out(r, n))
    BY <1>1, <2>7, CopyOut, Zenon
  <2>11. Front(r, n) = e /\ Contents(copy_out(r, n)) = c
    <3>1. PICK f, d : f = Front(r, n) /\ d = Contents(copy_out(r, n))
      OBVIOUS
    <3>2. f \in Seq(Bytes) /\ Len(f) = Len(e) /\ f \o d = e \o c
      BY <2>4, <2>5, <2>10, <3>1, Zenon
    <3>3. d \in Seq(Bytes) /\ e \in Seq(Bytes)
      BY <2>3, <2>10, <3>1, ContentsType, Zenon
    <3>4. f = e /\ d = c
      BY <3>2, <3>3, Cancel
    <3> QED
      BY <3>1, <3>4
  <2>12. Holding(copy_out(r, n), qs)
    BY <2>1, <2>10, <2>11, Zenon DEF Holding
  <2>13. x = Gap <=> n = 2
    BY <2>3, <2>4
  <2>14. HeadIs(r, x, qs)
    BY <2>1, <2>2, <2>4, <2>7, <2>9, <2>10, <2>11, <2>12, <2>13, Zenon DEF HeadIs
  <2> QED
    BY <2>1, <2>14
<1>5. \/ Contents(r) = <<>> /\ rs = <<>>
      \/ \E x \in Recs, c \in Seq(Bytes), qs \in Seq(Recs) :
           Coded(c, qs) /\ Contents(r) = Enc(x) \o c /\ rs = <<x>> \o qs
  <2>1. Begins(Contents(r), rs)
    BY <1>1, CodedHead, Zenon
  <2> QED
    BY <2>1, Zenon DEF Begins
<1> QED
  BY <1>3, <1>4, <1>5, Zenon

\* No bytes are no records.
LEMMA HoldingNone ==
  ASSUME NEW r \in Rings, r.count = 0
  PROVE  Holding(r, <<>>)
<1>1. Contents(r) \in Seq(Bytes) /\ Len(Contents(r)) = 0
  BY ContentsType
<1>2. Contents(r) = <<>>
  BY <1>1, EmptySeq
<1> QED
  BY <1>2, CodedEmpty DEF Holding

LEMMA EmptyHolding == EmptyRing \in Rings /\ Holding(EmptyRing, <<>>)
<1>1. EmptyRing \in Rings
  <2>1. 0 \in 0 .. Size - 1 /\ 0 \in 0 .. Size /\ 0 \in Bytes
    BY SizeNat DEF Bytes
  <2>2. [i \in 0 .. Size - 1 |-> 0] \in [0 .. Size - 1 -> Bytes]
    BY <2>1
  <2> QED
    BY <2>1, <2>2, RingOfFields DEF EmptyRing
<1>2. EmptyRing.count = 0
  BY DEF EmptyRing
<1> QED
  BY <1>1, <1>2, HoldingNone

\* A record goes in at the end, where there is room.
LEMMA HoldingAppend ==
  ASSUME NEW r, NEW rs, Holding(r, rs), NEW x \in Recs, r.count + Len(Enc(x)) <= Size
  PROVE  /\ Holding(copy_in(r, Enc(x)), rs \o <<x>>)
         /\ copy_in(r, Enc(x)).count = r.count + Len(Enc(x))
         /\ copy_in(r, Enc(x)).lost = r.lost /\ copy_in(r, Enc(x)).silent = r.silent
<1>1. r \in Rings /\ Coded(Contents(r), rs)
  BY DEF Holding
<1>2. Enc(x) \in Seq(Bytes)
  BY EncType
<1>3. /\ copy_in(r, Enc(x)) \in Rings
      /\ copy_in(r, Enc(x)).count = r.count + Len(Enc(x))
      /\ copy_in(r, Enc(x)).lost = r.lost /\ copy_in(r, Enc(x)).silent = r.silent
      /\ Contents(copy_in(r, Enc(x))) = Contents(r) \o Enc(x)
  BY <1>1, <1>2, CopyIn
<1>4. Coded(Contents(r) \o Enc(x), rs \o <<x>>)
  BY <1>1, CodedAppend
<1> QED
  BY <1>3, <1>4 DEF Holding

\* A marker goes in at the front.
LEMMA HoldingMarker ==
  ASSUME NEW r, NEW rs, Holding(r, rs), r.count + 2 <= Size
  PROVE  /\ Holding(PutMarker(r), <<Gap>> \o rs)
         /\ PutMarker(r).count = r.count + 2
         /\ PutMarker(r).lost = r.lost /\ PutMarker(r).silent = r.silent
<1>1. r \in Rings /\ Coded(Contents(r), rs)
  BY DEF Holding
<1>2. /\ PutMarker(r) \in Rings /\ PutMarker(r).count = r.count + 2
      /\ PutMarker(r).lost = r.lost /\ PutMarker(r).silent = r.silent
      /\ Contents(PutMarker(r)) = LostMarker \o Contents(r)
  BY <1>1, MarkerPut
<1>3. Gap \in Recs /\ Enc(Gap) = LostMarker
  BY DEF Recs, Enc
<1>4. Coded(LostMarker \o Contents(r), <<Gap>> \o rs)
  BY <1>1, <1>3, CodedCons
<1> QED
  BY <1>2, <1>4 DEF Holding

-----------------------------------------------------------------------------
(* Records in order, between one that came before them and one that comes next. *)

Follows(x, y) == x # Gap /\ y # Gap => y[1] = (x[1] + 1) % Ids

\* The records p, s and q as one: at 0, in between, and at Len(s) + 1.
Link(p, s, q, i) == IF i = 0 THEN p ELSE IF i = Len(s) + 1 THEN q ELSE s[i]
Path(p, s, q) == \A i \in 0 .. Len(s) : Follows(Link(p, s, q, i), Link(p, s, q, i + 1))

LEMMA PathNone ==
  ASSUME NEW p, NEW q
  PROVE  Path(p, <<>>, q) <=> Follows(p, q)
<1>1. Len(<<>>) = 0 /\ 0 .. 0 = {0}
  BY EmptySeq
<1>2. Link(p, <<>>, q, 0) = p /\ Link(p, <<>>, q, 0 + 1) = q
  BY <1>1 DEF Link
<1>3. Path(p, <<>>, q) <=> \A i \in {0} : Follows(Link(p, <<>>, q, i), Link(p, <<>>, q, i + 1))
  BY <1>1 DEF Path
<1> QED
  BY <1>2, <1>3

\* u is the sequence s, x, t.
Around(u, s, x, t) ==
  /\ u = s \o (<<x>> \o t) /\ Len(u) = Len(s) + 1 + Len(t)
  /\ \A i \in 1 .. Len(s) : u[i] = s[i]
  /\ u[Len(s) + 1] = x
  /\ \A j \in 1 .. Len(t) : u[Len(s) + 1 + j] = t[j]

LEMMA RecParts ==
  ASSUME NEW c \in Seq(Recs), NEW e \in Seq(Recs)
  PROVE  /\ c \o e \in Seq(Recs) /\ Len(c \o e) = Len(c) + Len(e)
         /\ \A i \in 1 .. Len(c) : (c \o e)[i] = c[i]
         /\ \A i \in 1 .. Len(e) : (c \o e)[Len(c) + i] = e[i]
BY SeqParts

LEMMA Middle ==
  ASSUME NEW s \in Seq(Recs), NEW x \in Recs, NEW t \in Seq(Recs)
  PROVE  Around(s \o (<<x>> \o t), s, x, t)
<1>0. <<x>> \in Seq(Recs) /\ Len(<<x>>) = 1 /\ <<x>>[1] = x /\ 1 \in 1 .. 1
  OBVIOUS
<1>1. PICK w : w = <<x>> \o t
  OBVIOUS
<1>2. /\ w \in Seq(Recs) /\ Len(w) = 1 + Len(t) /\ w[1] = x
      /\ \A j \in 1 .. Len(t) : w[1 + j] = t[j]
  <2>1. PICK v : v = <<x>>
    OBVIOUS
  <2>2. /\ v \o t \in Seq(Recs) /\ Len(v \o t) = Len(v) + Len(t)
        /\ \A i \in 1 .. Len(v) : (v \o t)[i] = v[i]
        /\ \A i \in 1 .. Len(t) : (v \o t)[Len(v) + i] = t[i]
    BY <1>0, <2>1, RecParts
  <2>3. v \o t = w /\ Len(v) = 1 /\ v[1] = x
    BY <1>0, <1>1, <2>1
  <2> QED
    BY <1>0, <2>2, <2>3, Zenon
<1>3. PICK u : u = s \o w
  OBVIOUS
<1>4. /\ u \in Seq(Recs) /\ Len(u) = Len(s) + Len(w)
      /\ \A i \in 1 .. Len(s) : u[i] = s[i]
      /\ \A j \in 1 .. Len(w) : u[Len(s) + j] = w[j]
  <2>1. w \in Seq(Recs)
    BY <1>2
  <2>2. /\ s \o w \in Seq(Recs) /\ Len(s \o w) = Len(s) + Len(w)
        /\ \A i \in 1 .. Len(s) : (s \o w)[i] = s[i]
        /\ \A i \in 1 .. Len(w) : (s \o w)[Len(s) + i] = w[i]
    BY <2>1, RecParts, Zenon
  <2> QED
    BY <1>3, <2>2, Zenon
<1>5. PICK m \in Nat, n \in Nat : m = Len(s) /\ n = Len(t)
  BY LenProperties
<1>6. u[m + 1] = x
  <2>1. 1 \in 1 .. Len(w)
    BY <1>2, <1>5
  <2> QED
    BY <1>2, <1>4, <1>5, <2>1
<1>7. ASSUME NEW j \in 1 .. n
      PROVE  u[m + 1 + j] = t[j]
  <2>1. 1 + j \in 1 .. Len(w) /\ m + 1 + j = m + (1 + j)
    BY <1>2, <1>5
  <2> QED
    BY <1>2, <1>4, <1>5, <2>1
<1>8. Len(u) = m + 1 + n
  BY <1>2, <1>4, <1>5
<1> QED
  BY <1>1, <1>3, <1>4, <1>5, <1>6, <1>7, <1>8, Zenon DEF Around

\* A path through x is a path to x and a path on from there.
LEMMA PathThrough ==
  ASSUME NEW p \in Recs, NEW q \in Recs,
         NEW s \in Seq(Recs), NEW x \in Recs, NEW t \in Seq(Recs)
  PROVE  Path(p, s \o (<<x>> \o t), q) <=> Path(p, s, x) /\ Path(x, t, q)
<1>0. PICK u : u = s \o (<<x>> \o t)
  OBVIOUS
<1>1. /\ u = s \o (<<x>> \o t) /\ Len(u) = Len(s) + 1 + Len(t)
      /\ \A i \in 1 .. Len(s) : u[i] = s[i]
      /\ u[Len(s) + 1] = x
      /\ \A j \in 1 .. Len(t) : u[Len(s) + 1 + j] = t[j]
  <2>1. Around(u, s, x, t)
    BY <1>0, Middle, Zenon
  <2> QED
    BY <2>1, Zenon DEF Around
<1>2. PICK m \in Nat, n \in Nat : m = Len(s) /\ n = Len(t)
  BY LenProperties
<1>3. ASSUME NEW i \in 0 .. m + 1
      PROVE  Link(p, u, q, i) = Link(p, s, x, i)
  <2>1. CASE i = 0
    BY <2>1 DEF Link
  <2>2. CASE i = m + 1
    BY <1>1, <1>2, <2>2 DEF Link
  <2>3. CASE i \in 1 .. m
    BY <1>1, <1>2, <2>3 DEF Link
  <2> QED
    BY <2>1, <2>2, <2>3
<1>4. ASSUME NEW j \in 0 .. n + 1
      PROVE  Link(p, u, q, m + 1 + j) = Link(x, t, q, j)
  <2>1. CASE j = 0
    BY <1>1, <1>2, <2>1 DEF Link
  <2>2. CASE j = n + 1
    BY <1>1, <1>2, <2>2 DEF Link
  <2>3. CASE j \in 1 .. n
    BY <1>1, <1>2, <2>3 DEF Link
  <2> QED
    BY <2>1, <2>2, <2>3
<1>5. ASSUME Path(p, u, q)
      PROVE  Path(p, s, x) /\ Path(x, t, q)
  <2>1. ASSUME NEW i \in 0 .. m
        PROVE  Follows(Link(p, s, x, i), Link(p, s, x, i + 1))
    <3>1. i \in 0 .. Len(u) /\ i \in 0 .. m + 1 /\ i + 1 \in 0 .. m + 1
      BY <1>1, <1>2
    <3>2. Follows(Link(p, u, q, i), Link(p, u, q, i + 1))
      BY <1>5, <3>1, Zenon DEF Path
    <3>3. Link(p, u, q, i) = Link(p, s, x, i) /\ Link(p, u, q, i + 1) = Link(p, s, x, i + 1)
      BY <1>3, <3>1, Zenon
    <3> QED
      BY <3>2, <3>3, Zenon
  <2>2. ASSUME NEW j \in 0 .. n
        PROVE  Follows(Link(x, t, q, j), Link(x, t, q, j + 1))
    <3>1. /\ m + 1 + j \in 0 .. Len(u) /\ j \in 0 .. n + 1 /\ j + 1 \in 0 .. n + 1
          /\ (m + 1 + j) + 1 = m + 1 + (j + 1)
      BY <1>1, <1>2
    <3>2. Follows(Link(p, u, q, m + 1 + j), Link(p, u, q, (m + 1 + j) + 1))
      BY <1>5, <3>1, Zenon DEF Path
    <3>3. Link(p, u, q, m + 1 + j) = Link(x, t, q, j)
      BY <1>4, <3>1, Zenon
    <3>4. Link(p, u, q, m + 1 + (j + 1)) = Link(x, t, q, j + 1)
      BY <1>4, <3>1, Zenon
    <3>5. Link(p, u, q, (m + 1 + j) + 1) = Link(x, t, q, j + 1)
      BY <3>1, <3>4, Zenon
    <3> QED
      BY <3>2, <3>3, <3>5, Zenon
  <2> QED
    BY <1>2, <2>1, <2>2, Zenon DEF Path
<1>6. ASSUME Path(p, s, x), Path(x, t, q)
      PROVE  Path(p, u, q)
  <2>1. ASSUME NEW k \in 0 .. Len(u)
        PROVE  Follows(Link(p, u, q, k), Link(p, u, q, k + 1))
    <3>1. CASE k \in 0 .. m
      <4>1. k \in 0 .. m + 1 /\ k + 1 \in 0 .. m + 1
        BY <3>1
      <4>2. Follows(Link(p, s, x, k), Link(p, s, x, k + 1))
        BY <1>2, <1>6, <3>1, Zenon DEF Path
      <4>3. Link(p, u, q, k) = Link(p, s, x, k) /\ Link(p, u, q, k + 1) = Link(p, s, x, k + 1)
        BY <1>3, <4>1, Zenon
      <4> QED
        BY <4>2, <4>3, Zenon
    <3>2. CASE k \notin 0 .. m
      <4>1. PICK j \in 0 .. n : k = m + 1 + j
        <5>1. k - (m + 1) \in 0 .. n /\ k = m + 1 + (k - (m + 1))
          <6>1. k \in 0 .. m + 1 + n
            BY <1>1, <1>2
          <6> QED
            BY <3>2, <6>1
        <5> QED
          BY <5>1
      <4>2. j \in 0 .. n + 1 /\ j + 1 \in 0 .. n + 1 /\ k + 1 = m + 1 + (j + 1)
        BY <4>1
      <4>3. Follows(Link(x, t, q, j), Link(x, t, q, j + 1))
        BY <1>2, <1>6, Zenon DEF Path
      <4>4. Link(p, u, q, m + 1 + j) = Link(x, t, q, j)
        BY <1>4, <4>2, Zenon
      <4>5. Link(p, u, q, m + 1 + (j + 1)) = Link(x, t, q, j + 1)
        BY <1>4, <4>2, Zenon
      <4> QED
        BY <4>1, <4>2, <4>3, <4>4, <4>5, Zenon
    <3> QED
      BY <3>1, <3>2
  <2> QED
    BY <2>1, Zenon DEF Path
<1> QED
  BY <1>1, <1>5, <1>6, Zenon

\* Where a path ends, it may as well end in a gap or in a record of the same number;
\* and so where it begins.
LEMMA PathEnds ==
  ASSUME NEW p \in Recs, NEW p2 \in Recs, NEW q \in Recs, NEW q2 \in Recs, NEW s \in Seq(Recs),
         Path(p, s, q),
         p2 = Gap \/ (p # Gap /\ p2[1] = p[1]),
         q2 = Gap \/ (q # Gap /\ q2[1] = q[1])
  PROVE  Path(p2, s, q2)
<1>1. PICK n \in Nat : n = Len(s)
  BY LenProperties
<1>2. ASSUME NEW i \in 0 .. n
      PROVE  Follows(Link(p2, s, q2, i), Link(p2, s, q2, i + 1))
  <2>1. Follows(Link(p, s, q, i), Link(p, s, q, i + 1))
    BY <1>1, Zenon DEF Path
  <2>2. Link(p2, s, q2, i) # Gap =>
           Link(p, s, q, i) # Gap /\ Link(p, s, q, i)[1] = Link(p2, s, q2, i)[1]
    <3>1. CASE i = 0
      BY <3>1 DEF Link
    <3>2. CASE i # 0
      <4>1. i # n + 1
        OBVIOUS
      <4>2. Link(p, s, q, i) = s[i] /\ Link(p2, s, q2, i) = s[i]
        BY <1>1, <3>2, <4>1 DEF Link
      <4> QED
        BY <4>2
    <3> QED
      BY <3>1, <3>2
  <2>3. Link(p2, s, q2, i + 1) # Gap =>
           Link(p, s, q, i + 1) # Gap /\ Link(p, s, q, i + 1)[1] = Link(p2, s, q2, i + 1)[1]
    <3>1. i + 1 # 0
      OBVIOUS
    <3>2. CASE i + 1 = n + 1
      <4>1. Link(p, s, q, i + 1) = q /\ Link(p2, s, q2, i + 1) = q2
        BY <1>1, <3>1, <3>2 DEF Link
      <4> QED
        BY <4>1
    <3>3. CASE i + 1 # n + 1
      <4>2. Link(p, s, q, i + 1) = s[i + 1] /\ Link(p2, s, q2, i + 1) = s[i + 1]
        BY <1>1, <3>1, <3>3 DEF Link
      <4> QED
        BY <4>2
    <3> QED
      BY <3>2, <3>3
  <2> QED
    BY <2>1, <2>2, <2>3, Zenon DEF Follows
<1> QED
  BY <1>1, <1>2, Zenon DEF Path

LEMMA GapFollows ==
  ASSUME NEW x
  PROVE  Follows(Gap, x) /\ Follows(x, Gap)
BY DEF Follows

\* A packet gives way to a gap ...
LEMMA PathGap ==
  ASSUME NEW p \in Recs, NEW q \in Recs, NEW x \in Recs, NEW s \in Seq(Recs), NEW t \in Seq(Recs),
         Path(p, s \o (<<x>> \o t), q)
  PROVE  Path(p, s \o (<<Gap>> \o t), q)
<1>1. Gap \in Recs
  BY DEF Recs
<1>2. Path(p, s, x) /\ Path(x, t, q)
  BY PathThrough, Zenon
<1>3. Path(p, s, Gap)
  <2>1. p = Gap \/ (p # Gap /\ p[1] = p[1])
    OBVIOUS
  <2> QED
    BY <1>1, <1>2, <2>1, PathEnds, Zenon
<1>4. Path(Gap, t, q)
  <2>1. q = Gap \/ (q # Gap /\ q[1] = q[1])
    OBVIOUS
  <2> QED
    BY <1>1, <1>2, <2>1, PathEnds, Zenon
<1> QED
  BY <1>1, <1>3, <1>4, PathThrough, Zenon

\* ... and a gap takes the packet behind it along.
LEMMA PathMerge ==
  ASSUME NEW p \in Recs, NEW q \in Recs, NEW x \in Recs, NEW s \in Seq(Recs), NEW t \in Seq(Recs),
         Path(p, s \o (<<Gap>> \o (<<x>> \o t)), q)
  PROVE  Path(p, s \o (<<Gap>> \o t), q)
<1>1. Gap \in Recs /\ <<x>> \o t \in Seq(Recs) /\ <<>> \in Seq(Recs)
  BY DEF Recs
<1>2. Path(p, s, Gap) /\ Path(Gap, <<x>> \o t, q)
  BY <1>1, PathThrough, Zenon
<1>3. Path(x, t, q)
  <2>1. <<>> \o (<<x>> \o t) = <<x>> \o t
    BY <1>1, ConcatEmptySeq, Zenon
  <2>2. Path(Gap, <<>> \o (<<x>> \o t), q)
    BY <1>2, <2>1, Zenon
  <2> QED
    BY <1>1, <2>2, PathThrough, Zenon
<1>4. Path(Gap, t, q)
  <2>1. q = Gap \/ (q # Gap /\ q[1] = q[1])
    OBVIOUS
  <2> QED
    BY <1>1, <1>3, <2>1, PathEnds, Zenon
<1> QED
  BY <1>1, <1>2, <1>4, PathThrough, Zenon

\* One more at the end.
LEMMA PathAppend ==
  ASSUME NEW p \in Recs, NEW q \in Recs, NEW x \in Recs, NEW s \in Seq(Recs),
         Path(p, s, x), Follows(x, q)
  PROVE  Path(p, s \o <<x>>, q)
<1>1. <<>> \in Seq(Recs)
  OBVIOUS
<1>2. Path(x, <<>>, q)
  BY PathNone, Zenon
<1>3. <<x>> \o <<>> = <<x>>
  OBVIOUS
<1>4. Path(p, s \o (<<x>> \o <<>>), q)
  BY <1>1, <1>2, PathThrough, Zenon
<1> QED
  BY <1>3, <1>4, Zenon

-----------------------------------------------------------------------------
(* The stream through a ring: p came last, R is under way to the application, *)
(* the records of the ring r are next, and q is what will come after them.    *)

Carries(p, R, r, q) ==
  /\ p \in Recs /\ q \in Recs /\ R \in Seq(Recs)
  /\ \E rs : Holding(r, rs) /\ Path(p, R \o rs, q)

LEMMA CarriesType ==
  ASSUME NEW p, NEW R, NEW r, NEW q, Carries(p, R, r, q)
  PROVE  /\ p \in Recs /\ q \in Recs /\ R \in Seq(Recs) /\ r \in Rings
         /\ r.count \in Nat /\ r.count <= Size
<1>1. PICK rs : Holding(r, rs)
  BY DEF Carries
<1> QED
  BY <1>1, HoldingType DEF Carries

\* The flags and the silence are apart from the bytes.
LEMMA Apart ==
  ASSUME NEW p, NEW R, NEW r, NEW q, Carries(p, R, r, q),
         NEW r2 \in Rings, Contents(r2) = Contents(r)
  PROVE  Carries(p, R, r2, q)
<1>1. PICK rs : Holding(r, rs) /\ Path(p, R \o rs, q)
  BY DEF Carries
<1>2. Coded(Contents(r), rs)
  BY <1>1 DEF Holding
<1>3. Holding(r2, rs)
  BY <1>2, Zenon DEF Holding
<1> QED
  BY <1>1, <1>3, Zenon DEF Carries

LEMMA LostApart ==
  ASSUME NEW p, NEW R, NEW r, NEW q, Carries(p, R, r, q), NEW b \in BOOLEAN,
         NEW r2, r2 = [r EXCEPT !.lost = b]
  PROVE  Carries(p, R, r2, q) /\ r2.lost = b
<1>1. PICK m \in [0 .. Size - 1 -> Bytes], h \in 0 .. Size - 1, c \in 0 .. Size,
           l \in BOOLEAN, s \in Nat :
        r = [mem |-> m, head |-> h, count |-> c, lost |-> l, silent |-> s]
  <2>1. r \in Rings
    BY CarriesType
  <2> QED
    BY <2>1, RingFields
<1>2. r2 = [mem |-> m, head |-> h, count |-> c, lost |-> b, silent |-> s]
  BY <1>1
<1>3. r2 \in Rings
  <2>1. [mem |-> m, head |-> h, count |-> c, lost |-> b, silent |-> s] \in Rings
    BY RingOfFields, Zenon
  <2> QED
    BY <1>2, <2>1, Zenon
<1>4. r2.mem = r.mem /\ r2.head = r.head /\ r2.count = r.count /\ r2.lost = b
  BY <1>1, <1>2
<1>5. Contents(r2) = Contents(r)
  BY <1>4 DEF Contents, Front
<1>6. Carries(p, R, r2, q)
  BY <1>3, <1>5, Apart, Zenon
<1> QED
  BY <1>4, <1>6

LEMMA SilentApart ==
  ASSUME NEW p, NEW R, NEW r, NEW q, Carries(p, R, r, q), NEW k \in Nat,
         NEW r2, r2 = [r EXCEPT !.silent = k]
  PROVE  Carries(p, R, r2, q) /\ r2.lost = r.lost
<1>1. PICK m \in [0 .. Size - 1 -> Bytes], h \in 0 .. Size - 1, c \in 0 .. Size,
           l \in BOOLEAN, s \in Nat :
        r = [mem |-> m, head |-> h, count |-> c, lost |-> l, silent |-> s]
  <2>1. r \in Rings
    BY CarriesType
  <2> QED
    BY <2>1, RingFields
<1>2. r2 = [mem |-> m, head |-> h, count |-> c, lost |-> l, silent |-> k]
  BY <1>1
<1>3. r2 \in Rings
  <2>1. [mem |-> m, head |-> h, count |-> c, lost |-> l, silent |-> k] \in Rings
    BY RingOfFields, Zenon
  <2> QED
    BY <1>2, <2>1, Zenon
<1>4. r2.mem = r.mem /\ r2.head = r.head /\ r2.count = r.count /\ r2.lost = r.lost
  BY <1>1, <1>2
<1>5. Contents(r2) = Contents(r)
  BY <1>4 DEF Contents, Front
<1>6. Carries(p, R, r2, q)
  BY <1>3, <1>5, Apart, Zenon
<1> QED
  BY <1>4, <1>6

\* Dropping the oldest makes room, and leaves a marker.
LEMMA CarriesDrop ==
  ASSUME NEW p, NEW R, NEW r, NEW q, Carries(p, R, r, q), r.count >= 3
  PROVE  /\ Carries(p, R, drop_oldest(r), q)
         /\ drop_oldest(r).count < r.count
         /\ drop_oldest(r).lost = r.lost /\ drop_oldest(r).silent = r.silent
<1>1. PICK rs : Holding(r, rs) /\ Path(p, R \o rs, q)
  BY DEF Carries
<1>2. p \in Recs /\ q \in Recs /\ R \in Seq(Recs)
  BY DEF Carries
<1>3. r.count \in Nat /\ r.count <= Size /\ ~(r.count < 2) /\ r.count # 0 /\ Size \in Nat
  BY CarriesType, SizeNat
<1>4. PICK x, qs : rs = <<x>> \o qs /\ HeadIs(r, x, qs)
  BY <1>1, <1>3, HoldingHead, Zenon
<1>5. /\ x \in Recs /\ qs \in Seq(Recs) /\ head_len(r) \in 2 .. r.count
      /\ (x = Gap <=> head_len(r) = 2)
      /\ Holding(copy_out(r, head_len(r)), qs)
      /\ copy_out(r, head_len(r)).count = r.count - head_len(r)
      /\ copy_out(r, head_len(r)).lost = r.lost /\ copy_out(r, head_len(r)).silent = r.silent
  BY <1>4, Zenon DEF HeadIs
<1>6. Holds(r, head_len(r)) /\ head_len(r) \in Nat /\ head_len(r) >= 2 /\ head_len(r) <= r.count
  BY <1>3, <1>5 DEF Holds
<1>7. Path(p, R \o (<<x>> \o qs), q)
  BY <1>1, <1>4, Zenon
<1>8. CASE x # Gap
  <2>1. PICK s : s = copy_out(r, head_len(r))
    OBVIOUS
  <2>2. drop_oldest(r) = PutMarker(s)
    BY <1>3, <1>5, <1>6, <1>8, <2>1, Zenon DEF drop_oldest
  <2>3. s.count + 2 < r.count /\ s.count + 2 <= Size
    <3>1. s.count = r.count - head_len(r) /\ head_len(r) # 2
      BY <1>5, <1>8, <2>1
    <3> QED
      BY <1>3, <1>6, <3>1
  <2>4. Holding(s, qs) /\ s.lost = r.lost /\ s.silent = r.silent
    BY <1>5, <2>1, Zenon
  <2>5. /\ Holding(PutMarker(s), <<Gap>> \o qs) /\ PutMarker(s).count = s.count + 2
        /\ PutMarker(s).lost = s.lost /\ PutMarker(s).silent = s.silent
    BY <2>3, <2>4, HoldingMarker, Zenon
  <2>6. Path(p, R \o (<<Gap>> \o qs), q)
    BY <1>2, <1>5, <1>7, PathGap, Zenon
  <2>7. Carries(p, R, PutMarker(s), q)
    BY <1>2, <2>5, <2>6, Zenon DEF Carries
  <2> QED
    BY <2>2, <2>3, <2>4, <2>5, <2>7, Zenon
<1>9. CASE x = Gap
  <2>1. PICK s : s = copy_out(r, 2)
    OBVIOUS
  <2>2. head_len(r) = 2
    BY <1>5, <1>9
  <2>3. Holding(s, qs) /\ s.count = r.count - 2 /\ s.lost = r.lost /\ s.silent = r.silent
    BY <1>5, <2>1, <2>2, Zenon
  <2>4. s.count # 0
    BY <1>3, <2>3
  <2>5. PICK y, ys : qs = <<y>> \o ys /\ HeadIs(s, y, ys)
    BY <2>3, <2>4, HoldingHead, Zenon
  <2>6. /\ y \in Recs /\ ys \in Seq(Recs) /\ s.count >= 2 /\ head_len(s) \in 2 .. s.count
        /\ Holding(copy_out(s, head_len(s)), ys)
        /\ copy_out(s, head_len(s)).count = s.count - head_len(s)
        /\ copy_out(s, head_len(s)).lost = s.lost /\ copy_out(s, head_len(s)).silent = s.silent
    BY <2>5, Zenon DEF HeadIs
  <2>7. Holds(s, head_len(s)) /\ ~(s.count < 2) /\ head_len(s) \in Nat /\ head_len(s) >= 2
        /\ head_len(s) <= s.count /\ s.count \in Nat
    BY <1>3, <2>3, <2>6 DEF Holds
  <2>8. PICK t : t = copy_out(s, head_len(s))
    OBVIOUS
  <2>9. drop_oldest(r) = PutMarker(t)
    BY <1>3, <1>6, <2>1, <2>2, <2>7, <2>8, Zenon DEF drop_oldest
  <2>10. Holding(t, ys) /\ t.count = s.count - head_len(s) /\ t.lost = s.lost /\ t.silent = s.silent
    BY <2>6, <2>8, Zenon
  <2>11. t.count + 2 < r.count /\ t.count + 2 <= Size
    BY <1>3, <2>3, <2>7, <2>10
  <2>12. /\ Holding(PutMarker(t), <<Gap>> \o ys) /\ PutMarker(t).count = t.count + 2
         /\ PutMarker(t).lost = t.lost /\ PutMarker(t).silent = t.silent
    BY <2>10, <2>11, HoldingMarker, Zenon
  <2>13. Path(p, R \o (<<Gap>> \o ys), q)
    <3>1. Path(p, R \o (<<Gap>> \o (<<y>> \o ys)), q)
      BY <1>7, <1>9, <2>5, Zenon
    <3> QED
      BY <1>2, <2>6, <3>1, PathMerge, Zenon
  <2>14. Carries(p, R, PutMarker(t), q)
    BY <1>2, <2>12, <2>13, Zenon DEF Carries
  <2> QED
    BY <2>3, <2>9, <2>10, <2>11, <2>12, <2>14, Zenon
<1> QED
  BY <1>8, <1>9

\* A gap at the end, where what comes next may be anything ...
LEMMA CarriesGap ==
  ASSUME NEW p, NEW R, NEW r, NEW q, Carries(p, R, r, q), NEW q2 \in Recs, r.count + 2 <= Size
  PROVE  /\ Carries(p, R, copy_in(r, LostMarker), q2)
         /\ copy_in(r, LostMarker).count = r.count + 2
         /\ copy_in(r, LostMarker).lost = r.lost
<1>1. PICK rs : Holding(r, rs) /\ Path(p, R \o rs, q)
  BY DEF Carries
<1>2. p \in Recs /\ q \in Recs /\ R \in Seq(Recs) /\ rs \in Seq(Recs)
  BY <1>1, HoldingType DEF Carries
<1>3. Gap \in Recs /\ Enc(Gap) = LostMarker /\ Len(LostMarker) = 2
  BY DEF Recs, Enc, LostMarker
<1>4. r.count + Len(Enc(Gap)) <= Size
  BY <1>3
<1>5. /\ Holding(copy_in(r, LostMarker), rs \o <<Gap>>)
      /\ copy_in(r, LostMarker).count = r.count + 2
      /\ copy_in(r, LostMarker).lost = r.lost
  BY <1>1, <1>3, <1>4, HoldingAppend, Zenon
<1>6. R \o rs \in Seq(Recs) /\ R \o (rs \o <<Gap>>) = (R \o rs) \o <<Gap>>
  BY <1>2, <1>3
<1>7. Path(p, R \o rs, Gap)
  <2>1. p = Gap \/ (p # Gap /\ p[1] = p[1])
    OBVIOUS
  <2> QED
    BY <1>1, <1>2, <1>3, <1>6, <2>1, PathEnds, Zenon
<1>8. Path(p, (R \o rs) \o <<Gap>>, q2)
  BY <1>2, <1>3, <1>6, <1>7, GapFollows, PathAppend, Zenon
<1>9. Path(p, R \o (rs \o <<Gap>>), q2)
  BY <1>6, <1>8, Zenon
<1> QED
  BY <1>2, <1>5, <1>9, Zenon DEF Carries

\* q stands for a packet that has the number of x.
Numbers(x, q) == q # Gap /\ x[1] = q[1]
Fits(r, x) == r.count + Len(Enc(x)) <= Size

\* ... and a packet, which is the one that was to come.
LEMMA CarriesPacket ==
  ASSUME NEW p, NEW R, NEW r, NEW q, Carries(p, R, r, q), NEW x \in Recs, NEW q2 \in Recs,
         x # Gap, Numbers(x, q), Follows(x, q2), Fits(r, x)
  PROVE  /\ Carries(p, R, copy_in(r, Enc(x)), q2)
         /\ copy_in(r, Enc(x)).lost = r.lost
<1>1. PICK rs : Holding(r, rs) /\ Path(p, R \o rs, q)
  BY DEF Carries
<1>2. p \in Recs /\ q \in Recs /\ R \in Seq(Recs) /\ rs \in Seq(Recs)
  BY <1>1, HoldingType DEF Carries
<1>5. /\ Holding(copy_in(r, Enc(x)), rs \o <<x>>)
      /\ copy_in(r, Enc(x)).lost = r.lost
  BY <1>1, HoldingAppend, Zenon DEF Fits
<1>6. R \o rs \in Seq(Recs) /\ R \o (rs \o <<x>>) = (R \o rs) \o <<x>>
  BY <1>2
<1>7. Path(p, R \o rs, x)
  <2>1. p = Gap \/ (p # Gap /\ p[1] = p[1])
    OBVIOUS
  <2>2. x = Gap \/ (q # Gap /\ x[1] = q[1])
    BY DEF Numbers
  <2>3. R \o rs \in Seq(Recs)
    BY <1>6
  <2> QED
    BY <1>1, <1>2, <2>1, <2>2, <2>3, PathEnds, Zenon
<1>8. Path(p, (R \o rs) \o <<x>>, q2)
  BY <1>2, <1>6, <1>7, PathAppend, Zenon
<1>9. Path(p, R \o (rs \o <<x>>), q2)
  BY <1>6, <1>8, Zenon
<1> QED
  BY <1>2, <1>5, <1>9, Zenon DEF Carries

-----------------------------------------------------------------------------
(* The loops: making room, and handing over.                                  *)

\* A function that keeps to a set can be followed from one of its members.
Followed(g, D, r, n) == g = [k \in 0 .. n |-> IF k = 0 THEN r ELSE D[g[k - 1]]]

LEMMA Iterates ==
  ASSUME NEW S, NEW n \in Nat, NEW D \in [S -> S], NEW r \in S
  PROVE  \E g : Followed(g, D, r, n) /\ \A k \in 0 .. n : g[k] \in S
<1> DEFINE Sound(g, j) == g[0] = r /\ \A i \in 1 .. j : g[i] = D[g[i - 1]]
           T == {j \in 0 .. n : \E g \in [0 .. n -> S] : Sound(g, j)}
<1>1. 0 \in T
  <2> DEFINE g == [k \in 0 .. n |-> r]
  <2>1. g \in [0 .. n -> S] /\ g[0] = r /\ 1 .. 0 = {}
    OBVIOUS
  <2> HIDE DEF g
  <2>2. Sound(g, 0)
    BY <2>1
  <2> QED
    BY <2>1, <2>2
<1>2. ASSUME NEW j \in 0 .. n - 1, j \in T
      PROVE  j + 1 \in T
  <2>1. PICK g \in [0 .. n -> S] : Sound(g, j)
    BY <1>2
  <2> DEFINE h == [k \in 0 .. n |-> IF k = j + 1 THEN D[g[j]] ELSE g[k]]
  <2>2. h \in [0 .. n -> S]
    <3>1. g[j] \in S
      OBVIOUS
    <3>2. D[g[j]] \in S
      BY <3>1
    <3> QED
      BY <3>2
  <2>3. \A k \in 0 .. n : h[k] = IF k = j + 1 THEN D[g[j]] ELSE g[k]
    OBVIOUS
  <2> HIDE DEF h
  <2>4. h[0] = r
    <3>1. 0 \in 0 .. n /\ 0 # j + 1
      OBVIOUS
    <3> QED
      BY <2>1, <2>3, <3>1
  <2>5. ASSUME NEW i \in 1 .. j + 1
        PROVE  h[i] = D[h[i - 1]]
    <3>1. i \in 0 .. n /\ i - 1 \in 0 .. n /\ i - 1 # j + 1
      OBVIOUS
    <3>2. h[i - 1] = g[i - 1] /\ h[i] = IF i = j + 1 THEN D[g[j]] ELSE g[i]
      BY <2>3, <3>1
    <3>3. CASE i = j + 1
      <4>1. i - 1 = j
        BY <3>3
      <4> QED
        BY <3>2, <3>3, <4>1
    <3>4. CASE i # j + 1
      <4>1. i \in 1 .. j
        BY <3>4
      <4>2. g[i] = D[g[i - 1]]
        BY <2>1, <4>1
      <4> QED
        BY <3>2, <3>4, <4>2
    <3> QED
      BY <3>3, <3>4
  <2>6. Sound(h, j + 1)
    BY <2>4, <2>5
  <2> HIDE DEF Sound
  <2>7. j + 1 \in 0 .. n
    OBVIOUS
  <2> QED
    BY <2>2, <2>6, <2>7
<1>3. n \in T
  <2> HIDE DEF T
  <2>1. 0 .. n \subseteq T
    BY <1>1, <1>2, Ascend
  <2> QED
    BY <2>1
<1>4. PICK g \in [0 .. n -> S] : Sound(g, n)
  BY <1>3
<1>5. ASSUME NEW k \in 0 .. n
      PROVE  g[k] = IF k = 0 THEN r ELSE D[g[k - 1]]
  <2>1. CASE k = 0
    BY <1>4, <2>1
  <2>2. CASE k # 0
    <3>1. k \in 1 .. n
      BY <2>2
    <3> QED
      BY <1>4, <2>2, <3>1
  <2> QED
    BY <2>1, <2>2
<1>6. Followed(g, D, r, n)
  <2>1. g = [k \in 0 .. n |-> g[k]]
    OBVIOUS
  <2>2. [k \in 0 .. n |-> g[k]] = [k \in 0 .. n |-> IF k = 0 THEN r ELSE D[g[k - 1]]]
    BY <1>5
  <2> QED
    BY <2>1, <2>2 DEF Followed
<1>7. \A k \in 0 .. n : g[k] \in S
  OBVIOUS
<1> QED
  BY <1>6, <1>7

\* One turn of the loop that makes room, and the whole of it.
Dropped(s, n) == IF s.count + n > Size THEN drop_oldest(s) ELSE s
Rooms(g, r, n) == g = [k \in 0 .. Size |-> IF k = 0 THEN r ELSE Dropped(g[k - 1], n)]

LEMMA RoomForIs ==
  ASSUME NEW r, NEW n, NEW g, Rooms(g, r, n)
  PROVE  \E h : Rooms(h, r, n) /\ RoomFor(r, n) = h[Size]
<1> DEFINE h == CHOOSE f : Rooms(f, r, n)
<1>1. RoomFor(r, n) = h[Size]
  BY DEF RoomFor, Rooms, Dropped
<1>2. Rooms(h, r, n)
  BY Zenon
<1> QED
  BY <1>1, <1>2

LEMMA CarriesRoom ==
  ASSUME NEW p, NEW R, NEW r, NEW q, Carries(p, R, r, q), NEW n \in Nat, n + 2 <= Size
  PROVE  /\ Carries(p, R, RoomFor(r, n), q)
         /\ RoomFor(r, n).count + n <= Size
         /\ RoomFor(r, n).lost = r.lost
<1> DEFINE S == {s \in Rings : Carries(p, R, s, q) /\ s.lost = r.lost}
           D == [s \in S |-> Dropped(s, n)]
<1>0. Size \in Nat
  BY SizeNat
<1>1. ASSUME NEW s \in S
      PROVE  /\ s.count \in Nat /\ s.count <= Size
             /\ Dropped(s, n) \in S
             /\ s.count + n <= Size => Dropped(s, n) = s
             /\ ~(s.count + n <= Size) => Dropped(s, n).count < s.count
  <2>1. Carries(p, R, s, q) /\ s.lost = r.lost
    OBVIOUS
  <2>2. s.count \in Nat /\ s.count <= Size
    BY <2>1, CarriesType
  <2>3. CASE s.count + n <= Size
    <3>1. ~(s.count + n > Size)
      BY <1>0, <2>2, <2>3
    <3>2. Dropped(s, n) = s
      BY <3>1, Zenon DEF Dropped
    <3> QED
      BY <2>2, <2>3, <3>2
  <2>4. CASE ~(s.count + n <= Size)
    <3>1. s.count + n > Size /\ s.count >= 3
      BY <1>0, <2>2, <2>4
    <3>2. Dropped(s, n) = drop_oldest(s)
      BY <3>1, Zenon DEF Dropped
    <3>3. /\ Carries(p, R, drop_oldest(s), q)
          /\ drop_oldest(s).count < s.count /\ drop_oldest(s).lost = s.lost
      BY <2>1, <3>1, CarriesDrop, Zenon
    <3>4. drop_oldest(s) \in Rings
      BY <3>3, CarriesType, Zenon
    <3>5. drop_oldest(s) \in S
      BY <2>1, <3>3, <3>4, Zenon
    <3> QED
      BY <2>2, <2>4, <3>2, <3>3, <3>5, Zenon
  <2> QED
    BY <2>3, <2>4
<1>2. r \in S
  <2>1. r \in Rings
    BY CarriesType
  <2> QED
    BY <2>1
<1>3. D \in [S -> S]
  BY <1>1
<1>4. \A s \in S : D[s] = Dropped(s, n)
  OBVIOUS
<1> HIDE DEF S, D
<1>5. PICK g : Followed(g, D, r, Size) /\ \A k \in 0 .. Size : g[k] \in S
  BY <1>0, <1>2, <1>3, Iterates
<1>6. Rooms(g, r, n)
  <2>1. ASSUME NEW k \in 0 .. Size
        PROVE  (IF k = 0 THEN r ELSE D[g[k - 1]]) = IF k = 0 THEN r ELSE Dropped(g[k - 1], n)
    <3>1. CASE k = 0
      BY <3>1
    <3>2. CASE k # 0
      <4>1. k - 1 \in 0 .. Size
        BY <1>0, <3>2
      <4>2. D[g[k - 1]] = Dropped(g[k - 1], n)
        BY <1>4, <1>5, <4>1, Zenon
      <4> QED
        BY <3>2, <4>2, Zenon
    <3> QED
      BY <3>1, <3>2
  <2> QED
    BY <1>5, <2>1 DEF Followed, Rooms
<1>7. PICK h : Rooms(h, r, n) /\ RoomFor(r, n) = h[Size]
  BY <1>6, RoomForIs, Zenon
<1> DEFINE T == {k \in 0 .. Size : h[k] \in S /\ (h[k].count + n <= Size \/ h[k].count + k <= Size)}
<1>8. \A k \in 0 .. Size : h[k] = IF k = 0 THEN r ELSE Dropped(h[k - 1], n)
  BY <1>7 DEF Rooms
<1>9. 0 \in T
  <2>1. h[0] = r /\ 0 \in 0 .. Size
    BY <1>0, <1>8
  <2>2. r.count + 0 <= Size
    BY <1>0, <1>1, <1>2
  <2> QED
    BY <1>2, <2>1, <2>2
<1>10. ASSUME NEW k \in 0 .. Size - 1, k \in T
       PROVE  k + 1 \in T
  <2>1. PICK s : s = h[k]
    OBVIOUS
  <2>2. s \in S /\ (s.count + n <= Size \/ s.count + k <= Size)
    BY <1>10, <2>1
  <2>3. h[k + 1] = Dropped(s, n) /\ k + 1 \in 0 .. Size
    <3>1. k + 1 \in 0 .. Size /\ k + 1 # 0 /\ (k + 1) - 1 = k
      BY <1>0
    <3> QED
      BY <1>8, <2>1, <3>1
  <2>4. PICK t : t = Dropped(s, n)
    OBVIOUS
  <2>5. /\ t \in S /\ (s.count + n <= Size => t = s)
        /\ (~(s.count + n <= Size) => t.count < s.count)
    BY <1>1, <2>2, <2>4, Zenon
  <2>6. s.count \in Nat /\ t.count \in Nat
    BY <1>1, <2>2, <2>5, Zenon
  <2>7. t.count + n <= Size \/ t.count + (k + 1) <= Size
    BY <1>0, <2>2, <2>5, <2>6
  <2> QED
    BY <2>3, <2>4, <2>5, <2>7
<1>11. Size \in T
  <2> HIDE DEF T
  <2>1. 0 .. Size \subseteq T
    BY <1>0, <1>9, <1>10, Ascend
  <2> QED
    BY <1>0, <2>1
<1>12. /\ RoomFor(r, n) \in S
       /\ RoomFor(r, n).count + n <= Size \/ RoomFor(r, n).count + Size <= Size
  BY <1>7, <1>11
<1>13. RoomFor(r, n).count \in Nat
  BY <1>1, <1>12, Zenon
<1>14. RoomFor(r, n).count + n <= Size
  BY <1>0, <1>12, <1>13
<1> QED
  BY <1>12, <1>14 DEF S

-----------------------------------------------------------------------------
(* Storing and handing over keep the stream together.                         *)

\* After a loss: a marker, and anything may come next.
LEMMA StoreGap ==
  ASSUME NEW p, NEW R, NEW r, NEW q, Carries(p, R, r, q), r.lost, NEW q2 \in Recs
  PROVE  Carries(p, R, Store(r, <<>>), q2) /\ ~Store(r, <<>>).lost
<1>1. PICK s : s = RoomFor(r, 2)
  OBVIOUS
<1>2. 2 \in Nat /\ 2 + 2 <= Size
  BY SizeNat
<1>3. Carries(p, R, s, q) /\ s.count + 2 <= Size
  BY <1>1, <1>2, CarriesRoom, Zenon
<1>4. PICK t : t = copy_in(s, LostMarker)
  OBVIOUS
<1>5. Carries(p, R, t, q2)
  BY <1>3, <1>4, CarriesGap, Zenon
<1>6. PICK t2 : t2 = [t EXCEPT !.lost = FALSE]
  OBVIOUS
<1>7. Carries(p, R, t2, q2) /\ t2.lost = FALSE
  <2>1. FALSE \in BOOLEAN
    OBVIOUS
  <2> QED
    BY <1>5, <1>6, <2>1, LostApart
<1>8. Store(r, <<>>) = t2
  <2>1. Len(<<>>) = 0
    OBVIOUS
  <2> QED
    BY <1>1, <1>4, <1>6, <2>1, Zenon DEF Store
<1> QED
  BY <1>7, <1>8, Zenon

\* Without one nothing is stored for nothing, ...
LEMMA StoreNothing ==
  ASSUME NEW r, ~r.lost
  PROVE  Store(r, <<>>) = r
<1>1. Len(<<>>) = 0
  OBVIOUS
<1> QED
  BY <1>1, Zenon DEF Store

\* ... and the packet that was to come is the last of the stream.
LEMMA StorePacket ==
  ASSUME NEW p, NEW R, NEW r, NEW q, Carries(p, R, r, q), ~r.lost, NEW x \in Packets,
         NEW q2 \in Recs, Numbers(x, q), Follows(x, q2)
  PROVE  Carries(p, R, Store(r, x), q2) /\ ~Store(r, x).lost
<1>1. /\ x \in Recs /\ x # Gap /\ Len(x) \in 1 .. Longest /\ Len(x) \in 1 .. MaxLen
      /\ x \in Seq(Bytes)
  <2>1. x \in Recs
    BY DEF Recs
  <2>2. x # Gap /\ Len(x) \in 1 .. Longest /\ Len(x) \in 1 .. MaxLen /\ x \in Seq(Bytes)
    BY PacketType, Zenon
  <2> QED
    BY <2>1, <2>2, Zenon
<1>2. Len(x) \in Nat /\ Len(x) # 0 /\ 2 + Len(x) \in Nat /\ (2 + Len(x)) + 2 <= Size
      /\ Size \in Nat
  <2>1. Size >= MaxLen + 4 /\ MaxLen \in Nat
    BY IsoAssumption
  <2> QED
    BY <1>1, <2>1, SizeNat
<1>3. PICK s : s = RoomFor(r, 2 + Len(x))
  OBVIOUS
<1>4. /\ Carries(p, R, s, q) /\ s.count + (2 + Len(x)) <= Size /\ s.lost = r.lost
  <2>1. PICK n \in Nat : n = 2 + Len(x)
    BY <1>2
  <2>2. n + 2 <= Size
    BY <1>2, <2>1
  <2>3. /\ Carries(p, R, RoomFor(r, n), q) /\ RoomFor(r, n).count + n <= Size
        /\ RoomFor(r, n).lost = r.lost
    BY <2>2, CarriesRoom, Zenon
  <2> QED
    BY <1>3, <2>1, <2>3, Zenon
<1>5. Enc(x) = <<Len(x) % 256, Len(x) \div 256>> \o x
  BY <1>1, Zenon DEF Enc
<1>6. Len(Enc(x)) = Len(x) + 2
  BY <1>1, EncType, Zenon
<1>7. s.count + Len(Enc(x)) <= Size
  <2>1. s.count \in Nat
    BY <1>4, CarriesType, Zenon
  <2> QED
    BY <1>2, <1>4, <1>6, <2>1
<1>8. Carries(p, R, copy_in(s, Enc(x)), q2) /\ copy_in(s, Enc(x)).lost = s.lost
  <2>1. x \in Recs /\ x # Gap
    BY <1>1
  <2>2. Carries(p, R, s, q) /\ Fits(s, x)
    BY <1>4, <1>7 DEF Fits
  <2>3. \A y \in Recs : \A v \in Recs :
          y # Gap /\ Numbers(y, q) /\ Follows(y, v) /\ Fits(s, y) =>
            Carries(p, R, copy_in(s, Enc(y)), v) /\ copy_in(s, Enc(y)).lost = s.lost
    BY <2>2, CarriesPacket
  <2> QED
    BY <2>1, <2>2, <2>3
<1>9. Store(r, x) = copy_in(s, Enc(x))
  <2>1. ~r.lost
    OBVIOUS
  <2> QED
    BY <1>2, <1>3, <1>5, <2>1, Zenon DEF Store
<1> QED
  BY <1>4, <1>8, <1>9, Zenon

\* What a hand-over may have come to: the records in the buffer go before the ring's.
Given(g, p, q, l) ==
  \E R : Coded(g.buf, R) /\ Carries(p, R, g.ring, q) /\ g.ring.lost = l

LEMMA HandsOne ==
  ASSUME NEW g, g = [ring |-> g.ring, buf |-> g.buf], NEW p, NEW q, NEW l, Given(g, p, q, l)
  PROVE  /\ Given(HandOne(g, BufLen), p, q, l)
         /\ HandOne(g, BufLen)
              = [ring |-> HandOne(g, BufLen).ring, buf |-> HandOne(g, BufLen).buf]
<1>1. PICK R : Coded(g.buf, R) /\ Carries(p, R, g.ring, q) /\ g.ring.lost = l
  BY Zenon DEF Given
<1>2. PICK r : r = g.ring
  OBVIOUS
<1>3. PICK rs : Holding(r, rs) /\ Path(p, R \o rs, q)
  BY <1>1, <1>2, Zenon DEF Carries
<1>4. p \in Recs /\ q \in Recs /\ R \in Seq(Recs) /\ g.buf \in Seq(Bytes)
  <2>1. p \in Recs /\ q \in Recs /\ R \in Seq(Recs)
    BY <1>1, Zenon DEF Carries
  <2>2. g.buf \in Seq(Bytes)
    BY <1>1, CodedType, Zenon
  <2> QED
    BY <2>1, <2>2
<1>5. CASE r.count < 2
  <2>1. HandOne(g, BufLen) = g
    BY <1>2, <1>5, Zenon DEF HandOne
  <2> QED
    BY <2>1, Zenon
<1>6. CASE ~(r.count < 2)
  <2>1. r.count # 0
    BY <1>6
  <2>2. PICK x, qs : rs = <<x>> \o qs /\ HeadIs(r, x, qs)
    BY <1>3, <2>1, HoldingHead, Zenon
  <2>3. /\ x \in Recs /\ qs \in Seq(Recs) /\ head_len(r) \in 2 .. r.count
        /\ head_len(r) <= MaxLen + 2
        /\ Front(r, head_len(r)) = Enc(x)
        /\ Holding(copy_out(r, head_len(r)), qs)
        /\ copy_out(r, head_len(r)).lost = r.lost
    BY <2>2, Zenon DEF HeadIs
  <2>4. Holds(r, head_len(r)) /\ ~(head_len(r) > BufLen)
    <3>1. BufLen >= MaxLen + 2 /\ MaxLen \in Nat
      BY IsoAssumption
    <3>2. r.count \in Nat
      BY <1>1, <1>2, CarriesType, Zenon
    <3>3. BufLen \in Int
      BY IsoAssumption
    <3> QED
      BY <2>3, <3>1, <3>2, <3>3 DEF Holds
  <2>5. CASE Len(g.buf) + head_len(r) > BufLen
    <3>1. HandOne(g, BufLen) = g
      BY <1>2, <1>6, <2>4, <2>5, Zenon DEF HandOne
    <3> QED
      BY <3>1, Zenon
  <2>6. CASE ~(Len(g.buf) + head_len(r) > BufLen)
    <3>1. PICK h : h = [ring |-> copy_out(r, head_len(r)), buf |-> g.buf \o Enc(x)]
      OBVIOUS
    <3>2. HandOne(g, BufLen) = h
      BY <1>2, <1>6, <2>3, <2>4, <2>6, <3>1, Zenon DEF HandOne
    <3>3. h.ring = copy_out(r, head_len(r)) /\ h.buf = g.buf \o Enc(x)
      BY <3>1
    <3>4. Coded(g.buf \o Enc(x), R \o <<x>>)
      BY <1>1, <2>3, CodedAppend, Zenon
    <3>5. R \o <<x>> \in Seq(Recs) /\ R \o (<<x>> \o qs) = (R \o <<x>>) \o qs
      <4>1. x \in Recs /\ qs \in Seq(Recs)
        BY <2>3
      <4> QED
        BY <1>4, <4>1
    <3>6. Path(p, (R \o <<x>>) \o qs, q)
      BY <1>3, <2>2, <3>5, Zenon
    <3>7. Carries(p, R \o <<x>>, h.ring, q)
      BY <1>4, <2>3, <3>3, <3>5, <3>6, Zenon DEF Carries
    <3>8. Given(h, p, q, l)
      <4>1. h.ring.lost = l
        BY <1>1, <1>2, <2>3, <3>3, Zenon
      <4>2. Coded(h.buf, R \o <<x>>)
        BY <3>3, <3>4, Zenon
      <4> QED
        BY <3>7, <4>1, <4>2, Zenon DEF Given
    <3>9. h = [ring |-> h.ring, buf |-> h.buf]
      BY <3>1
    <3> QED
      BY <3>2, <3>8, <3>9, Zenon
  <2> QED
    BY <2>5, <2>6
<1> QED
  BY <1>5, <1>6

\* The whole loop.
HandsOver(g, r) ==
  g = [k \in 0 .. Size \div 2 |->
         IF k = 0 THEN [ring |-> r, buf |-> <<>>] ELSE HandOne(g[k - 1], BufLen)]

LEMMA HandOverIs ==
  ASSUME NEW r, NEW g, HandsOver(g, r)
  PROVE  \E h : HandsOver(h, r) /\ HandOver(r, BufLen) = h[Size \div 2]
<1> DEFINE h == CHOOSE f : HandsOver(f, r)
<1>1. HandOver(r, BufLen) = h[Size \div 2]
  BY DEF HandOver, HandsOver
<1>2. HandsOver(h, r)
  BY Zenon
<1> QED
  BY <1>1, <1>2

LEMMA HandOverCarries ==
  ASSUME NEW p, NEW r, NEW q, Carries(p, <<>>, r, q), NEW l, r.lost = l
  PROVE  Given(HandOver(r, BufLen), p, q, l)
<1>0. PICK n \in Nat : n = Size \div 2
  <2>1. Size \div 2 \in Nat
    BY SizeNat
  <2> QED
    BY <2>1
<1> DEFINE S == {g \in [ring : Rings, buf : Seq(Bytes)] : Given(g, p, q, l)}
           D == [g \in S |-> HandOne(g, BufLen)]
           start == [ring |-> r, buf |-> <<>>]
<1>1. ASSUME NEW g \in S
      PROVE  HandOne(g, BufLen) \in S
  <2>1. g = [ring |-> g.ring, buf |-> g.buf] /\ Given(g, p, q, l)
    OBVIOUS
  <2>2. PICK h : h = HandOne(g, BufLen)
    OBVIOUS
  <2>3. Given(h, p, q, l) /\ h = [ring |-> h.ring, buf |-> h.buf]
    BY <2>1, <2>2, HandsOne, Zenon
  <2>4. h.ring \in Rings /\ h.buf \in Seq(Bytes)
    <3>1. PICK R : Coded(h.buf, R) /\ Carries(p, R, h.ring, q)
      BY <2>3, Zenon DEF Given
    <3>2. h.buf \in Seq(Bytes)
      BY <3>1, CodedType, Zenon
    <3>3. h.ring \in Rings
      BY <3>1, CarriesType, Zenon
    <3> QED
      BY <3>2, <3>3
  <2>5. [ring |-> h.ring, buf |-> h.buf] \in [ring : Rings, buf : Seq(Bytes)]
    BY <2>4
  <2>6. h \in [ring : Rings, buf : Seq(Bytes)]
    BY <2>3, <2>5, Zenon
  <2>7. h \in S
    BY <2>3, <2>6, Zenon
  <2> QED
    BY <2>2, <2>7
<1>2. start \in S
  <2>1. start.ring = r /\ start.buf = <<>>
    OBVIOUS
  <2>2. r \in Rings
    BY CarriesType, Zenon
  <2>3. start \in [ring : Rings, buf : Seq(Bytes)]
    BY <2>2, EmptySeq
  <2> HIDE DEF start
  <2>4. Given(start, p, q, l)
    BY <2>1, CodedEmpty, Zenon DEF Given
  <2> QED
    BY <2>3, <2>4, Zenon
<1>3. D \in [S -> S]
  BY <1>1
<1>4. \A g \in S : D[g] = HandOne(g, BufLen)
  OBVIOUS
<1>5. \A g \in S : Given(g, p, q, l)
  OBVIOUS
<1> HIDE DEF S, D
<1>6. PICK g : Followed(g, D, start, n) /\ \A k \in 0 .. n : g[k] \in S
  BY <1>2, <1>3, Iterates
<1>7. HandsOver(g, r)
  <2>1. ASSUME NEW k \in 0 .. n
        PROVE  (IF k = 0 THEN start ELSE D[g[k - 1]])
                 = IF k = 0 THEN start ELSE HandOne(g[k - 1], BufLen)
    <3>1. CASE k = 0
      BY <3>1
    <3>2. CASE k # 0
      <4>1. k - 1 \in 0 .. n
        BY <3>2
      <4>2. D[g[k - 1]] = HandOne(g[k - 1], BufLen)
        BY <1>4, <1>6, <4>1, Zenon
      <4> QED
        BY <3>2, <4>2, Zenon
    <3> QED
      BY <3>1, <3>2
  <2> HIDE DEF start
  <2>2. g = [k \in 0 .. n |-> IF k = 0 THEN start ELSE HandOne(g[k - 1], BufLen)]
    BY <1>6, <2>1 DEF Followed
  <2> QED
    BY <1>0, <2>2, Zenon DEF HandsOver, start
<1>8. PICK h : HandsOver(h, r) /\ HandOver(r, BufLen) = h[n]
  BY <1>0, <1>7, HandOverIs, Zenon
<1> HIDE DEF start
<1>9. \A k \in 0 .. n : h[k] = IF k = 0 THEN start ELSE HandOne(h[k - 1], BufLen)
  <2>1. h = [k \in 0 .. n |-> IF k = 0 THEN start ELSE HandOne(h[k - 1], BufLen)]
    BY <1>0, <1>8, Zenon DEF HandsOver, start
  <2> QED
    BY <2>1
<1> DEFINE T == {k \in 0 .. n : h[k] \in S}
<1>10. 0 \in T
  <2>1. h[0] = start
    BY <1>9
  <2> QED
    BY <1>2, <2>1
<1>11. ASSUME NEW k \in 0 .. n - 1, k \in T
       PROVE  k + 1 \in T
  <2>1. k + 1 \in 0 .. n /\ k + 1 # 0 /\ (k + 1) - 1 = k
    OBVIOUS
  <2>2. h[k + 1] = HandOne(h[k], BufLen)
    BY <1>9, <2>1
  <2>3. HandOne(h[k], BufLen) \in S
    BY <1>1, <1>11
  <2> QED
    BY <2>1, <2>2, <2>3
<1>12. n \in T
  <2> HIDE DEF T
  <2>1. 0 .. n \subseteq T
    BY <1>10, <1>11, Ascend
  <2> QED
    BY <2>1
<1>13. HandOver(r, BufLen) \in S
  BY <1>8, <1>12
<1> QED
  BY <1>5, <1>13, Zenon

-----------------------------------------------------------------------------
(* What the application has still to get: the records of the buffer b, and of *)
(* the ring r, from p on to q.                                                *)

Kept(b, r, p, q) == ~r.lost /\ \E R : Coded(b, R) /\ Carries(p, R, r, q)

LEMMA KeptNothing ==
  ASSUME NEW r \in Rings, r.count = 0, ~r.lost, NEW p \in Recs, NEW q \in Recs, Follows(p, q)
  PROVE  Kept(<<>>, r, p, q)
<1>1. Holding(r, <<>>)
  BY HoldingNone
<1>2. Path(p, <<>>, q)
  BY PathNone, Zenon
<1>3. <<>> \in Seq(Recs) /\ <<>> \o <<>> = <<>>
  OBVIOUS
<1>4. Carries(p, <<>>, r, q)
  BY <1>1, <1>2, <1>3, Zenon DEF Carries
<1> QED
  BY <1>4, CodedEmpty, Zenon DEF Kept

\* Whatever is to come, a gap may.
LEMMA KeptGap ==
  ASSUME NEW b, NEW r, NEW p, NEW q, Kept(b, r, p, q)
  PROVE  Kept(b, r, p, Gap)
<1>1. PICK R : Coded(b, R) /\ Carries(p, R, r, q)
  BY Zenon DEF Kept
<1>2. PICK rs : Holding(r, rs) /\ Path(p, R \o rs, q)
  BY <1>1, Zenon DEF Carries
<1>3. p \in Recs /\ q \in Recs /\ R \in Seq(Recs) /\ rs \in Seq(Recs) /\ Gap \in Recs
  BY <1>1, <1>2, HoldingType DEF Carries, Recs
<1>4. PICK s \in Seq(Recs) : s = R \o rs
  <2>1. R \o rs \in Seq(Recs)
    BY <1>3
  <2> QED
    BY <2>1
<1>5. Path(p, s, Gap)
  <2>1. Path(p, s, q)
    BY <1>2, <1>4, Zenon
  <2>2. p = Gap \/ (p # Gap /\ p[1] = p[1])
    OBVIOUS
  <2> QED
    BY <1>3, <2>1, <2>2, PathEnds, Zenon
<1>6. Carries(p, R, r, Gap)
  BY <1>2, <1>3, <1>4, <1>5, Zenon DEF Carries
<1>7. ~r.lost
  BY DEF Kept
<1> QED
  BY <1>1, <1>6, <1>7, Zenon DEF Kept

\* The last of a sequence of records.
LEMMA LastOf ==
  ASSUME NEW R \in Seq(Recs), R # <<>>
  PROVE  \E s \in Seq(Recs) : R = s \o <<R[Len(R)]>> /\ R[Len(R)] \in Recs
<1>1. PICK n \in Nat : Len(R) = n + 1
  <2>1. Len(R) \in Nat /\ Len(R) # 0
    BY EmptySeq
  <2>2. Len(R) - 1 \in Nat /\ Len(R) = (Len(R) - 1) + 1
    BY <2>1
  <2> QED
    BY <2>2
<1>2. \A i \in 1 .. n + 1 : R[i] \in Recs
  BY <1>1
<1> DEFINE s == [i \in 1 .. n |-> R[i]]
           e == <<R[n + 1]>>
<1>3. s \in [1 .. n -> Recs]
  BY <1>2
<1>4. \A i \in 1 .. n : s[i] = R[i]
  OBVIOUS
<1>5. R[n + 1] \in Recs
  BY <1>2
<1>6. e \in Seq(Recs) /\ Len(e) = 1 /\ e[1] = R[n + 1]
  BY <1>5
<1> HIDE DEF s, e
<1>7. s \in Seq(Recs) /\ Len(s) = n
  BY <1>3, AsSeq
<1>8. R = s \o e
  <2>1. \A i \in 1 .. Len(s) : R[i] = s[i]
    BY <1>4, <1>7
  <2>2. \A i \in 1 .. Len(e) : R[Len(s) + i] = e[i]
    BY <1>6, <1>7
  <2>3. Len(R) = Len(s) + Len(e)
    BY <1>1, <1>6, <1>7
  <2> QED
    BY <1>6, <1>7, <2>1, <2>2, <2>3, Joined
<1> QED
  BY <1>1, <1>5, <1>7, <1>8 DEF e

\* The number of a record is enough to tell what follows it.
Name(x) == IF x = Gap THEN Gap ELSE <<Head(x)>>

LEMMA NameOf ==
  ASSUME NEW x \in Recs
  PROVE  /\ Name(x) \in Recs
         /\ Name(x) = Gap \/ (x # Gap /\ Name(x)[1] = x[1])
<1>1. CASE x = Gap
  BY <1>1 DEF Name
<1>2. CASE x # Gap
  <2>1. x \in Seq(Bytes) /\ Len(x) \in 1 .. MaxLen /\ x[1] \in 0 .. Ids - 1
    BY <1>2, RecPacket, Zenon
  <2>2. Head(x) = x[1]
    <3>1. x # <<>>
      BY <1>2 DEF Gap
    <3> QED
      BY <2>1, <3>1
  <2>3. Name(x) = <<x[1]>>
    BY <1>2, <2>2, Zenon DEF Name
  <2>4. PICK id \in 0 .. Ids - 1 : id = x[1]
    BY <2>1
  <2>5. <<id>> \in Packets /\ <<id>>[1] = id
    <3>1. <<id>> = [i \in 1 .. 1 |-> id]
      OBVIOUS
    <3>2. 1 \in 1 .. MaxLen
      BY IsoAssumption
    <3> QED
      BY <3>1, <3>2 DEF Packets
  <2> QED
    BY <1>2, <2>3, <2>4, <2>5 DEF Recs
<1> QED
  BY <1>1, <1>2

\* The application takes what is in the buffer, and remembers the number of the last.
Newest(p, b) == (<<p>> \o process_records(b))[Len(<<p>> \o process_records(b))]

LEMMA KeptTaken ==
  ASSUME NEW b, NEW r, NEW p, NEW q, Kept(b, r, p, q)
  PROVE  Kept(<<>>, r, Name(Newest(p, b)), q) /\ Name(Newest(p, b)) \in Recs
<1>1. PICK R : Coded(b, R) /\ Carries(p, R, r, q)
  BY Zenon DEF Kept
<1>2. PICK rs : Holding(r, rs) /\ Path(p, R \o rs, q)
  BY <1>1, Zenon DEF Carries
<1>3. p \in Recs /\ q \in Recs /\ R \in Seq(Recs) /\ rs \in Seq(Recs)
  BY <1>1, <1>2, HoldingType DEF Carries
<1>4. process_records(b) = R
  BY <1>1, ProcessCoded, Zenon
<1>5. PICK w : w = <<p>> \o R
  OBVIOUS
<1>6. Newest(p, b) = w[Len(w)]
  BY <1>4, <1>5, Zenon DEF Newest
<1>7. \E y \in Recs : w[Len(w)] = y /\ Path(y, rs, q)
  <2>1. CASE R = <<>>
    <3>1. w = <<p>> /\ <<>> \o rs = rs
      BY <1>3, <1>5, <2>1
    <3>2. w[Len(w)] = p
      BY <3>1
    <3>3. Path(p, rs, q)
      BY <1>2, <2>1, <3>1, Zenon
    <3> QED
      BY <1>3, <3>2, <3>3
  <2>2. CASE R # <<>>
    <3>1. PICK s \in Seq(Recs) : R = s \o <<R[Len(R)]>> /\ R[Len(R)] \in Recs
      BY <1>3, <2>2, LastOf
    <3>2. PICK y \in Recs : y = R[Len(R)]
      BY <3>1
    <3>3. w[Len(w)] = y
      <4>1. Len(R) \in Nat /\ Len(R) # 0
        BY <1>3, <2>2, EmptySeq
      <4>2. PICK e \in Seq(Recs) : e = <<p>> /\ Len(e) = 1
        <5>1. <<p>> \in Seq(Recs) /\ Len(<<p>>) = 1
          BY <1>3
        <5> QED
          BY <5>1
      <4>3. /\ Len(e \o R) = Len(e) + Len(R)
            /\ \A i \in 1 .. Len(R) : (e \o R)[Len(e) + i] = R[i]
        BY <1>3, <4>2, RecParts
      <4>4. Len(w) = 1 + Len(R) /\ w[1 + Len(R)] = R[Len(R)]
        BY <1>5, <4>1, <4>2, <4>3
      <4> QED
        BY <3>2, <4>4
    <3>4. R \o rs = s \o (<<y>> \o rs)
      <4>1. <<y>> \in Seq(Recs)
        OBVIOUS
      <4>2. (s \o <<y>>) \o rs = s \o (<<y>> \o rs)
        BY <1>3, <4>1
      <4> QED
        BY <3>1, <3>2, <4>2, Zenon
    <3>5. Path(p, s \o (<<y>> \o rs), q)
      BY <1>2, <3>4, Zenon
    <3>6. Path(y, rs, q)
      BY <1>3, <3>5, PathThrough, Zenon
    <3> QED
      BY <3>3, <3>6
  <2> QED
    BY <2>1, <2>2
<1>8. PICK y \in Recs : w[Len(w)] = y /\ Path(y, rs, q)
  BY <1>7
<1>9. PICK z : z = Name(y)
  OBVIOUS
<1>10. z \in Recs /\ (z = Gap \/ (y # Gap /\ z[1] = y[1]))
  BY <1>9, NameOf, Zenon
<1>11. Path(z, rs, q)
  <2>1. q = Gap \/ (q # Gap /\ q[1] = q[1])
    OBVIOUS
  <2> QED
    BY <1>3, <1>8, <1>10, <2>1, PathEnds, Zenon
<1>12. <<>> \o rs = rs /\ <<>> \in Seq(Recs)
  BY <1>3
<1>13. Carries(z, <<>>, r, q)
  BY <1>2, <1>3, <1>10, <1>11, <1>12, Zenon DEF Carries
<1>14. ~r.lost
  BY DEF Kept
<1>15. Kept(<<>>, r, z, q)
  BY <1>13, <1>14, CodedEmpty, Zenon DEF Kept
<1> QED
  BY <1>6, <1>8, <1>9, <1>10, <1>15, Zenon

\* An empty buffer has no records.
LEMMA NoneCoded ==
  ASSUME NEW R, Coded(<<>>, R)
  PROVE  R = <<>>
<1>1. process_records(<<>>) = R
  BY ProcessCoded, Zenon
<1>2. process_records(<<>>) = <<>>
  BY CodedEmpty, ProcessCoded, Zenon
<1> QED
  BY <1>1, <1>2, Zenon

-----------------------------------------------------------------------------
(* What a reception does to the stream.                                       *)

NumberRec(n) == <<n>>

LEMMA NumberRecs ==
  ASSUME NEW n \in 0 .. Ids - 1
  PROVE  /\ NumberRec(n) \in Recs /\ NumberRec(n) # Gap /\ NumberRec(n)[1] = n
         /\ (n + 1) % Ids \in 0 .. Ids - 1
<1>1. <<n>> \in Packets /\ <<n>>[1] = n /\ <<n>> # Gap
  <2>1. <<n>> = [i \in 1 .. 1 |-> n]
    OBVIOUS
  <2>2. 1 \in 1 .. MaxLen
    BY IsoAssumption
  <2>3. <<n>> # <<>> /\ <<n>>[1] = n
    OBVIOUS
  <2> QED
    BY <2>1, <2>2, <2>3 DEF Packets, Gap
<1>2. (n + 1) % Ids \in 0 .. Ids - 1
  BY IsoAssumption
<1> QED
  BY <1>1, <1>2 DEF Recs, NumberRec

\* The three kinds of reception, by what is noted and by the number that comes next.
Nothing(note, x, m, r, n) == note = [r EXCEPT !.silent = @ + 1] /\ x = <<>> /\ m = n
Damaged(note, x, m, r, n) == note = [r EXCEPT !.lost = TRUE] /\ x = <<>> /\ m = (n + 1) % Ids
Sound(note, x, m, r, n) ==
  /\ note = [r EXCEPT !.silent = 0]
  /\ \/ x = <<>> /\ m = n
     \/ x \in Packets /\ x[1] = n /\ m = (n + 1) % Ids

LEMMA StoreKeeps ==
  ASSUME NEW p, NEW R, NEW r, NEW n \in 0 .. Ids - 1, Carries(p, R, r, NumberRec(n)), ~r.lost,
         NEW note, NEW x, NEW m,
         Nothing(note, x, m, r, n) \/ Damaged(note, x, m, r, n) \/ Sound(note, x, m, r, n)
  PROVE  /\ Carries(p, R, Store(note, x), NumberRec(m)) /\ ~Store(note, x).lost
         /\ m \in 0 .. Ids - 1
<1>1. PICK q : q = NumberRec(n)
  OBVIOUS
<1>2. q \in Recs /\ q # Gap /\ q[1] = n /\ (n + 1) % Ids \in 0 .. Ids - 1
  BY <1>1, NumberRecs, Zenon
<1>3. Carries(p, R, r, q)
  BY <1>1
<1>4. ASSUME NEW k \in Nat, note = [r EXCEPT !.silent = k]
      PROVE  Carries(p, R, note, q) /\ ~note.lost
  <2>1. Carries(p, R, note, q) /\ note.lost = r.lost
    BY <1>3, <1>4, SilentApart
  <2> QED
    BY <2>1
<1>5. CASE Nothing(note, x, m, r, n)
  <2>1. r \in Rings
    BY <1>3, CarriesType, Zenon
  <2>2. r.silent + 1 \in Nat
    BY <2>1 DEF Rings
  <2>3. note = [r EXCEPT !.silent = r.silent + 1] /\ x = <<>> /\ m = n
    BY <1>5, <2>1 DEF Nothing, Rings
  <2>4. Carries(p, R, note, q) /\ ~note.lost
    BY <1>4, <2>2, <2>3
  <2>5. Store(note, x) = note
    BY <2>3, <2>4, StoreNothing, Zenon
  <2> QED
    BY <1>1, <2>3, <2>4, <2>5, Zenon
<1>6. CASE Damaged(note, x, m, r, n)
  <2>1. note = [r EXCEPT !.lost = TRUE] /\ x = <<>> /\ m = (n + 1) % Ids
    BY <1>6, Zenon DEF Damaged
  <2>2. Carries(p, R, note, q) /\ note.lost
    <3>1. TRUE \in BOOLEAN
      OBVIOUS
    <3>2. Carries(p, R, note, q) /\ note.lost = TRUE
      BY <1>3, <2>1, <3>1, LostApart
    <3> QED
      BY <3>2
  <2>3. m \in 0 .. Ids - 1
    BY <1>2, <2>1, Zenon
  <2>4. NumberRec(m) \in Recs
    BY <2>3, NumberRecs, Zenon
  <2>5. Carries(p, R, Store(note, <<>>), NumberRec(m)) /\ ~Store(note, <<>>).lost
    BY <2>2, <2>4, StoreGap, Zenon
  <2> QED
    BY <2>1, <2>3, <2>5, Zenon
<1>7. CASE Sound(note, x, m, r, n)
  <2>1. Carries(p, R, note, q) /\ ~note.lost
    <3>1. note = [r EXCEPT !.silent = 0] /\ 0 \in Nat
      BY <1>7 DEF Sound
    <3> QED
      BY <1>4, <3>1
  <2>2. CASE x = <<>> /\ m = n
    <3>1. Store(note, x) = note
      BY <2>1, <2>2, StoreNothing, Zenon
    <3> QED
      BY <1>1, <2>1, <2>2, <3>1, Zenon
  <2>3. CASE x \in Packets /\ x[1] = n /\ m = (n + 1) % Ids
    <3>1. m \in 0 .. Ids - 1
      BY <1>2, <2>3, Zenon
    <3>2. PICK v : v = NumberRec(m)
      OBVIOUS
    <3>3. v \in Recs /\ v # Gap /\ v[1] = m
      BY <3>1, <3>2, NumberRecs, Zenon
    <3>4. Numbers(x, q)
      BY <1>2, <2>3, Zenon DEF Numbers
    <3>5. Follows(x, v)
      BY <2>3, <3>3, Zenon DEF Follows
    <3>6. Carries(p, R, Store(note, x), v) /\ ~Store(note, x).lost
      BY <2>1, <2>3, <3>3, <3>4, <3>5, StorePacket, Zenon
    <3> QED
      BY <3>1, <3>2, <3>6, Zenon
  <2> QED
    BY <1>7, <2>2, <2>3, Zenon DEF Sound
<1> QED
  BY <1>5, <1>6, <1>7

-----------------------------------------------------------------------------
(* The buffer: it holds something only when a completion is due that tells of *)
(* a sound transfer.                                                          *)

\* A completion is due that tells of a transfer that failed.
Fails(event) == event.kind = "iso" /\ ~event.ok
Failed(events) == \E i \in 1 .. Len(events) : Fails(events[i])

BufKept ==
  /\ buf # <<>> => IsoDue(usbh.events)
  /\ Failed(usbh.events) => buf = <<>>

\* One sequence of events after another, one event, and what is left after the first.
LEMMA FailedConcat ==
  ASSUME NEW a \in Seq(Events), NEW b \in Seq(Events)
  PROVE  /\ a \o b \in Seq(Events)
         /\ Failed(a \o b) <=> Failed(a) \/ Failed(b)
         /\ \A kinds : Told(a \o b, kinds) <=> Told(a, kinds) \/ Told(b, kinds)
<1>1. PICK s : s = a \o b
  OBVIOUS
<1>2. /\ s \in Seq(Events) /\ Len(s) = Len(a) + Len(b)
      /\ \A i \in 1 .. Len(a) : s[i] = a[i]
      /\ \A i \in 1 .. Len(b) : s[Len(a) + i] = b[i]
  BY <1>1, SeqParts
<1>3. Len(a) \in Nat /\ Len(b) \in Nat
  OBVIOUS
<1>4. ASSUME NEW i \in 1 .. Len(s)
      PROVE  (\E j \in 1 .. Len(a) : s[i] = a[j]) \/ (\E j \in 1 .. Len(b) : s[i] = b[j])
  <2>1. CASE i <= Len(a)
    BY <1>2, <1>3, <2>1
  <2>2. CASE ~(i <= Len(a))
    <3>1. i - Len(a) \in 1 .. Len(b) /\ Len(a) + (i - Len(a)) = i
      BY <1>2, <1>3, <2>2
    <3> QED
      BY <1>2, <3>1
  <2> QED
    BY <2>1, <2>2
<1>5. /\ \A i \in 1 .. Len(a) : \E j \in 1 .. Len(s) : s[j] = a[i]
      /\ \A i \in 1 .. Len(b) : \E j \in 1 .. Len(s) : s[j] = b[i]
  <2>1. ASSUME NEW i \in 1 .. Len(a)
        PROVE  i \in 1 .. Len(s)
    BY <1>2, <1>3
  <2>2. ASSUME NEW i \in 1 .. Len(b)
        PROVE  Len(a) + i \in 1 .. Len(s)
    BY <1>2, <1>3
  <2> QED
    BY <1>2, <2>1, <2>2
<1>6. Failed(s) <=> Failed(a) \/ Failed(b)
  BY <1>4, <1>5, Zenon DEF Failed
<1>7. ASSUME NEW kinds
      PROVE  Told(s, kinds) <=> Told(a, kinds) \/ Told(b, kinds)
  BY <1>4, <1>5, Zenon DEF Told
<1> QED
  BY <1>1, <1>2, <1>6, <1>7, Zenon

LEMMA FailedOne ==
  ASSUME NEW e \in Events
  PROVE  /\ <<e>> \in Seq(Events)
         /\ Failed(<<e>>) <=> Fails(e)
         /\ \A kinds : Told(<<e>>, kinds) <=> e.kind \in kinds
<1>1. <<e>> \in Seq(Events) /\ Len(<<e>>) = 1 /\ <<e>>[1] = e /\ 1 .. 1 = {1}
  OBVIOUS
<1> QED
  BY <1>1 DEF Failed, Told

LEMMA FailedAppend ==
  ASSUME NEW s \in Seq(Events), NEW e \in Events
  PROVE  Failed(Append(s, e)) <=> Failed(s) \/ Fails(e)
<1>1. Append(s, e) = s \o <<e>>
  OBVIOUS
<1>2. <<e>> \in Seq(Events) /\ (Failed(<<e>>) <=> Fails(e))
  BY FailedOne, Zenon
<1>3. Failed(s \o <<e>>) <=> Failed(s) \/ Failed(<<e>>)
  BY <1>2, FailedConcat, Zenon
<1> QED
  BY <1>1, <1>2, <1>3, Zenon

LEMMA FailedTail ==
  ASSUME NEW s \in Seq(Events), s # <<>>
  PROVE  /\ Failed(Tail(s)) => Failed(s)
         /\ Fails(Head(s)) => Failed(s)
<1>1. PICK t : t = Tail(s)
  OBVIOUS
<1>2. /\ Len(s) \in Nat /\ Len(s) > 0 /\ Len(t) = Len(s) - 1 /\ Head(s) = s[1]
      /\ \A i \in 1 .. Len(t) : t[i] = s[i + 1]
  BY <1>1
<1>3. /\ 1 \in 1 .. Len(s)
      /\ \A i \in 1 .. Len(t) : i + 1 \in 1 .. Len(s)
  BY <1>2
<1>4. Failed(t) => Failed(s)
  BY <1>2, <1>3, Zenon DEF Failed
<1>5. Fails(Head(s)) => Failed(s)
  BY <1>2, <1>3, Zenon DEF Failed
<1> QED
  BY <1>1, <1>4, <1>5

LEMMA NoneFailed ==
  /\ ~Failed(<<>>)
  /\ \A s \in Seq(Events) : Failed(s) => IsoDue(s)
<1>1. ~Failed(<<>>)
  BY DEF Failed
<1>2. ASSUME NEW s \in Seq(Events), Failed(s)
      PROVE  IsoDue(s)
  BY <1>2 DEF Failed, Fails, IsoDue, Told
<1> QED
  BY <1>1, <1>2

\* The first event is taken off.
LEMMA EventTaken ==
  ASSUME QueuedInv, NEW kind, Handles(kind)
  PROVE  /\ Handled.events \in Seq(Events) /\ Handled.ctrl = usbh.ctrl
         /\ IsoDue(Handled.events) => IsoDue(usbh.events)
         /\ kind # "iso" => (IsoDue(usbh.events) => IsoDue(Handled.events))
         /\ StartDue(Handled.events) => StartDue(usbh.events)
         /\ Failed(Handled.events) => Failed(usbh.events)
<1>1. /\ usbh.events \in Seq(Events) /\ usbh.events # <<>> /\ Orderly(usbh.events)
      /\ Head(usbh.events).kind = kind
  BY DEF QueuedInv, Shape, EventsKept, Handles
<1>2. Handled.events = Tail(usbh.events) /\ Handled.ctrl = usbh.ctrl
  BY DEF Handled, QueuedInv, Shape
<1> QED
  BY <1>1, <1>2, DueTail, FailedTail

\* What a poll of the ring comes to.
StoredBy(reception) == Store(Noted(reception), reception.packet)
GivenBy(reception) ==
  IF Live THEN HandOver(StoredBy(reception), BufLen)
          ELSE [ring |-> StoredBy(reception), buf |-> buf]
CompletedBy(reception) == Live /\ GivenBy(reception).buf # <<>>

LEMMA Receives ==
  ASSUME FrameReceives
  PROVE  /\ dev.there /\ ep.open /\ ring_on /\ polled
         /\ \E reception \in Receptions :
              /\ ring' = GivenBy(reception).ring /\ buf' = GivenBy(reception).buf
              /\ polled' = ~Silenced(reception)
              /\ ep' = [ep EXCEPT !.has = @ /\ ~CompletedBy(reception)]
              /\ usbh' = IF CompletedBy(reception) THEN Post(usbh, IsoDone(TRUE)) ELSE usbh
              /\ dev' = Numbered(reception)
BY DEF FrameReceives, GivenBy, StoredBy, CompletedBy

\* A completion is posted to the stack.
LEMMA Posted ==
  ASSUME QueuedInv, NEW ok \in BOOLEAN, usbh' = Post(usbh, IsoDone(ok))
  PROVE  /\ IsoDue(usbh'.events)
         /\ Failed(usbh'.events) <=> Failed(usbh.events) \/ ~ok
         /\ StartDue(usbh'.events) <=> StartDue(usbh.events)
         /\ usbh'.ctrl = usbh.ctrl /\ usbh'.mounted = usbh.mounted
<1>1. usbh.events \in Seq(Events) /\ IsoDone(ok) \in Events /\ IsoDone(ok).kind = "iso"
      /\ IsoDone(ok).ok = ok /\ "iso" \notin StartKinds
  BY DEF QueuedInv, Shape, Events, IsoDone, StartKinds
<1>2. /\ usbh'.events = Append(usbh.events, IsoDone(ok))
      /\ usbh'.ctrl = usbh.ctrl /\ usbh'.mounted = usbh.mounted
  BY DEF Post, QueuedInv, Shape
<1> QED
  BY <1>1, <1>2, DueAppend, FailedAppend DEF Fails

LEMMA BufFrame ==
  ASSUME QueuedInv, BufKept, Frame
  PROVE  BufKept'
<1>1. /\ usbh.events \in Seq(Events)
      /\ ep.has => ~IsoDue(usbh.events) /\ buf = <<>> /\ ~Failed(usbh.events)
  BY NoneFailed DEF QueuedInv, Shape, TransferKept, BufKept
<1>2. ASSUME NEW ok \in BOOLEAN, usbh' = Post(usbh, IsoDone(ok)), ep.has, ~ok => buf' = <<>>
      PROVE  BufKept'
  BY <1>1, <1>2, Posted DEF BufKept
<1>3. CASE buf' = <<>> \/ UNCHANGED <<usbh, buf>>
  BY <1>3 DEF BufKept
<1>4. CASE FrameSkips
  <2>1. buf' = buf /\ (usbh' = usbh \/ (Live /\ usbh' = Post(usbh, IsoDone(FALSE))))
    BY <1>4 DEF FrameSkips
  <2>2. CASE Live
    BY <1>1, <1>3, <2>1, <2>2 DEF Live
  <2> QED
    BY <1>3, <2>1, <2>2
<1>5. CASE FrameReceives
  <2>1. PICK reception \in Receptions :
          /\ buf' = GivenBy(reception).buf
          /\ usbh' = IF CompletedBy(reception) THEN Post(usbh, IsoDone(TRUE)) ELSE usbh
    BY <1>5, Receives
  <2>2. CASE CompletedBy(reception)
    BY <1>2, <2>1, <2>2 DEF CompletedBy, Live
  <2>3. CASE ~CompletedBy(reception)
    <3>1. Live => buf' = <<>>
      BY <2>1, <2>3 DEF CompletedBy
    <3>2. ~Live => buf' = buf
      BY <2>1 DEF GivenBy
    <3> QED
      BY <1>3, <2>1, <2>3, <3>1, <3>2
  <2> QED
    BY <2>2, <2>3
<1>6. CASE FramePacket
  <2>1. PICK reception \in Receptions :
          /\ buf' = reception.packet
          /\ usbh' = Post(usbh, IsoDone(reception.kind = "sound"))
    BY <1>6 DEF FramePacket
  <2>2. reception.kind # "sound" => reception.packet = <<>>
    BY EmptySeq DEF Receptions, Reception
  <2>3. ep.has /\ (reception.kind = "sound") \in BOOLEAN
    BY <1>6 DEF FramePacket, Live
  <2> QED
    BY <1>2, <2>1, <2>2, <2>3
<1> QED
  BY <1>4, <1>5, <1>6 DEF Frame, Skip, Poll

\* When the device goes, what was under way for it fails.
LEMMA Unplugged ==
  ASSUME QueuedInv, Unplug
  PROVE  /\ IsoDue(usbh.events) => IsoDue(usbh'.events)
         /\ IsoDue(usbh'.events) => IsoDue(usbh.events) \/ ep.has
         /\ Failed(usbh'.events) => Failed(usbh.events) \/ ep.has
         /\ StartDue(usbh'.events) => Starts
         /\ usbh'.ctrl = usbh.ctrl /\ usbh'.mounted = usbh.mounted
<1> DEFINE none == usbh.ctrl \in {"idle", "done"}
           iso == IF ep.has THEN <<IsoDone(FALSE)>> ELSE <<>>
           fail == IF none THEN <<>> ELSE <<CtrlDone(usbh.ctrl, FALSE)>>
           gone == <<[kind |-> "remove", ok |-> TRUE]>>
<1>1. /\ usbh'.events = usbh.events \o (iso \o fail) \o gone
      /\ usbh'.ctrl = usbh.ctrl /\ usbh'.mounted = usbh.mounted
  BY DEF Unplug, QueuedInv, Shape
<1>2. /\ usbh.events \in Seq(Events) /\ IsoDone(FALSE) \in Events
      /\ [kind |-> "remove", ok |-> TRUE] \in Events
      /\ ~none => CtrlDone(usbh.ctrl, FALSE) \in Events /\ usbh.ctrl \in CtrlKinds
  BY DEF QueuedInv, Shape, Events, IsoDone, CtrlDone, CtrlKinds
<1>3. /\ iso \in Seq(Events) /\ (Failed(iso) => ep.has) /\ (IsoDue(iso) => ep.has)
      /\ ~StartDue(iso)
  <2>1. CASE ep.has
    <3>1. IsoDone(FALSE).kind \notin StartKinds
      BY DEF IsoDone, StartKinds
    <3>2. <<IsoDone(FALSE)>> \in Seq(Events) /\ ~StartDue(<<IsoDone(FALSE)>>)
      BY <1>2, <3>1, FailedOne DEF StartDue
    <3> QED
      BY <2>1, <3>2
  <2>2. CASE ~ep.has
    BY <2>2, NothingDue, NoneFailed
  <2> QED
    BY <2>1, <2>2
<1>4. /\ fail \in Seq(Events) /\ ~Failed(fail) /\ ~IsoDue(fail)
      /\ StartDue(fail) => usbh.ctrl \in StartKinds
  <2>1. CASE ~none
    <3>1. PICK e \in Events : e = CtrlDone(usbh.ctrl, FALSE)
      BY <1>2, <2>1
    <3>2. e.kind = usbh.ctrl /\ e.kind # "iso"
      BY <1>2, <2>1, <3>1 DEF CtrlDone, CtrlKinds
    <3>3. fail = <<e>>
      BY <2>1, <3>1
    <3> HIDE DEF fail
    <3>4. /\ <<e>> \in Seq(Events) /\ ~Failed(<<e>>) /\ ~IsoDue(<<e>>)
          /\ StartDue(<<e>>) => usbh.ctrl \in StartKinds
      BY <3>2, FailedOne DEF IsoDue, StartDue, Fails
    <3> QED
      BY <3>3, <3>4
  <2>2. CASE none
    BY <2>2, NothingDue, NoneFailed
  <2> QED
    BY <2>1, <2>2
<1>5. gone \in Seq(Events) /\ ~Failed(gone) /\ ~IsoDue(gone) /\ ~StartDue(gone)
  <2>1. PICK e \in Events : e = [kind |-> "remove", ok |-> TRUE] /\ e.kind = "remove"
    BY <1>2
  <2>2. "remove" # "iso" /\ "remove" \notin StartKinds
    BY DEF StartKinds
  <2> QED
    BY <2>1, <2>2, FailedOne DEF IsoDue, StartDue, Fails
<1> HIDE DEF iso, fail, gone
<1>6. PICK s \in Seq(Events) : s = iso \o fail
  <2>1. iso \o fail \in Seq(Events)
    BY <1>3, <1>4
  <2> QED
    BY <2>1
<1>7. PICK t \in Seq(Events) : t = usbh.events \o s
  <2>1. usbh.events \o s \in Seq(Events)
    BY <1>2
  <2> QED
    BY <2>1
<1>8. usbh'.events = t \o gone
  BY <1>1, <1>6, <1>7
<1>9. /\ Failed(s) => ep.has
      /\ IsoDue(s) => ep.has
      /\ StartDue(s) => usbh.ctrl \in StartKinds
  BY <1>3, <1>4, <1>6, FailedConcat DEF IsoDue, StartDue
<1>10. /\ Failed(t) <=> Failed(usbh.events) \/ Failed(s)
       /\ IsoDue(t) <=> IsoDue(usbh.events) \/ IsoDue(s)
       /\ StartDue(t) <=> StartDue(usbh.events) \/ StartDue(s)
  BY <1>2, <1>7, FailedConcat DEF IsoDue, StartDue
<1>11. /\ Failed(t \o gone) <=> Failed(t)
       /\ IsoDue(t \o gone) <=> IsoDue(t)
       /\ StartDue(t \o gone) <=> StartDue(t)
  BY <1>5, FailedConcat DEF IsoDue, StartDue
<1> QED
  BY <1>1, <1>8, <1>9, <1>10, <1>11 DEF Starts

\* When a control request ends, only its own event comes.
LEMMA RequestEnded ==
  ASSUME QueuedInv, ControlEnds
  PROVE  /\ IsoDue(usbh'.events) <=> IsoDue(usbh.events)
         /\ Failed(usbh'.events) <=> Failed(usbh.events)
         /\ Starts' => Starts
         /\ usbh'.mounted = usbh.mounted
<1>1. PICK ok \in BOOLEAN :
        usbh' = [Post(usbh, CtrlDone(usbh.ctrl, ok)) EXCEPT !.ctrl = "done"]
  BY DEF ControlEnds
<1>2. PICK e \in Events : e = CtrlDone(usbh.ctrl, ok)
  BY DEF ControlEnds, QueuedInv, Shape, Events, CtrlDone
<1>3. /\ usbh.events \in Seq(Events) /\ e.kind = usbh.ctrl /\ e.kind # "iso"
      /\ "done" \notin StartKinds
  BY <1>2 DEF QueuedInv, Shape, ControlEnds, CtrlDone, CtrlKinds, StartKinds
<1>4. /\ usbh'.events = Append(usbh.events, e) /\ usbh'.ctrl = "done"
      /\ usbh'.mounted = usbh.mounted
  BY <1>1, <1>2 DEF Post, QueuedInv, Shape
<1>5. /\ IsoDue(usbh'.events) <=> IsoDue(usbh.events)
      /\ Failed(usbh'.events) <=> Failed(usbh.events)
      /\ StartDue(usbh'.events) <=> StartDue(usbh.events) \/ usbh.ctrl \in StartKinds
  BY <1>3, <1>4, DueAppend, FailedAppend DEF Fails
<1> QED
  BY <1>3, <1>4, <1>5 DEF Starts

LEMMA BufStays ==
  ASSUME BufKept, buf' = buf,
         IsoDue(usbh.events) => IsoDue(usbh'.events),
         Failed(usbh'.events) => Failed(usbh.events)
  PROVE  BufKept'
BY DEF BufKept

LEMMA BufNext ==
  ASSUME QueuedInv, BufKept, [Next]_vars
  PROVE  BufKept'
<1>1. CASE buf' = <<>>
  BY <1>1 DEF BufKept
<1>2. CASE buf' = buf /\ usbh'.events = usbh.events
  BY <1>2, BufStays
<1>3. ASSUME NEW kind, Handles(kind), kind # "iso", buf' = buf, usbh'.events = Handled.events
      PROVE  BufKept'
  BY <1>3, EventTaken, BufStays
<1>4. CASE Frame
  BY <1>4, BufFrame
<1>5. CASE Unplug
  <2>1. buf' = buf /\ (ep.has => buf = <<>>)
    BY <1>5 DEF Unplug, World, BufKept, QueuedInv, TransferKept
  <2>2. /\ IsoDue(usbh.events) => IsoDue(usbh'.events)
        /\ Failed(usbh'.events) => Failed(usbh.events) \/ ep.has
    BY <1>5, Unplugged
  <2> QED
    BY <2>1, <2>2 DEF BufKept
<1>6. CASE ControlEnds
  BY <1>6, RequestEnded, BufStays DEF ControlEnds, World
<1>7. CASE IsoComplete \/ Remove
  BY <1>1, <1>7 DEF IsoComplete, Remove
<1>8. CASE InterfaceDone
  <2>1. Handles("stream") /\ buf' = buf
    BY <1>8 DEF InterfaceDone
  <2>2. usbh'.events = Handled.events
    BY <1>8 DEF InterfaceDone, StartStreaming, Handled, QueuedInv, Shape
  <2> QED
    BY <1>3, <2>1, <2>2
<1>9. CASE RateDone \/ PauseDone
  <2>1. (Handles("rate") \/ Handles("pause")) /\ buf' = buf
    BY <1>9 DEF RateDone, PauseDone
  <2>2. usbh'.events = Handled.events
    BY <1>9 DEF RateDone, PauseDone, StartStreaming, Handled, QueuedInv, Shape
  <2> QED
    BY <1>3, <2>1, <2>2
<1>10. CASE TransferStart
  BY <1>1, <1>2, <1>10 DEF TransferStart, QueuedInv, Shape
<1>11. CASE Plug \/ Hang \/ SetIsoRing \/ Mount \/ UNCHANGED vars
  BY <1>2, <1>11 DEF Plug, Hang, World, SetIsoRing, Mount, vars, QueuedInv, Shape
<1>12. CASE TogglePause \/ Pause
  BY <1>2, <1>12 DEF TogglePause, Pause, InterfaceSet, QueuedInv, Shape
<1>13. CASE Queue \/ RingReset \/ RingAttach \/ TransferPublish \/ AbortMark \/ AbortTake
  BY <1>2, <1>13 DEF Queue, RingReset, RingAttach, TransferPublish, AbortMark, AbortTake,
     QueuedInv, Shape
<1> QED
  BY <1>4, <1>5, <1>6, <1>7, <1>8, <1>9, <1>10, <1>11, <1>12, <1>13 DEF Next, AppStep

-----------------------------------------------------------------------------
(* An application without a microphone has nothing of one.                    *)

MicKept ==
  ~app.mic => ~IsoDue(usbh.events) /\ ~ep.has /\ app.pc \notin Calling /\ ~Starts

LEMMA MicStays ==
  ASSUME MicKept, app'.mic = app.mic,
         ep'.has => ep.has,
         app'.pc \in Calling => app.pc \in Calling \/ app.mic,
         IsoDue(usbh'.events) => IsoDue(usbh.events) \/ ep.has,
         Starts' => Starts
  PROVE  MicKept'
BY DEF MicKept

\* Whoever starts the stream has a microphone.
LEMMA MicStarts ==
  ASSUME QueuedInv, MicKept, NEW kind \in StartKinds, Handles(kind)
  PROVE  app.mic
<1>1. usbh.events \in Seq(Events) /\ usbh.events # <<>> /\ Orderly(usbh.events)
      /\ Head(usbh.events).kind \in StartKinds
  BY DEF QueuedInv, Shape, EventsKept, Handles
<1>2. StartDue(usbh.events)
  BY <1>1, DueTail
<1> QED
  BY <1>2 DEF MicKept, Starts

LEMMA MicNext ==
  ASSUME QueuedInv, MicKept, [Next]_vars
  PROVE  MicKept'
<1>1. CASE app'.mic
  BY <1>1 DEF MicKept
<1>2. ASSUME app'.mic = app.mic, ep'.has => ep.has,
             app'.pc \in Calling => app.pc \in Calling \/ app.mic,
             usbh'.events = usbh.events, usbh'.ctrl \in StartKinds => usbh.ctrl \in StartKinds
      PROVE  MicKept'
  BY <1>2, MicStays DEF Starts
<1>3. CASE Frame
  <2>1. app' = app /\ (ep'.has => ep.has)
    BY <1>3 DEF Frame, Skip, Poll, FrameOnly, FrameSkips, FrameReceives, FramePacket, Live,
       QueuedInv, Shape
  <2>2. usbh' = usbh \/ (ep.has /\ \E ok \in BOOLEAN : usbh' = Post(usbh, IsoDone(ok)))
    <3>1. CASE FrameSkips
      BY <3>1 DEF FrameSkips, Live
    <3>2. CASE FrameReceives
      BY <3>2, Receives DEF CompletedBy, Live
    <3>3. CASE FramePacket
      BY <3>3 DEF FramePacket, Live
    <3> QED
      BY <1>3, <3>1, <3>2, <3>3 DEF Frame, Skip, Poll
  <2>3. Starts' => Starts
    BY <2>2, Posted DEF Starts
  <2>4. IsoDue(usbh'.events) => IsoDue(usbh.events) \/ ep.has
    BY <2>2
  <2> QED
    BY <2>1, <2>3, <2>4, MicStays
<1>4. CASE Unplug
  <2>1. app' = app /\ (ep'.has => ep.has)
    BY <1>4 DEF Unplug, World, QueuedInv, Shape
  <2>2. /\ IsoDue(usbh'.events) => IsoDue(usbh.events) \/ ep.has
        /\ Starts' => Starts
    BY <1>4, Unplugged DEF Starts
  <2> QED
    BY <2>1, <2>2, MicStays
<1>5. CASE ControlEnds
  <2>1. app' = app /\ ep' = ep
    BY <1>5 DEF ControlEnds, World
  <2>2. (IsoDue(usbh'.events) => IsoDue(usbh.events)) /\ (Starts' => Starts)
    BY <1>5, RequestEnded
  <2> QED
    BY <2>1, <2>2, MicStays
<1>6. CASE Plug \/ Hang \/ SetIsoRing \/ UNCHANGED vars
  <2>1. UNCHANGED <<ep, usbh, app>>
    BY <1>6 DEF Plug, Hang, World, SetIsoRing, vars
  <2> QED
    BY <1>2, <2>1
<1>7. CASE Mount \/ TogglePause
  BY <1>1, <1>7 DEF Mount, TogglePause, QueuedInv, Shape
<1>8. CASE AbortMark \/ AbortTake \/ Pause
  <2>1. app.mic
    BY <1>8 DEF AbortMark, AbortTake, Pause, QueuedInv, PauseKept, Aborting
  <2> QED
    BY <1>1, <1>8, <2>1 DEF AbortMark, AbortTake, Pause, Goto, QueuedInv, Shape
<1>9. CASE IsoComplete
  <2>1. Handles("iso") /\ usbh' = [Handled EXCEPT !.busy = FALSE]
    BY <1>9 DEF IsoComplete
  <2>2. usbh'.events = Handled.events /\ usbh'.ctrl = usbh.ctrl
    BY <2>1 DEF Handled, QueuedInv, Shape
  <2>3. /\ IsoDue(usbh'.events) => IsoDue(usbh.events)
        /\ Starts' => Starts
    BY <2>1, <2>2, EventTaken DEF Starts
  <2>4. /\ app'.mic = app.mic /\ ep' = ep
        /\ app'.pc \in Calling => app.mic
    BY <1>9 DEF IsoComplete, Requeues, QueuedInv, Shape, Calling
  <2> QED
    BY <2>3, <2>4, MicStays
<1>10. CASE InterfaceDone
  <2>1. Handles("stream") /\ "stream" \in StartKinds
    BY <1>10 DEF InterfaceDone, StartKinds
  <2>2. app.mic
    BY <2>1, MicStarts
  <2>3. CASE app'.mic = app.mic
    BY <1>1, <2>2, <2>3
  <2>4. CASE app'.mic # app.mic
    <3>1. usbh' = [Handled EXCEPT !.ctrl = "idle"] /\ app' = [app EXCEPT !.mic = FALSE] /\ ep' = ep
      BY <1>10, <2>4 DEF InterfaceDone, StartStreaming, QueuedInv, Shape
    <3>2. /\ ~IsoDue(Handled.events) /\ ~StartDue(Handled.events)
          /\ ~ep.has /\ app.pc = "idle"
      BY <2>1, StartHandled
    <3>3. usbh'.events = Handled.events /\ usbh'.ctrl = "idle" /\ app'.pc = "idle"
      BY <3>1, <3>2 DEF Handled, QueuedInv, Shape
    <3> QED
      BY <3>1, <3>2, <3>3 DEF MicKept, Starts, StartKinds, Calling
  <2> QED
    BY <2>3, <2>4
<1>11. CASE RateDone
  <2>1. Handles("rate") /\ "rate" \in StartKinds
    BY <1>11 DEF RateDone, StartKinds
  <2>2. app.mic
    BY <2>1, MicStarts
  <2> QED
    BY <1>1, <1>11, <2>2 DEF RateDone, StartStreaming, QueuedInv, Shape
<1>12. CASE PauseDone
  <2>1. Handles("pause") /\ usbh' = [Handled EXCEPT !.ctrl = "idle"] /\ app' = app /\ ep' = ep
    BY <1>12 DEF PauseDone
  <2>2. usbh'.events = Handled.events /\ usbh'.ctrl = "idle" /\ "idle" \notin StartKinds
    BY <2>1 DEF Handled, QueuedInv, Shape, StartKinds
  <2>3. /\ IsoDue(usbh'.events) => IsoDue(usbh.events)
        /\ Starts' => Starts
    BY <2>1, <2>2, EventTaken DEF Starts
  <2> QED
    BY <2>1, <2>3, MicStays
<1>13. CASE Remove
  <2>1. usbh.events \in Seq(Events) /\ usbh.events # <<>> /\ Orderly(usbh.events)
        /\ Head(usbh.events).kind = "remove" /\ app.pc = "idle"
    BY <1>13 DEF QueuedInv, Shape, EventsKept, Remove, Handles
  <2>2. Handled.events = <<>>
    BY <2>1, DueTail DEF Handled, QueuedInv, Shape
  <2>3. usbh'.events = <<>> /\ usbh'.ctrl = "idle" /\ ~ep'.has
    BY <1>13, <2>2 DEF Remove, UsbhIdle, EpClosed
  <2>4. app'.pc = "idle"
    BY <1>13, <2>1 DEF Remove, NoMic
  <2> QED
    BY <2>3, <2>4, NothingDue DEF MicKept, Starts, StartKinds, Calling
<1>14. CASE Queue \/ TransferStart
  <2>1. /\ app.pc \in Calling /\ ep' = ep
        /\ usbh'.events = usbh.events /\ usbh'.ctrl = usbh.ctrl
    BY <1>14 DEF Queue, TransferStart, Calling, QueuedInv, Shape
  <2>2. ~ep.has /\ ~IsoDue(usbh.events) /\ ~Starts
    BY <2>1 DEF QueuedInv, TransferKept, StartKept
  <2>3. app'.mic = app.mic \/ app'.pc = "idle"
    BY <1>14 DEF Queue, TransferStart, Refused, Goto, QueuedInv, Shape
  <2>4. CASE app'.mic = app.mic
    BY <1>2, <2>1, <2>4
  <2>5. CASE app'.pc = "idle"
    BY <2>1, <2>2, <2>5 DEF MicKept, Starts, Calling
  <2> QED
    BY <2>3, <2>4, <2>5
<1>15. CASE RingReset \/ RingAttach
  BY <1>2, <1>15 DEF RingReset, RingAttach, Goto, Calling, QueuedInv, Shape
<1>16. CASE TransferPublish
  <2>1. app.pc \in Calling
    BY <1>16 DEF TransferPublish, Calling
  <2>2. app'.mic
    BY <1>16, <2>1 DEF TransferPublish, Goto, MicKept, QueuedInv, Shape
  <2> QED
    BY <1>1, <2>2
<1> QED
  BY <1>3, <1>4, <1>5, <1>6, <1>7, <1>8, <1>9, <1>10, <1>11, <1>12, <1>13, <1>14, <1>15, <1>16
  DEF Next, AppStep

-----------------------------------------------------------------------------
(* Who owns the ring, and the ring between its reset and its being attached.  *)

RingKept ==
  /\ polled => ring_on /\ usbh.mounted
  /\ app.pc \in {"reset", "attach"} => ring_on /\ ~polled
  /\ app.pc = "attach" => ring.count = 0 /\ ~ring.lost /\ last = <<Gap>>

LEMMA EmptyIs == EmptyRing.count = 0 /\ ~EmptyRing.lost
BY DEF EmptyRing

LEMMA RingNext ==
  ASSUME QueuedInv, RingKept, [Next]_vars
  PROVE  RingKept'
<1>1. CASE UNCHANGED <<ring_on, ring, last>> /\ (polled' => polled) /\ usbh'.mounted = usbh.mounted
           /\ (app'.pc \in {"reset", "attach"} => app'.pc = app.pc)
  BY <1>1 DEF RingKept
<1>2. CASE ~polled' /\ app'.pc \notin {"reset", "attach"}
  BY <1>2 DEF RingKept
<1>3. CASE Frame
  <2>1. app' = app /\ ring_on' = ring_on /\ last' = last
    BY <1>3 DEF Frame, Skip, Poll, FrameOnly
  <2>2. usbh'.mounted = usbh.mounted
    <3>1. usbh' = usbh \/ \E ok \in BOOLEAN : usbh' = Post(usbh, IsoDone(ok))
      BY <1>3, Receives DEF Frame, Skip, Poll, FrameSkips, FramePacket
    <3> QED
      BY <3>1, Posted
  <2>3. CASE UNCHANGED <<ring, polled>>
    BY <1>1, <2>1, <2>2, <2>3
  <2>4. CASE FrameReceives
    <3>1. ring_on /\ polled
      BY <2>4, Receives
    <3>2. app.pc \notin {"reset", "attach"} /\ usbh.mounted
      BY <3>1 DEF RingKept
    <3> QED
      BY <2>1, <2>2, <3>1, <3>2 DEF RingKept
  <2> QED
    BY <1>3, <2>3, <2>4 DEF Frame, Skip, Poll, FrameSkips, FramePacket
<1>4. CASE Plug \/ Hang \/ UNCHANGED vars
  BY <1>1, <1>4 DEF Plug, Hang, World, vars
<1>5. CASE Unplug
  BY <1>1, <1>5, Unplugged DEF Unplug, World
<1>6. CASE ControlEnds
  BY <1>1, <1>6, RequestEnded DEF ControlEnds, World
<1>7. CASE SetIsoRing
  BY <1>7 DEF SetIsoRing, RingKept
<1>8. CASE Mount \/ Remove
  <2>1. ~polled' /\ app.pc = "idle" /\ app'.pc = "idle"
    BY <1>8 DEF Mount, Remove, Handles, NoMic, QueuedInv, Shape
  <2> QED
    BY <1>2, <2>1
<1>9. CASE TogglePause \/ Pause
  <2>1. app'.pc \notin {"reset", "attach"}
    BY <1>9 DEF TogglePause, Pause, Goto, QueuedInv, Shape
  <2>2. ~polled' \/ (UNCHANGED <<ring, last, polled, ring_on>> /\ usbh'.mounted = usbh.mounted)
    BY <1>9 DEF TogglePause, Pause, InterfaceSet, QueuedInv, Shape
  <2> QED
    BY <1>1, <1>2, <2>1, <2>2
<1>10. CASE IsoComplete
  <2>1. app'.pc \notin {"reset", "attach"} /\ polled' = polled /\ ring_on' = ring_on
        /\ usbh'.mounted = usbh.mounted
    BY <1>10 DEF IsoComplete, Handled, QueuedInv, Shape
  <2> QED
    BY <2>1 DEF RingKept
<1>11. CASE InterfaceDone \/ RateDone \/ PauseDone
  <2>1. UNCHANGED <<ring_on, ring, last, polled>> /\ app.pc = "idle"
    BY <1>11 DEF InterfaceDone, RateDone, PauseDone, Handles
  <2>2. usbh'.mounted = usbh.mounted /\ app'.pc \notin {"reset", "attach"}
    BY <1>11, <2>1 DEF InterfaceDone, RateDone, PauseDone, StartStreaming, Handled, QueuedInv, Shape
  <2> QED
    BY <1>1, <2>1, <2>2
<1>12. CASE Queue
  <2>1. UNCHANGED <<ring_on, ring, last, polled>> /\ usbh'.mounted = usbh.mounted
    BY <1>12 DEF Queue, QueuedInv, Shape
  <2>2. app'.pc = "reset" => ring_on /\ ~polled
    BY <1>12 DEF Queue, Refused, QueuedInv, Shape
  <2>3. app'.pc # "attach"
    BY <1>12 DEF Queue, Refused, QueuedInv, Shape
  <2> QED
    BY <2>1, <2>2, <2>3 DEF RingKept
<1>13. CASE RingReset
  BY <1>13, EmptyIs DEF RingReset, NewPeriod, Goto, RingKept, QueuedInv, Shape
<1>14. CASE RingAttach
  <2>1. ring_on' = ring_on /\ ring_on /\ usbh' = usbh
    BY <1>14 DEF RingAttach, RingKept
  <2>2. usbh.mounted
    BY <1>14 DEF RingAttach, QueuedInv, MountKept, Calling
  <2>3. app'.pc = "start"
    BY <1>14 DEF RingAttach, Goto, QueuedInv, Shape
  <2> QED
    BY <2>1, <2>2, <2>3 DEF RingKept
<1>15. CASE TransferStart \/ TransferPublish \/ AbortMark \/ AbortTake
  BY <1>1, <1>15 DEF TransferStart, TransferPublish, AbortMark, AbortTake, Goto, Refused,
     QueuedInv, Shape
<1> QED
  BY <1>3, <1>4, <1>5, <1>6, <1>7, <1>8, <1>9, <1>10, <1>11, <1>12, <1>13, <1>14, <1>15
  DEF Next, AppStep

-----------------------------------------------------------------------------
(* The stream: the buffer and the ring hold what follows the last record the  *)
(* application got, up to the packet the device sends next if it is polled.   *)

Awaited == IF polled THEN NumberRec(dev.next) ELSE Gap

StreamKept ==
  /\ ring \in Rings /\ dev.next \in 0 .. Ids - 1
  /\ \E x \in Recs : last = <<x>>
  /\ ring_on => Kept(buf, ring, last[1], Awaited)

LEMMA KeptType ==
  ASSUME NEW b, NEW r, NEW p, NEW q, Kept(b, r, p, q)
  PROVE  p \in Recs /\ q \in Recs /\ r \in Rings /\ ~r.lost /\ b \in Seq(Bytes)
<1>1. PICK R : Coded(b, R) /\ Carries(p, R, r, q)
  BY Zenon DEF Kept
<1>2. p \in Recs /\ q \in Recs /\ r \in Rings
  BY <1>1, CarriesType, Zenon
<1>3. b \in Seq(Bytes) /\ ~r.lost
  BY <1>1, CodedType, Zenon DEF Kept
<1> QED
  BY <1>2, <1>3

\* The ring is emptied: what is in the buffer is the end of the old stream.
LEMMA KeptAgain ==
  ASSUME NEW b, NEW r, NEW p, NEW q, Kept(b, r, p, q)
  PROVE  Kept(b, EmptyRing, Gap, Gap)
<1>1. PICK R : Coded(b, R) /\ Carries(p, R, r, q)
  BY Zenon DEF Kept
<1>2. PICK rs : Holding(r, rs) /\ Path(p, R \o rs, q)
  BY <1>1, Zenon DEF Carries
<1>3. p \in Recs /\ q \in Recs /\ R \in Seq(Recs) /\ Gap \in Recs
  BY <1>1, Zenon DEF Carries, Recs
<1>4. \E y \in Recs : Path(p, R, y)
  <2>1. CASE rs = <<>>
    <3>1. R \o <<>> = R
      BY <1>3
    <3>2. Path(p, R, q)
      BY <1>2, <2>1, <3>1, Zenon
    <3> QED
      BY <1>3, <3>2
  <2>2. CASE rs # <<>>
    <3>1. PICK x, qs : rs = <<x>> \o qs /\ HeadIs(r, x, qs)
      BY <1>2, <2>2, HoldingHead, Zenon
    <3>2. x \in Recs /\ qs \in Seq(Recs)
      BY <3>1, Zenon DEF HeadIs
    <3>3. Path(p, R \o (<<x>> \o qs), q)
      BY <1>2, <3>1, Zenon
    <3>4. Path(p, R, x)
      BY <1>3, <3>2, <3>3, PathThrough, Zenon
    <3> QED
      BY <3>2, <3>4
  <2> QED
    BY <2>1, <2>2
<1>5. PICK y \in Recs : Path(p, R, y)
  BY <1>4
<1>6. Path(Gap, R, Gap)
  BY <1>3, <1>5, PathEnds, Zenon
<1>7. EmptyRing \in Rings /\ Holding(EmptyRing, <<>>) /\ ~EmptyRing.lost
  BY EmptyHolding, EmptyIs, Zenon
<1>8. R \o <<>> = R
  BY <1>3
<1>9. Carries(Gap, R, EmptyRing, Gap)
  BY <1>3, <1>6, <1>7, <1>8, Zenon DEF Carries
<1> QED
  BY <1>1, <1>7, <1>9, Zenon DEF Kept

\* Which of the kinds a reception is.
LEMMA ReceptionIs ==
  ASSUME QueuedInv, ring \in Rings, dev.next \in 0 .. Ids - 1, NEW reception \in Receptions
  PROVE  LET note == Noted(reception)
             x == reception.packet
             m == Numbered(reception).next
         IN  Nothing(note, x, m, ring, dev.next) \/ Damaged(note, x, m, ring, dev.next)
             \/ Sound(note, x, m, ring, dev.next)
<1>1. [i \in 1 .. 0 |-> dev.next] = <<>>
  OBVIOUS
<1>2. /\ Numbered(reception).next
           = IF reception.kind = "damaged" \/ reception.packet # <<>>
             THEN (dev.next + 1) % Ids ELSE dev.next
  BY DEF Numbered, QueuedInv, Shape
<1>3. CASE reception = Reception("nothing", 0) \/ reception = Reception("vanished", 0)
  BY <1>1, <1>2, <1>3 DEF Reception, Noted, Unheard, Nothing
<1>4. CASE reception = Reception("damaged", 0)
  BY <1>1, <1>2, <1>4 DEF Reception, Noted, Unheard, Damaged
<1>5. ASSUME NEW n \in 0 .. MaxLen, reception = Reception("sound", n)
      PROVE  Sound(Noted(reception), reception.packet, Numbered(reception).next, ring, dev.next)
  <2>1. /\ Noted(reception) = [ring EXCEPT !.silent = 0]
        /\ reception.packet = [i \in 1 .. n |-> dev.next] /\ reception.kind # "damaged"
    BY <1>5 DEF Reception, Noted, Unheard
  <2>2. CASE n = 0
    BY <1>1, <1>2, <2>1, <2>2 DEF Sound
  <2>3. CASE n # 0
    <3>1. n \in 1 .. MaxLen /\ 1 \in 1 .. n
      BY <2>3, IsoAssumption
    <3>2. reception.packet \in Packets
      BY <2>1, <3>1 DEF Packets
    <3>3. reception.packet # <<>>
      BY <3>2, PacketType, Zenon DEF Gap
    <3>4. reception.packet[1] = dev.next
      BY <2>1, <3>1
    <3> QED
      BY <1>2, <2>1, <3>2, <3>3, <3>4 DEF Sound
  <2> QED
    BY <2>2, <2>3
<1> QED
  BY <1>3, <1>4, <1>5 DEF Receptions

LEMMA StreamReceives ==
  ASSUME QueuedInv, BufKept, StreamKept, FrameReceives, last' = last, ring_on' = ring_on
  PROVE  StreamKept'
<1>1. PICK reception \in Receptions :
        /\ ring' = GivenBy(reception).ring /\ buf' = GivenBy(reception).buf
        /\ dev' = Numbered(reception)
  BY Receives
<1>2. PICK p \in Recs : last = <<p>> /\ last[1] = p
  BY DEF StreamKept
<1>3. ring_on /\ polled
  BY Receives
<1>4. PICK n \in 0 .. Ids - 1 : n = dev.next
  BY DEF StreamKept
<1>5. Kept(buf, ring, p, NumberRec(n))
  BY <1>2, <1>3, <1>4, Zenon DEF StreamKept, Awaited
<1>6. PICK R : Coded(buf, R) /\ Carries(p, R, ring, NumberRec(n))
  BY <1>5, Zenon DEF Kept
<1>7. PICK m, note, x :
        m = Numbered(reception).next /\ note = Noted(reception) /\ x = reception.packet
  OBVIOUS
<1>8. PICK s : s = Store(note, x)
  OBVIOUS
<1>9. Carries(p, R, s, NumberRec(m)) /\ ~s.lost /\ m \in 0 .. Ids - 1
  <2>1. ring \in Rings /\ dev.next \in 0 .. Ids - 1
    BY DEF StreamKept
  <2>2. Nothing(note, x, m, ring, n) \/ Damaged(note, x, m, ring, n) \/ Sound(note, x, m, ring, n)
    BY <1>4, <1>7, <2>1, ReceptionIs, Zenon
  <2>3. ~ring.lost
    BY <1>5, Zenon DEF Kept
  <2> QED
    BY <1>6, <1>8, <2>2, <2>3, StoreKeeps, Zenon
<1>10. Kept(buf', ring', p, NumberRec(m))
  <2>1. StoredBy(reception) = s
    BY <1>7, <1>8 DEF StoredBy
  <2>2. CASE Live
    <3>1. buf = <<>>
      BY <2>2 DEF Live, QueuedInv, TransferKept, BufKept
    <3>2. R = <<>>
      BY <1>6, <3>1, NoneCoded, Zenon
    <3>3. s.lost = FALSE
      <4>1. s \in Rings
        BY <1>9, CarriesType, Zenon
      <4> QED
        BY <1>9, <4>1 DEF Rings
    <3>4. PICK g : g = HandOver(s, BufLen)
      OBVIOUS
    <3>5. Given(g, p, NumberRec(m), FALSE)
      BY <1>9, <3>2, <3>3, <3>4, HandOverCarries, Zenon
    <3>6. ring' = g.ring /\ buf' = g.buf
      BY <1>1, <2>1, <2>2, <3>4 DEF GivenBy
    <3>7. PICK Q : Coded(g.buf, Q) /\ Carries(p, Q, g.ring, NumberRec(m)) /\ g.ring.lost = FALSE
      BY <3>5, Zenon DEF Given
    <3>8. Kept(g.buf, g.ring, p, NumberRec(m))
      BY <3>7, Zenon DEF Kept
    <3> QED
      BY <3>6, <3>8, Zenon
  <2>3. CASE ~Live
    <3>1. ring' = s /\ buf' = buf
      BY <1>1, <2>1, <2>3 DEF GivenBy
    <3>2. Kept(buf, s, p, NumberRec(m))
      BY <1>6, <1>9, Zenon DEF Kept
    <3> QED
      BY <3>1, <3>2, Zenon
  <2> QED
    BY <2>2, <2>3
<1>11. Kept(buf', ring', p, Gap)
  BY <1>10, KeptGap, Zenon
<1>12. dev'.next = m
  BY <1>1, <1>7
<1>13. Kept(buf', ring', p, Awaited')
  BY <1>10, <1>11, <1>12, Zenon DEF Awaited
<1>14. ring' \in Rings
  BY <1>10, KeptType, Zenon
<1>15. last'[1] = p /\ \E y \in Recs : last' = <<y>>
  BY <1>2
<1> QED
  BY <1>9, <1>12, <1>13, <1>14, <1>15 DEF StreamKept

LEMMA StreamStays ==
  ASSUME StreamKept, UNCHANGED <<ring_on, ring, buf, last>>, dev'.next = dev.next,
         polled' = polled \/ ~polled'
  PROVE  StreamKept'
<1>1. CASE polled' = polled
  BY <1>1 DEF StreamKept, Awaited
<1>2. CASE ~polled'
  <2>1. ring_on => Kept(buf, ring, last[1], Gap)
    <3>1. ring_on => Kept(buf, ring, last[1], Awaited)
      BY DEF StreamKept
    <3> QED
      BY <3>1, KeptGap, Zenon
  <2>2. Awaited' = Gap
    BY <1>2 DEF Awaited
  <2> QED
    BY <2>1, <2>2 DEF StreamKept
<1> QED
  BY <1>1, <1>2

LEMMA StreamAnew ==
  ASSUME QueuedInv, StreamKept, NewPeriod, ring_on' = ring_on, buf' = buf \/ buf' = <<>>, ~polled'
  PROVE  StreamKept'
<1>1. ring' = EmptyRing /\ last' = <<Gap>> /\ dev'.next = 0
  BY DEF NewPeriod, QueuedInv, Shape
<1>2. 0 \in 0 .. Ids - 1 /\ Gap \in Recs /\ Awaited' = Gap /\ last'[1] = Gap
  BY <1>1, IsoAssumption DEF Awaited, Recs
<1>3. EmptyRing \in Rings /\ EmptyRing.count = 0 /\ ~EmptyRing.lost
  BY EmptyHolding, EmptyIs, Zenon
<1>4. Kept(<<>>, EmptyRing, Gap, Gap)
  BY <1>2, <1>3, GapFollows, KeptNothing, Zenon
<1>5. ring_on => Kept(buf, EmptyRing, Gap, Gap)
  <2>1. ring_on => Kept(buf, ring, last[1], Awaited)
    BY DEF StreamKept
  <2> QED
    BY <2>1, KeptAgain, Zenon
<1>6. ring_on' => Kept(buf', ring', last'[1], Awaited')
  BY <1>1, <1>2, <1>4, <1>5, Zenon
<1> QED
  BY <1>1, <1>2, <1>3, <1>6 DEF StreamKept

\* The application takes what a sound completion brings, and nothing with another.
LEMMA StreamTaken ==
  ASSUME QueuedInv, BufKept, StreamKept, IsoComplete
  PROVE  StreamKept'
<1>1. PICK p \in Recs : last = <<p>> /\ last[1] = p
  BY DEF StreamKept
<1>2. PICK z : z = Name(Newest(p, buf))
  OBVIOUS
<1>3. /\ UNCHANGED <<ring_on, polled, ring, dev>> /\ buf' = <<>>
      /\ last' = IF ring_on /\ Head(usbh.events).ok THEN <<z>> ELSE last
  BY <1>1, <1>2 DEF IsoComplete, AppOnly, Name, Newest
<1>4. Awaited' = Awaited
  BY <1>3 DEF Awaited
<1>5. ring_on => Kept(buf, ring, p, Awaited)
  BY <1>1 DEF StreamKept
<1>6. CASE ring_on /\ Head(usbh.events).ok
  <2>1. Kept(<<>>, ring, z, Awaited) /\ z \in Recs
    BY <1>2, <1>5, <1>6, KeptTaken, Zenon
  <2>2. last' = <<z>> /\ last'[1] = z
    BY <1>3, <1>6
  <2> QED
    BY <1>3, <1>4, <2>1, <2>2 DEF StreamKept
<1>7. CASE ring_on /\ ~Head(usbh.events).ok
  <2>1. buf = <<>>
    <3>1. /\ usbh.events \in Seq(Events) /\ usbh.events # <<>>
          /\ Fails(Head(usbh.events))
      BY <1>7 DEF IsoComplete, Handles, QueuedInv, Shape, Fails
    <3> QED
      BY <3>1, FailedTail DEF BufKept
  <2>2. buf' = buf /\ last' = last
    BY <1>3, <1>7, <2>1
  <2> QED
    BY <1>3, <2>2, StreamStays
<1>8. CASE ~ring_on
  BY <1>3, <1>8 DEF StreamKept
<1> QED
  BY <1>6, <1>7, <1>8

LEMMA StreamSet ==
  ASSUME QueuedInv, BufKept, MicKept, RingKept, StreamKept, SetIsoRing
  PROVE  StreamKept'
<1>1. PICK on \in BOOLEAN :
        /\ ring_on' = IF polled THEN ring_on ELSE on
        /\ ring' = IF polled \/ ~on THEN ring ELSE [EmptyRing EXCEPT !.silent = ring.silent]
  BY DEF SetIsoRing
<1>2. UNCHANGED <<polled, buf, last, dev>> /\ ~app.mic
  BY DEF SetIsoRing, AppOnly
<1>3. CASE polled
  BY <1>1, <1>2, <1>3, StreamStays
<1>4. CASE ~polled /\ ~on
  BY <1>1, <1>2, <1>4 DEF StreamKept
<1>5. CASE ~polled /\ on
  <2>1. buf = <<>>
    BY <1>2 DEF MicKept, BufKept
  <2>2. PICK p \in Recs : last = <<p>> /\ last[1] = p
    BY DEF StreamKept
  <2>3. ring' = [EmptyRing EXCEPT !.silent = ring.silent]
    BY <1>1, <1>5
  <2>4. ring' \in Rings /\ ring'.count = 0 /\ ~ring'.lost
    <3>1. ring.silent \in Nat
      BY DEF StreamKept, Rings
    <3>2. EmptyRing \in Rings
      BY EmptyHolding
    <3> QED
      BY <2>3, <3>1, <3>2 DEF Rings, EmptyRing
  <2>5. Kept(<<>>, ring', p, Gap)
    <3>1. Gap \in Recs /\ Follows(p, Gap)
      BY GapFollows DEF Recs
    <3> QED
      BY <2>4, <3>1, KeptNothing, Zenon
  <2>6. Awaited' = Gap
    BY <1>2, <1>5 DEF Awaited
  <2> QED
    BY <1>2, <2>1, <2>2, <2>4, <2>5, <2>6 DEF StreamKept
<1> QED
  BY <1>3, <1>4, <1>5

LEMMA StreamAttached ==
  ASSUME QueuedInv, BufKept, RingKept, StreamKept, RingAttach
  PROVE  StreamKept'
<1>1. UNCHANGED <<ring_on, ring, buf, last, dev>> /\ polled' /\ app.pc = "attach"
  BY DEF RingAttach, AppOnly
<1>2. ring.count = 0 /\ ~ring.lost /\ last = <<Gap>> /\ last[1] = Gap
  BY <1>1 DEF RingKept
<1>3. buf = <<>>
  BY <1>1 DEF QueuedInv, TransferKept, BufKept, Calling
<1>4. ring \in Rings /\ dev.next \in 0 .. Ids - 1 /\ Gap \in Recs
  BY DEF StreamKept, Recs
<1>5. PICK q \in Recs : q = NumberRec(dev.next)
  BY <1>4, NumberRecs
<1>6. Kept(<<>>, ring, Gap, q)
  BY <1>2, <1>4, GapFollows, KeptNothing, Zenon
<1>7. Awaited' = q
  BY <1>1, <1>5 DEF Awaited
<1> QED
  BY <1>1, <1>2, <1>3, <1>4, <1>6, <1>7 DEF StreamKept

LEMMA StreamNext ==
  ASSUME QueuedInv, BufKept, MicKept, RingKept, StreamKept, [Next]_vars
  PROVE  StreamKept'
<1>1. CASE Frame
  <2>1. ring_on' = ring_on /\ last' = last
    BY <1>1 DEF Frame, Skip, Poll, FrameOnly
  <2>2. CASE FrameSkips
    BY <2>1, <2>2, StreamStays DEF FrameSkips
  <2>3. CASE FrameReceives
    BY <2>1, <2>3, StreamReceives
  <2>4. CASE FramePacket
    BY <2>1, <2>4 DEF FramePacket, StreamKept
  <2> QED
    BY <1>1, <2>2, <2>3, <2>4 DEF Frame, Skip, Poll
<1>2. CASE Plug
  <2>1. UNCHANGED <<ring_on, ring, buf, last, polled>> /\ dev'.next = 0 /\ ~usbh.mounted
    BY <1>2 DEF Plug, World
  <2>2. ~polled
    BY <2>1 DEF RingKept
  <2>3. Awaited' = Awaited /\ 0 \in 0 .. Ids - 1
    BY <2>1, <2>2, IsoAssumption DEF Awaited
  <2> QED
    BY <2>1, <2>3 DEF StreamKept
<1>3. CASE Unplug \/ Hang \/ ControlEnds
  <2>1. UNCHANGED <<ring_on, ring, buf, last, polled>> /\ dev'.next = dev.next
    BY <1>3 DEF Unplug, Hang, ControlEnds, World, QueuedInv, Shape
  <2> QED
    BY <2>1, StreamStays
<1>4. CASE SetIsoRing
  BY <1>4, StreamSet
<1>5. CASE Mount
  BY <1>5, StreamStays DEF Mount, AppOnly
<1>6. CASE TogglePause \/ Pause
  <2>1. ring_on' = ring_on /\ buf' = buf
    BY <1>6 DEF TogglePause, Pause
  <2>2. \/ UNCHANGED <<polled, ring, dev, last>>
        \/ NewPeriod /\ ~polled'
    BY <1>6 DEF TogglePause, Pause, InterfaceSet
  <2> QED
    BY <2>1, <2>2, StreamStays, StreamAnew
<1>7. CASE IsoComplete
  BY <1>7, StreamTaken
<1>8. CASE Remove
  BY <1>8, StreamAnew DEF Remove
<1>9. CASE RingReset
  <2>1. ~polled
    BY <1>9 DEF RingReset, RingKept
  <2> QED
    BY <1>9, <2>1, StreamAnew DEF RingReset
<1>10. CASE RingAttach
  BY <1>10, StreamAttached
<1>11. CASE TransferStart
  <2>1. buf = <<>>
    BY <1>11 DEF TransferStart, QueuedInv, TransferKept, BufKept, Calling
  <2>2. buf' = buf
    BY <1>11, <2>1 DEF TransferStart
  <2> QED
    BY <1>11, <2>2, StreamStays DEF TransferStart, AppOnly
<1>12. CASE InterfaceDone \/ RateDone \/ PauseDone \/ Queue \/ TransferPublish
            \/ AbortMark \/ AbortTake \/ UNCHANGED vars
  BY <1>12, StreamStays DEF InterfaceDone, RateDone, PauseDone, Queue, TransferPublish,
     AbortMark, AbortTake, AppOnly, vars
<1> QED
  BY <1>1, <1>2, <1>3, <1>4, <1>5, <1>6, <1>7, <1>8, <1>9, <1>10, <1>11, <1>12
  DEF Next, AppStep

-----------------------------------------------------------------------------
(* The invariant, and what it says of the application's stream.               *)

GapsInv == QueuedInv /\ BufKept /\ MicKept /\ RingKept /\ StreamKept

LEMMA GapsInit == Init => GapsInv
<1> SUFFICES ASSUME Init
             PROVE  GapsInv
  OBVIOUS
<1>1. QueuedInv
  BY QueuedInit
<1>2. buf = <<>> /\ usbh.events = <<>> /\ usbh.ctrl = "idle" /\ ~ep.has /\ app.pc = "idle"
      /\ ~polled /\ ~ring_on /\ ring = EmptyRing /\ last = <<Gap>> /\ dev.next = 0
  BY DEF Init, UsbhIdle, EpClosed, NoMic
<1>3. BufKept
  BY <1>2, NoneFailed DEF BufKept
<1>4. MicKept
  BY <1>2, NothingDue DEF MicKept, Starts, StartKinds, Calling
<1>5. RingKept
  BY <1>2 DEF RingKept
<1>6. StreamKept
  <2>1. EmptyRing \in Rings /\ Gap \in Recs /\ 0 \in 0 .. Ids - 1
    BY EmptyHolding, IsoAssumption DEF Recs
  <2> QED
    BY <1>2, <2>1 DEF StreamKept
<1> QED
  BY <1>1, <1>3, <1>4, <1>5, <1>6 DEF GapsInv

LEMMA GapsNext == GapsInv /\ [Next]_vars => GapsInv'
BY QueuedNext, BufNext, MicNext, RingNext, StreamNext DEF GapsInv

\* A record before the others.
LEMMA Before ==
  ASSUME NEW p \in Recs, NEW s \in Seq(Recs), NEW q
  PROVE  /\ Len(<<p>> \o s) = Len(s) + 1 /\ Len(s) \in Nat
         /\ \A i \in 1 .. Len(s) + 1 :
              (<<p>> \o s)[i] \in Recs /\ (<<p>> \o s)[i] = Link(p, s, q, i - 1)
<1>1. PICK e \in Seq(Recs) : e = <<p>> /\ Len(e) = 1 /\ e[1] = p
  <2>1. <<p>> \in Seq(Recs) /\ Len(<<p>>) = 1 /\ <<p>>[1] = p
    OBVIOUS
  <2> QED
    BY <2>1
<1>2. PICK u : u = e \o s
  OBVIOUS
<1>3. /\ u \in Seq(Recs) /\ Len(u) = Len(e) + Len(s)
      /\ \A i \in 1 .. Len(e) : u[i] = e[i]
      /\ \A i \in 1 .. Len(s) : u[Len(e) + i] = s[i]
  BY <1>2, RecParts
<1>4. Len(s) \in Nat
  OBVIOUS
<1>5. ASSUME NEW i \in 1 .. Len(s) + 1
      PROVE  u[i] \in Recs /\ u[i] = Link(p, s, q, i - 1)
  <2>1. u[i] \in Recs
    BY <1>1, <1>3, <1>4
  <2>2. CASE i = 1
    BY <1>1, <1>3, <2>1, <2>2 DEF Link
  <2>3. CASE i # 1
    <3>1. i - 1 \in 1 .. Len(s) /\ i - 1 # 0 /\ i - 1 # Len(s) + 1 /\ 1 + (i - 1) = i
      BY <1>4, <2>3
    <3>2. u[i] = s[i - 1]
      BY <1>1, <1>3, <3>1
    <3> QED
      BY <2>1, <3>1, <3>2 DEF Link
  <2> QED
    BY <2>2, <2>3
<1> QED
  BY <1>1, <1>2, <1>3, <1>4, <1>5

LEMMA GapsShown == GapsInv => GapsMarked
<1> SUFFICES ASSUME GapsInv, ring_on
             PROVE  GapsMarked
  BY DEF GapsMarked
<1>1. PICK p \in Recs : last = <<p>> /\ Kept(buf, ring, p, Awaited)
  BY DEF GapsInv, StreamKept
<1>2. PICK q : q = Awaited
  OBVIOUS
<1>3. PICK R : Coded(buf, R) /\ Carries(p, R, ring, q) /\ ~ring.lost
  BY <1>1, <1>2, Zenon DEF Kept
<1>4. PICK rs : Holding(ring, rs) /\ Path(p, R \o rs, q)
  BY <1>3, Zenon DEF Carries
<1>5. R \in Seq(Recs) /\ rs \in Seq(Recs)
  BY <1>3, <1>4, HoldingType, Zenon DEF Carries
<1>6. PICK s \in Seq(Recs) : s = R \o rs
  <2>1. R \o rs \in Seq(Recs)
    BY <1>5
  <2> QED
    BY <2>1
<1>7. Waiting = s
  <2>1. process_records(buf) = R
    BY <1>3, ProcessCoded, Zenon
  <2>2. Coded(Front(ring, ring.count), rs)
    BY <1>4, Zenon DEF Holding, Contents
  <2>3. process_records(Front(ring, ring.count)) = rs
    BY <2>2, ProcessCoded, Zenon
  <2>4. s \o <<>> = s
    OBVIOUS
  <2> QED
    BY <1>3, <1>6, <2>1, <2>3, <2>4, Zenon DEF Waiting
<1>8. PICK u : u = <<p>> \o s
  OBVIOUS
<1>9. last \o Waiting = u
  BY <1>1, <1>7, <1>8, Zenon
<1>10. /\ Len(u) = Len(s) + 1 /\ Len(s) \in Nat
       /\ \A i \in 1 .. Len(s) + 1 : u[i] \in Recs /\ u[i] = Link(p, s, q, i - 1)
  BY <1>8, Before
<1>11. \A i \in 0 .. Len(s) : Follows(Link(p, s, q, i), Link(p, s, q, i + 1))
  <2>1. Path(p, s, q)
    BY <1>4, <1>6, Zenon
  <2> QED
    BY <2>1 DEF Path
<1>12. ASSUME NEW i \in 1 .. Len(u)
       PROVE  /\ u[i] # Partial
              /\ IsPacket(u[i]) =>
                   /\ Len(u[i]) \in 1 .. MaxLen
                   /\ \A k \in 1 .. Len(u[i]) : u[i][k] = u[i][1]
                   /\ IF i < Len(u)
                      THEN IsPacket(u[i + 1]) => u[i + 1][1] = (u[i][1] + 1) % Ids
                      ELSE polled => dev.next = (u[i][1] + 1) % Ids
  <2>1. PICK x \in Recs : x = u[i]
    BY <1>10
  <2>2. x # Partial
    <3>1. Gap # Partial
      BY DEF Gap, Partial
    <3>2. x \in Packets => x # Partial
      BY PacketType, Zenon
    <3> QED
      BY <3>1, <3>2 DEF Recs
  <2>3. ASSUME x # Gap
        PROVE  Len(x) \in 1 .. MaxLen /\ \A k \in 1 .. Len(x) : x[k] = x[1]
    BY <2>3, RecPacket, Zenon
  <2>4. Follows(x, Link(p, s, q, i))
    <3>1. i - 1 \in 0 .. Len(s) /\ (i - 1) + 1 = i
      BY <1>10
    <3>2. x = Link(p, s, q, i - 1)
      BY <1>10, <2>1
    <3> QED
      BY <1>11, <3>1, <3>2
  <2>5. ASSUME i < Len(u), x # Gap, IsPacket(u[i + 1])
        PROVE  u[i + 1][1] = (x[1] + 1) % Ids
    <3>1. i + 1 \in 1 .. Len(s) + 1 /\ (i + 1) - 1 = i
      BY <1>10, <2>5
    <3>2. u[i + 1] = Link(p, s, q, i)
      BY <1>10, <3>1
    <3>3. u[i + 1] # Gap
      BY <2>5 DEF IsPacket
    <3> QED
      BY <2>4, <2>5, <3>2, <3>3 DEF Follows
  <2>6. ASSUME ~(i < Len(u)), x # Gap, polled
        PROVE  dev.next = (x[1] + 1) % Ids
    <3>1. i = Len(s) + 1 /\ i # 0
      BY <1>10, <2>6
    <3>2. Link(p, s, q, i) = q
      BY <3>1, Zenon DEF Link
    <3>3. q = NumberRec(dev.next)
      BY <1>2, <2>6 DEF Awaited
    <3>4. q # Gap /\ q[1] = dev.next
      BY <3>3, NumberRecs DEF GapsInv, StreamKept
    <3> QED
      BY <2>4, <2>6, <3>2, <3>4, Zenon DEF Follows
  <2>7. IsPacket(x) => x # Gap
    BY DEF IsPacket
  <2> QED
    BY <2>1, <2>2, <2>3, <2>5, <2>6, <2>7
<1> QED
  BY <1>9, <1>12 DEF GapsMarked

\* Between two beginnings of polling, of the packets the host hears of the application
\* gets each one whole and in order or a marker where it is missing, whatever is damaged
\* after its PID or dropped from a full ring (iso_ring_receive, iso_ring_drop_oldest and
\* the handing over of the library, process_records of the microphone example).  Packets
\* the host takes for silence are not among them.
THEOREM GapsAreMarked == Spec => []GapsMarked
BY GapsInit, GapsNext, GapsShown, PTL DEF Spec
=============================================================================
