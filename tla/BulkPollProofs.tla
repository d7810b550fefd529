---------------------------- MODULE BulkPollProofs ----------------------------
(* Proofs about BulkPoll for every packet size, ring, transfer length, number *)
(* of retries and burst: where the check bits of a PID are right, every       *)
(* packet is taken once and in order; and every snapshot is consistent.       *)
EXTENDS BulkPoll, TLAPS

-----------------------------------------------------------------------------
(* Types, and what the steps of the frame handler make of the endpoint.       *)

Lengths == 0 .. EpSize
FramePcs == {"idle", "frame_count", "frame_unlock", "poll", "lock", "polls", "judge",
             "bytes", "write", "unlock"}
AckPcs == {"lock", "polls", "judge"}

Answers == [len : Lengths \cup {-1}, no : Nat,
            pid : {"none", "NAK", "STALL", "DATA0", "DATA1", "bad"}]
Devices == [toggle : {0, 1}, acked : Nat, sent : Seq(Lengths)]
Frames(pcs) == [pc : pcs, extra : Nat, polls : Nat, got : Answers, result : {-1, 0, 1}]
Transfers(toggles) ==
  [data_id : toggles, has : BOOLEAN, actual_len : Nat, failed_count : Nat]
Packets == [no : Nat, len : Lengths]

DevType ==
  /\ dev \in Devices
  /\ dev.toggle = dev.acked % 2
  /\ Len(dev.sent) \in {dev.acked, dev.acked + 1}

HostType ==
  /\ stream \in BOOLEAN
  /\ taken \in Seq(Packets)
  /\ ep \in Transfers({0, 1})
  /\ ep.data_id = Len(taken) % 2
  /\ frame \in Frames(FramePcs)

\* A step that takes the packet that has come in, one that throws it away, and one that
\* leaves it waiting.
Takes ==
  /\ frame.pc \in AckPcs /\ IsNew /\ Take
  /\ UNCHANGED <<stream, dev>>
  /\ frame' \in Frames(FramePcs \ AckPcs) /\ ep' \in Transfers({1 - ep.data_id})

Leaves ==
  /\ frame.pc \notin AckPcs \/ ~IsNew
  /\ UNCHANGED <<stream, dev, taken>>
  /\ frame' \in Frames(FramePcs \ AckPcs) /\ ep' \in Transfers({ep.data_id})

Waits ==
  /\ UNCHANGED <<stream, dev, taken>>
  /\ frame' \in Frames(FramePcs) /\ ep' \in Transfers({ep.data_id})
  /\ frame'.got = frame.got /\ (frame'.pc \in AckPcs <=> frame.pc \in AckPcs)

LEMMA Parity ==
  ASSUME NEW n \in Nat
  PROVE  n % 2 \in {0, 1} /\ (n + 1) % 2 = 1 - (n % 2)
BY SMT

\* The packet the device offers comes after all it has seen acknowledged, and what it
\* has sent before stays.
LEMMA OfferedNext ==
  ASSUME DevType, NEW len \in Lengths
  PROVE  /\ Offered(len) \in Seq(Lengths)
         /\ Len(Offered(len)) = dev.acked + 1
         /\ \A i \in 1 .. Len(dev.sent) : Offered(len)[i] = dev.sent[i]
<1>1. CASE Len(dev.sent) > dev.acked
  BY <1>1 DEF DevType, Devices, Offered
<1>2. CASE ~(Len(dev.sent) > dev.acked)
  <2>1. dev.sent \in Seq(Lengths) /\ Len(dev.sent) = dev.acked /\ dev.acked \in Nat
    BY <1>2 DEF DevType, Devices
  <2>2. Offered(len) = Append(dev.sent, len)
    BY <1>2 DEF Offered
  <2> QED
    BY <2>1, <2>2
<1> QED
  BY <1>1, <1>2

LEMMA AcknowledgedFields ==
  ASSUME NEW d \in Devices
  PROVE  LET e == [d EXCEPT !.toggle = 1 - @, !.acked = @ + 1]
         IN  e \in Devices /\ e.toggle = 1 - d.toggle /\ e.acked = d.acked + 1 /\ e.sent = d.sent
<1>1. d.toggle \in {0, 1} /\ d.acked \in Nat
  BY DEF Devices
<1>2. 1 - d.toggle \in {0, 1} /\ d.acked + 1 \in Nat
  BY <1>1
<1> QED
  BY <1>2 DEF Devices

LEMMA ExchangedFields ==
  ASSUME NEW f \in Frames(FramePcs), NEW got \in Answers
  PROVE  LET g == [f EXCEPT !.pc = "lock", !.polls = @ + 1, !.got = got]
         IN  g \in Frames({"lock"}) /\ g.got = got /\ g.extra = f.extra
<1>1. f.polls + 1 \in Nat
  BY DEF Frames
<1> QED
  BY <1>1 DEF Frames

\* What becomes of the frame handler's record.
LEMMA GotoFields ==
  ASSUME frame \in Frames(FramePcs), NEW pc \in FramePcs
  PROVE  /\ Goto(pc) => frame' \in Frames({pc}) /\ frame'.got = frame.got
         /\ \A result \in {-1, 0, 1} :
              [frame EXCEPT !.pc = pc, !.result = result] \in Frames({pc})
         /\ [frame EXCEPT !.pc = pc, !.extra = 0] \in Frames({pc})
BY DEF Goto, Frames

LEMMA BurstsFields ==
  ASSUME frame \in Frames(FramePcs), NEW goes_on, Bursts(goes_on)
  PROVE  frame' \in Frames({"poll", "idle"})
<1>1. Nothing \in Answers /\ frame.extra + 1 \in Nat
  BY DEF Nothing, Answers, Frames
<1>2. [frame EXCEPT !.pc = "poll", !.extra = @ + 1, !.got = Nothing] \in Frames({"poll"})
  BY <1>1 DEF Frames
<1>3. [frame EXCEPT !.pc = "idle", !.extra = 0, !.got = Nothing] \in Frames({"idle"})
  BY <1>1 DEF Frames
<1>4. /\ Frames({"poll"}) \subseteq Frames({"poll", "idle"})
      /\ Frames({"idle"}) \subseteq Frames({"poll", "idle"})
  BY DEF Frames
<1> QED
  BY <1>2, <1>3, <1>4 DEF Bursts

\* An exchange brings nothing, or the packet after the acknowledged ones.  With sound
\* check bits its PID has the device's toggle.
Brings(no) ==
  /\ Len(dev'.sent) = no /\ frame'.got.no = no
  /\ frame'.got.len = dev'.sent[no] /\ frame'.got.len >= 0
  /\ frame'.got.pid \in {Pid(dev.toggle), "bad"}
  /\ ~PidDamage => frame'.got.pid = Pid(dev.toggle)

LEMMA Exchanged ==
  ASSUME DevType, HostType, Exchange
  PROVE  /\ DevType' /\ HostType'
         /\ frame' \in Frames({"lock"}) /\ frame'.extra = frame.extra
         /\ UNCHANGED <<stream, ep, taken, ring, stats, snap>>
         /\ dev'.acked \in {dev.acked, dev.acked + 1}
         /\ Len(dev'.sent) >= Len(dev.sent)
         /\ \A i \in 1 .. Len(dev.sent) : dev'.sent[i] = dev.sent[i]
         /\ \/ frame'.got.len = -1 /\ dev'.acked = dev.acked
            \/ Brings(dev.acked + 1)
<1> DEFINE no == dev.acked + 1
           sent(got) == [frame EXCEPT !.pc = "lock", !.polls = @ + 1, !.got = got]
           offer(len) == [dev EXCEPT !.sent = Offered(len)]
           heard(len) == [Acknowledged EXCEPT !.sent = offer(len).sent]
<1>1. PICK len \in Lengths :
        \/ /\ dev' \in {dev, offer(len)}
           /\ \E pid \in {"none", "NAK", "STALL", "DATA0", "DATA1"} :
                frame' = sent([Nothing EXCEPT !.pid = pid])
        \/ /\ dev' \in {offer(len), heard(len)}
           /\ \E pid \in {Pid(dev.toggle), "bad"} :
                /\ ~PidDamage => pid = Pid(dev.toggle)
                /\ frame' = sent([len |-> offer(len).sent[no], pid |-> pid, no |-> no])
  BY DEF Exchange, Lengths, Pid
<1>2. /\ Offered(len) \in Seq(Lengths) /\ Len(Offered(len)) = no
      /\ \A i \in 1 .. Len(dev.sent) : Offered(len)[i] = dev.sent[i]
  BY OfferedNext
<1>3. /\ dev \in Devices /\ dev.acked \in Nat /\ dev.toggle \in {0, 1} /\ dev.sent \in Seq(Lengths)
      /\ Len(dev.sent) \in {dev.acked, no} /\ no \in Nat /\ no = dev.acked + 1
  BY DEF DevType, Devices
<1>4. dev.toggle = dev.acked % 2 /\ no % 2 = 1 - dev.toggle
  BY <1>3, Parity DEF DevType
<1>5. UNCHANGED <<stream, ep, taken, ring, stats, snap>>
  BY DEF Exchange
<1>6. /\ offer(len).toggle = dev.toggle /\ offer(len).acked = dev.acked
      /\ offer(len).sent = Offered(len) /\ offer(len) \in Devices
  BY <1>2, <1>3 DEF Devices
<1>7. /\ Acknowledged.toggle = 1 - dev.toggle /\ Acknowledged.acked = no /\ Acknowledged \in Devices
  BY <1>3, AcknowledgedFields DEF Acknowledged
<1> HIDE DEF offer
<1>8. /\ heard(len).toggle = 1 - dev.toggle /\ heard(len).acked = no
      /\ heard(len).sent = Offered(len) /\ heard(len) \in Devices
  BY <1>2, <1>6, <1>7 DEF Devices
<1> HIDE DEF heard
<1>9. \A got \in Answers :
        sent(got) \in Frames({"lock"}) /\ sent(got).got = got /\ sent(got).extra = frame.extra
  BY ExchangedFields DEF HostType
<1> HIDE DEF sent, no
<1>10. /\ frame' \in Frames({"lock"}) /\ frame'.extra = frame.extra
       /\ \/ frame'.got.len = -1 /\ dev' \in {dev, offer(len)}
          \/ /\ dev' \in {offer(len), heard(len)}
             /\ \E pid \in {Pid(dev.toggle), "bad"} :
                  /\ ~PidDamage => pid = Pid(dev.toggle)
                  /\ frame'.got = [len |-> Offered(len)[no], pid |-> pid, no |-> no]
  <2>1. CASE \E pid \in {"none", "NAK", "STALL", "DATA0", "DATA1"} :
               dev' \in {dev, offer(len)} /\ frame' = sent([Nothing EXCEPT !.pid = pid])
    <3>1. PICK pid \in {"none", "NAK", "STALL", "DATA0", "DATA1"} :
            dev' \in {dev, offer(len)} /\ frame' = sent([Nothing EXCEPT !.pid = pid])
      BY <2>1
    <3>2. [Nothing EXCEPT !.pid = pid] = [len |-> -1, pid |-> pid, no |-> 0]
      BY DEF Nothing
    <3>3. [len |-> -1, pid |-> pid, no |-> 0] \in Answers
      BY DEF Answers
    <3> QED
      BY <1>9, <3>1, <3>2, <3>3
  <2>2. CASE /\ dev' \in {offer(len), heard(len)}
             /\ \E pid \in {Pid(dev.toggle), "bad"} :
                  /\ ~PidDamage => pid = Pid(dev.toggle)
                  /\ frame' = sent([len |-> offer(len).sent[no], pid |-> pid, no |-> no])
    <3>1. PICK pid \in {Pid(dev.toggle), "bad"} :
            /\ ~PidDamage => pid = Pid(dev.toggle)
            /\ frame' = sent([len |-> Offered(len)[no], pid |-> pid, no |-> no])
      BY <1>6, <2>2
    <3>2. Offered(len)[no] \in Lengths
      BY <1>2, <1>3
    <3>3. [len |-> Offered(len)[no], pid |-> pid, no |-> no] \in Answers
      BY <1>3, <3>2 DEF Answers, Pid
    <3> QED
      BY <1>9, <2>2, <3>1, <3>3
  <2> QED
    BY <1>1, <2>1, <2>2
<1>11. dev' \in {dev, offer(len), heard(len)} /\ dev' \in Devices
  BY <1>3, <1>6, <1>8, <1>10
<1>12. DevType'
  <2>1. CASE dev' = dev
    BY <2>1 DEF DevType, Devices
  <2>2. CASE dev' = offer(len)
    BY <1>2, <1>3, <1>4, <1>6, <1>11, <2>2 DEF DevType
  <2>3. CASE dev' = heard(len)
    BY <1>2, <1>3, <1>4, <1>8, <1>11, <2>3 DEF DevType
  <2> QED
    BY <1>11, <2>1, <2>2, <2>3
<1>13. HostType'
  BY <1>5, <1>10 DEF HostType, FramePcs, Frames
<1>14. dev'.sent \in {dev.sent, Offered(len)} /\ dev'.acked \in {dev.acked, no}
  BY <1>6, <1>8, <1>11
<1>15. Len(Offered(len)) >= Len(dev.sent)
  BY <1>2, <1>3
<1>16. /\ Len(dev'.sent) >= Len(dev.sent)
       /\ \A i \in 1 .. Len(dev.sent) : dev'.sent[i] = dev.sent[i]
  BY <1>2, <1>14, <1>15
<1>17. CASE frame'.got.len = -1 /\ dev' \in {dev, offer(len)}
  <2>1. dev'.acked = dev.acked
    BY <1>6, <1>17
  <2> QED
    BY <1>5, <1>10, <1>12, <1>13, <1>16, <1>17, <2>1
<1>18. CASE /\ dev' \in {offer(len), heard(len)}
            /\ \E pid \in {Pid(dev.toggle), "bad"} :
                 /\ ~PidDamage => pid = Pid(dev.toggle)
                 /\ frame'.got = [len |-> Offered(len)[no], pid |-> pid, no |-> no]
  <2>1. dev'.sent = Offered(len)
    BY <1>6, <1>8, <1>18
  <2>2. Offered(len)[no] >= 0
    <3>1. Offered(len)[no] \in Lengths
      BY <1>2, <1>3
    <3> QED
      BY <3>1 DEF Lengths
  <2>3. Brings(no)
    BY <1>2, <1>18, <2>1, <2>2 DEF Brings
  <2> QED
    BY <1>5, <1>10, <1>12, <1>13, <1>14, <1>16, <2>3 DEF no
<1> QED
  BY <1>10, <1>17, <1>18

\* The stream's steps after an exchange.
LEMMA StreamSteps ==
  ASSUME HostType, Lock \/ CountPoll \/ JudgeNew \/ CountBytes \/ Write \/ JudgeOther \/ Unlock
  PROVE  Takes \/ Leaves \/ Waits
<1>1. frame \in Frames(FramePcs) /\ ep \in Transfers({ep.data_id}) /\ ep \in Transfers({0, 1})
  BY DEF HostType, Transfers
<1>2. CASE Lock
  <2>1. frame' \in Frames({"polls"}) /\ frame'.got = frame.got
    BY <1>1, <1>2, GotoFields DEF Lock, FramePcs
  <2> QED
    BY <1>1, <1>2, <2>1 DEF Waits, Lock, Core0, Frames, FramePcs, AckPcs
<1>3. CASE CountPoll
  <2>1. frame' \in Frames({"judge"}) /\ frame'.got = frame.got
    BY <1>1, <1>3, GotoFields DEF CountPoll, FramePcs
  <2> QED
    BY <1>1, <1>3, <2>1 DEF Waits, CountPoll, Core0, Frames, FramePcs, AckPcs
<1>4. CASE JudgeNew
  <2>1. frame' \in Frames({"bytes"})
    BY <1>1, <1>4, GotoFields DEF JudgeNew, FramePcs
  <2>2. ep' \in Transfers({1 - ep.data_id})
    BY <1>1, <1>4 DEF JudgeNew, Transfers
  <2> QED
    BY <1>4, <2>1, <2>2 DEF Takes, JudgeNew, Core0, Frames, FramePcs, AckPcs
<1>5. CASE CountBytes
  <2>1. frame' \in Frames({"write"})
    BY <1>1, <1>5, GotoFields DEF CountBytes, FramePcs
  <2> QED
    BY <1>1, <1>5, <2>1 DEF Leaves, CountBytes, Core0, Frames, FramePcs, AckPcs
<1>6. CASE Write
  <2>1. frame' \in Frames({"unlock"})
    BY <1>1, <1>6, GotoFields DEF Write, FramePcs
  <2> QED
    BY <1>1, <1>6, <2>1 DEF Leaves, Write, Core0, Frames, FramePcs, AckPcs
<1>7. CASE JudgeOther
  <2>1. frame' \in Frames({"unlock"})
    BY <1>1, <1>7, GotoFields DEF JudgeOther, FramePcs
  <2> QED
    BY <1>1, <1>7, <2>1 DEF Leaves, JudgeOther, Core0, Frames, FramePcs, AckPcs
<1>8. CASE Unlock
  <2>1. frame' \in Frames({"poll", "idle"})
    BY <1>1, <1>8, BurstsFields DEF Unlock
  <2> QED
    BY <1>1, <1>8, <2>1 DEF Leaves, Unlock, Core0, Frames, FramePcs, AckPcs
<1> QED
  BY <1>2, <1>3, <1>4, <1>5, <1>6, <1>7, <1>8

\* A queued transfer's step after an exchange.
LEMMA TransferSteps ==
  ASSUME HostType, Transfer
  PROVE  Takes \/ Leaves
<1>1. frame \in Frames(FramePcs) /\ ep \in Transfers({0, 1})
  BY DEF HostType
<1>2. frame' \in Frames({"poll", "idle"})
  BY <1>1, BurstsFields DEF Transfer
<1>3. CASE IsNew
  <2>1. ep.actual_len + frame.got.len \in Nat
    BY <1>1, <1>3, PollAssumption DEF IsNew, Frames, Answers, Lengths, Transfers
  <2>2. Transferred \in Transfers({1 - ep.data_id})
    BY <1>1, <1>3, <2>1 DEF Transferred, Complete, Transfers
  <2> QED
    BY <1>2, <1>3, <2>2 DEF Takes, Transfer, Core0, Frames, FramePcs, AckPcs
<1>4. CASE ~IsNew
  <2>1. ep.failed_count + 1 \in Nat
    BY <1>1 DEF Transfers
  <2>2. Transferred \in Transfers({ep.data_id})
    BY <1>1, <1>4, <2>1 DEF Transferred, Complete, Transfers
  <2> QED
    BY <1>2, <1>4, <2>2 DEF Leaves, Transfer, Core0, Frames, FramePcs, AckPcs
<1> QED
  BY <1>3, <1>4

\* Every step is an exchange or one of the three.
LEMMA Steps ==
  ASSUME HostType, [Next]_vars
  PROVE  Exchange \/ Takes \/ Leaves \/ Waits
<1>1. frame \in Frames(FramePcs) /\ ep \in Transfers({ep.data_id})
  BY DEF HostType, Transfers
<1>2. CASE FrameBegin
  <2>1. frame' \in Frames({"idle", "frame_count", "poll"}) /\ frame.pc = "idle"
    <3>1. CASE UNCHANGED frame
      BY <1>1, <1>2, <3>1 DEF FrameBegin, Frames
    <3>2. CASE Goto("frame_count")
      BY <1>1, <1>2, <3>2, GotoFields DEF FrameBegin, Frames, FramePcs
    <3>3. CASE frame' = [frame EXCEPT !.pc = "poll", !.extra = 0]
      BY <1>1, <1>2, <3>3, GotoFields DEF FrameBegin, Frames, FramePcs
    <3> QED
      BY <1>2, <3>1, <3>2, <3>3 DEF FrameBegin
  <2> QED
    BY <1>1, <1>2, <2>1 DEF Leaves, FrameBegin, Core0, Frames, FramePcs, AckPcs
<1>3. CASE FrameCount
  <2>1. frame' \in Frames({"frame_unlock"})
    BY <1>1, <1>3, GotoFields DEF FrameCount, FramePcs
  <2> QED
    BY <1>1, <1>3, <2>1 DEF Leaves, FrameCount, Core0, Frames, FramePcs, AckPcs
<1>4. CASE FrameUnlock
  <2>1. frame' \in Frames({"poll"})
    BY <1>1, <1>4, GotoFields DEF FrameUnlock, FramePcs
  <2> QED
    BY <1>1, <1>4, <2>1 DEF Leaves, FrameUnlock, Core0, Frames, FramePcs, AckPcs
<1>5. CASE Queue
  <2>1. ep' \in Transfers({ep.data_id})
    BY <1>1, <1>5 DEF Queue, Transfers
  <2> QED
    BY <1>1, <1>5, <2>1 DEF Waits, Queue, Core1
<1>6. CASE Read \/ SnapBegin \/ SnapFirst \/ SnapSecond \/ SnapCheck \/ SnapDone \/ UNCHANGED vars
  <2>1. UNCHANGED <<stream, dev, taken, ep, frame>>
    BY <1>6 DEF Read, SnapBegin, SnapFirst, SnapSecond, SnapCheck, SnapDone, Core1, vars
  <2> QED
    BY <1>1, <2>1 DEF Waits
<1> QED
  BY <1>2, <1>3, <1>4, <1>5, <1>6, StreamSteps, TransferSteps DEF Next, FrameStep, AppStep

\* The packet a step takes is appended, with the toggle moving on.
LEMMA TakesFields ==
  ASSUME HostType, Takes
  PROVE  LET packet == [no |-> frame.got.no, len |-> frame.got.len]
         IN  /\ taken' \in Seq(Packets) /\ Len(taken') = Len(taken) + 1
             /\ \A i \in 1 .. Len(taken) : taken'[i] = taken[i]
             /\ taken'[Len(taken) + 1] = packet
             /\ Len(taken) \in Nat /\ HostType'
<1> DEFINE packet == [no |-> frame.got.no, len |-> frame.got.len]
<1>1. packet \in Packets
  BY PollAssumption DEF HostType, Takes, IsNew, Frames, Answers, Lengths, Packets
<1>2. taken' = Append(taken, packet) /\ taken \in Seq(Packets)
  BY DEF Takes, Take, HostType
<1> HIDE DEF packet
<1>3. /\ taken' \in Seq(Packets) /\ Len(taken') = Len(taken) + 1 /\ Len(taken) \in Nat
      /\ \A i \in 1 .. Len(taken) : taken'[i] = taken[i]
      /\ taken'[Len(taken) + 1] = packet
  BY <1>1, <1>2
<1>4. ep.data_id \in {0, 1} /\ ep.data_id = Len(taken) % 2
  BY DEF HostType, Transfers
<1>5. 1 - ep.data_id \in {0, 1} /\ (Len(taken) + 1) % 2 = 1 - ep.data_id
  BY <1>3, <1>4, Parity
<1>6. HostType'
  BY <1>3, <1>5 DEF HostType, Takes, Transfers, Frames
<1> QED
  BY <1>3, <1>6 DEF packet

\* The types.
TypeInv == DevType /\ HostType

LEMMA InitType == Init => TypeInv
<1>1. Init => DevType
  BY DEF Init, DevType, Devices
<1>2. Init => HostType
  BY PollAssumption DEF Init, HostType, FramePcs, Frames, Transfers, Answers, Nothing
<1> QED
  BY <1>1, <1>2 DEF TypeInv

LEMMA NextType == TypeInv /\ [Next]_vars => TypeInv'
<1> SUFFICES ASSUME TypeInv, [Next]_vars PROVE TypeInv'
  OBVIOUS
<1>1. CASE Exchange
  BY <1>1, Exchanged DEF TypeInv
<1>2. CASE Takes
  BY <1>2, TakesFields DEF TypeInv, Takes, DevType
<1>3. CASE Leaves \/ Waits
  BY <1>3 DEF TypeInv, Leaves, Waits, DevType, HostType, Frames, Transfers
<1> QED
  BY <1>1, <1>2, <1>3, Steps DEF TypeInv

-----------------------------------------------------------------------------
(* Delivery.                                                                  *)

\* Every packet taken is the device's of that number.
TakenInOrder ==
  /\ Len(taken) <= Len(dev.sent)
  /\ \A i \in 1 .. Len(taken) : taken[i] = SentPacket(i)

\* The host has taken what the device has seen acknowledged, and perhaps one more.
Agreed == Len(taken) \in {dev.acked, dev.acked + 1}

\* A packet that has just come in is the last one acknowledged or the one after it, and
\* the host has taken those before it and perhaps the packet itself.
Incoming ==
  LET no == frame.got.no
  IN  /\ no \in {dev.acked, dev.acked + 1} /\ no \in 1 .. Len(dev.sent)
      /\ frame.got.len = dev.sent[no]
      /\ frame.got.pid = Pid((no - 1) % 2)
      /\ Len(taken) \in {no - 1, no}

Delivery ==
  IF frame.pc \in AckPcs /\ frame.got.len >= 0 THEN Incoming ELSE Agreed

DeliveryInv == TypeInv /\ TakenInOrder /\ Delivery

LEMMA PidsDiffer ==
  ASSUME NEW a \in {0, 1}, NEW b \in {0, 1}, Pid(a) = Pid(b)
  PROVE  a = b
BY DEF Pid

\* Whether the packet is new is decided by its toggle.
LEMMA IsNewIncoming ==
  ASSUME DeliveryInv, frame.pc \in AckPcs, frame.got.len >= 0
  PROVE  /\ IsNew => Len(taken) = frame.got.no - 1
         /\ ~IsNew => Len(taken) = frame.got.no
<1> DEFINE n == frame.got.no - 1
<1>1. Incoming /\ HostType /\ DevType
  BY DEF DeliveryInv, TypeInv, Delivery
<1>2. n \in Nat /\ frame.got.no = n + 1 /\ Len(taken) \in {n, n + 1}
  BY <1>1 DEF Incoming, DevType, Devices
<1>3. frame.got.pid = Pid(n % 2) /\ Expected = Pid(Len(taken) % 2)
  BY <1>1 DEF Incoming, HostType, Expected
<1> HIDE DEF n
<1>4. n % 2 \in {0, 1} /\ (n + 1) % 2 \in {0, 1} /\ (n + 1) % 2 # n % 2
  <2>1. n % 2 \in {0, 1} /\ (n + 1) % 2 = 1 - (n % 2)
    BY <1>2, Parity
  <2> QED
    BY <2>1
<1>5. IsNew <=> Pid(n % 2) = Pid(Len(taken) % 2)
  BY <1>3 DEF IsNew
<1>6. CASE Len(taken) = n
  BY <1>2, <1>5, <1>6
<1>7. CASE Len(taken) = n + 1
  <2>1. ~IsNew
    BY <1>4, <1>5, <1>7, PidsDiffer
  <2> QED
    BY <1>2, <1>7, <2>1
<1> QED
  BY <1>2, <1>6, <1>7

LEMMA InitDelivery == Init => DeliveryInv
<1> SUFFICES ASSUME Init PROVE DeliveryInv
  OBVIOUS
<1>1. TakenInOrder /\ Delivery
  BY DEF Init, TakenInOrder, Delivery, Agreed, AckPcs
<1> QED
  BY <1>1, InitType DEF DeliveryInv

LEMMA ExchangeDelivery ==
  ASSUME DeliveryInv, ~PidDamage, Exchange
  PROVE  TakenInOrder' /\ Delivery'
<1> DEFINE no == dev.acked + 1
<1>1. /\ frame' \in Frames({"lock"}) /\ taken' = taken
      /\ dev'.acked \in {dev.acked, no} /\ Len(dev'.sent) >= Len(dev.sent)
      /\ \A i \in 1 .. Len(dev.sent) : dev'.sent[i] = dev.sent[i]
      /\ \/ frame'.got.len = -1 /\ dev'.acked = dev.acked
         \/ Brings(no)
      /\ DevType'
  BY Exchanged DEF DeliveryInv, TypeInv
<1>2. Agreed /\ TakenInOrder /\ DevType
  BY DEF DeliveryInv, TypeInv, Delivery, AckPcs, Exchange
<1>3. /\ dev.acked \in Nat /\ dev.sent \in Seq(Lengths) /\ dev'.sent \in Seq(Lengths)
      /\ Len(taken) \in {dev.acked, no} /\ no \in Nat /\ no - 1 = dev.acked
      /\ dev.toggle = (no - 1) % 2
  BY <1>1, <1>2 DEF DevType, Devices, Agreed
<1>4. TakenInOrder'
  <2>1. Len(taken) <= Len(dev.sent) /\ Len(dev.sent) \in Nat /\ Len(dev'.sent) \in Nat
    BY <1>2, <1>3 DEF TakenInOrder
  <2>2. \A i \in 1 .. Len(taken) : i \in 1 .. Len(dev.sent)
    BY <1>3, <2>1
  <2>3. \A i \in 1 .. Len(taken) : taken[i] = SentPacket(i)'
    BY <1>1, <1>2, <2>2 DEF TakenInOrder, SentPacket
  <2> QED
    BY <1>1, <1>3, <2>1, <2>3 DEF TakenInOrder
<1>5. CASE frame'.got.len = -1 /\ dev'.acked = dev.acked
  BY <1>1, <1>2, <1>4, <1>5 DEF Delivery, Agreed
<1>6. CASE Brings(no)
  <2> HIDE DEF no
  <2>1. no \in {dev'.acked, dev'.acked + 1} /\ no \in 1 .. no
    <3>1. no = dev.acked + 1
      BY DEF no
    <3> QED
      BY <1>1, <1>3, <3>1
  <2>2. Incoming'
    BY <1>1, <1>3, <1>6, <2>1 DEF Incoming, Brings
  <2> QED
    BY <1>1, <1>4, <1>6, <2>2 DEF Delivery, Brings, Frames, AckPcs
<1> QED
  BY <1>1, <1>5, <1>6

\* A new packet is the next one.
LEMMA TakeDelivery ==
  ASSUME DeliveryInv, Takes
  PROVE  TakenInOrder' /\ Delivery'
<1> DEFINE no == frame.got.no
<1>1. Incoming /\ Len(taken) = no - 1 /\ DevType /\ HostType /\ TakenInOrder
  BY IsNewIncoming DEF Takes, IsNew, DeliveryInv, TypeInv, Delivery
<1>2. /\ dev.acked \in Nat /\ no \in {dev.acked, dev.acked + 1} /\ no \in 1 .. Len(dev.sent)
      /\ frame.got.len = dev.sent[no] /\ dev.sent \in Seq(Lengths)
  BY <1>1 DEF Incoming, DevType, Devices
<1>3. /\ Len(taken') = Len(taken) + 1 /\ Len(taken) \in Nat
      /\ \A i \in 1 .. Len(taken) : taken'[i] = taken[i]
      /\ taken'[Len(taken) + 1] = SentPacket(no)
  BY <1>1, <1>2, TakesFields DEF SentPacket
<1> HIDE DEF no
<1>4. Len(taken') = no /\ no \in Nat
  BY <1>1, <1>2, <1>3
<1>5. TakenInOrder'
  <2>1. \A i \in 1 .. Len(taken') : i = no \/ i \in 1 .. Len(taken)
    BY <1>1, <1>2, <1>4
  <2>2. \A i \in 1 .. Len(taken') : taken'[i] = SentPacket(i)
    BY <1>1, <1>2, <1>3, <1>4, <2>1 DEF TakenInOrder
  <2> QED
    BY <1>2, <1>4, <2>2 DEF TakenInOrder, SentPacket, Takes
<1>6. Delivery'
  BY <1>2, <1>4 DEF Delivery, Agreed, Takes, Frames
<1> QED
  BY <1>5, <1>6

\* Anything else is thrown away, or waits.
LEMMA LeaveDelivery ==
  ASSUME DeliveryInv, Leaves \/ Waits
  PROVE  TakenInOrder' /\ Delivery'
<1>1. TakenInOrder'
  BY DEF DeliveryInv, TakenInOrder, SentPacket, Leaves, Waits
<1>2. CASE Waits
  BY <1>1, <1>2 DEF DeliveryInv, Delivery, Agreed, Incoming, Waits
<1>3. CASE Leaves
  <2>1. Agreed
    <3>1. CASE frame.pc \in AckPcs /\ frame.got.len >= 0
      BY <1>3, <3>1, IsNewIncoming
      DEF Leaves, DeliveryInv, TypeInv, Delivery, Incoming, Agreed, DevType, HostType
    <3>2. CASE ~(frame.pc \in AckPcs /\ frame.got.len >= 0)
      BY <3>2 DEF DeliveryInv, Delivery
    <3> QED
      BY <3>1, <3>2
  <2> QED
    BY <1>1, <1>3, <2>1 DEF Leaves, Delivery, Agreed, Frames
<1> QED
  BY <1>2, <1>3

\* Where the check bits of a PID are right in every packet whose CRC is right, the packets
\* the host takes for new are the device's, each once and in order, for every packet
\* size, ring, length of transfers, number of retries and burst (the expected PID and
\* the toggle in usb_bulk_ring_transaction and usb_in_transaction).
THEOREM DeliversOnce == Spec /\ ~PidDamage => []DeliveredOnce
<1>1. DeliveryInv => DeliveredOnce
  BY DEF DeliveryInv, Delivery, DeliveredOnce, TakenInOrder, Agreed, AckPcs
<1>2. CASE PidDamage
  BY <1>2
<1>3. CASE ~PidDamage
  <2>1. DeliveryInv /\ [Next]_vars => DeliveryInv'
    BY <1>3, NextType, Steps, ExchangeDelivery, TakeDelivery, LeaveDelivery
    DEF DeliveryInv, TypeInv
  <2> QED
    BY <1>1, <2>1, InitDelivery, PTL DEF Spec
<1> QED
  BY <1>2, <1>3

-----------------------------------------------------------------------------
(* The counters, and the snapshots of them.                                   *)

UpdatePcs == {"frame_count", "frame_unlock", "polls", "judge", "bytes", "write", "unlock"}
Counters == [words : [Words -> Nat], seq : Nat]
Rings == [active : BOOLEAN, stop : BOOLEAN, waiting : Seq(Nat), read : Nat]
Snaps == [pc : {"idle", "first", "second", "check", "done"}, before : Nat,
          out : [Words -> Nat], available : Nat]

CountType == stats \in Counters /\ ring \in Rings /\ snap \in Snaps

\* The lock is held, the sequence odd, exactly while the counters are updated.
LockHeld == stats.seq % 2 = IF frame.pc \in UpdatePcs THEN 1 ELSE 0

One(b) == IF b THEN 1 ELSE 0

\* Every answer is counted once its packet is judged, a packet's bytes after the packet,
\* and the ring has the bytes, or they are overrun, after that.
PacketsCounted ==
  LET w == stats.words
  IN  /\ w.packets + w.error_packets + One(frame.pc = "judge") <= w.polls
      /\ w.zero_packets + w.overrun_packets
           + One(frame.pc \in {"bytes", "write"} /\ frame.got.len > 0) <= w.packets

BytesAtMost == EpSize * (stats.words.packets - stats.words.zero_packets)

BytesCounted ==
  LET w == stats.words
  IN  /\ frame.pc \in {"bytes", "write"} => frame.got.len \in Lengths
      /\ w.bytes + (IF frame.pc = "bytes" THEN frame.got.len ELSE 0)
           <= BytesAtMost
      /\ w.bytes - w.overrun_bytes - (IF frame.pc = "write" THEN frame.got.len ELSE 0)
           = ring.read + Len(ring.waiting)
      /\ Len(ring.waiting) <= Capacity

\* A frame counts one poll and at most BurstMax more.
FramesCounted ==
  LET room == (1 + BurstMax) * stats.words.active_frames - stats.words.polls
  IN  /\ frame.extra <= BurstMax
      /\ stream =>
           /\ frame.pc \in {"idle", "frame_count"} => room >= 0
           /\ frame.pc = "frame_unlock" => room >= 1 + BurstMax
           /\ frame.pc \in {"poll", "lock", "polls"} => room + frame.extra >= 1 + BurstMax
           /\ frame.pc \in {"judge", "bytes", "write", "unlock"} => room + frame.extra >= BurstMax

Counted == LockHeld /\ PacketsCounted /\ BytesCounted /\ FramesCounted

\* What has been copied is what is counted, as long as the sequence has not moved.
Copied ==
  /\ snap.pc # "idle" => stream
  /\ snap.pc \in {"first", "second", "check"} =>
       /\ snap.before <= stats.seq /\ snap.before % 2 = 0
       /\ snap.before = stats.seq =>
            /\ snap.pc \in {"second", "check"} =>
                 \A w \in FirstWords : snap.out[w] = stats.words[w]
            /\ snap.pc = "check" => \A w \in Words : snap.out[w] = stats.words[w]

CountInv == TypeInv /\ CountType /\ Counted /\ Copied /\ SnapshotConsistent

\* What the two kinds of update make of the counters.
LEMMA CountFields ==
  ASSUME stats \in Counters, NEW more, \A w \in Words \cap DOMAIN more : more[w] \in Nat,
         Count(more)
  PROVE  /\ stats' \in Counters /\ stats'.seq = stats.seq
         /\ \A w \in Words :
              stats'.words[w] = stats.words[w] + (IF w \in DOMAIN more THEN more[w] ELSE 0)
<1>1. \A w \in Words : stats.words[w] \in Nat
  BY DEF Counters
<1>2. Add(more) \in [Words -> Nat]
  BY <1>1 DEF Add
<1>3. stats' = [stats EXCEPT !.words = Add(more)]
  BY DEF Count
<1>4. stats' \in Counters /\ stats'.seq = stats.seq /\ stats'.words = Add(more)
  BY <1>2, <1>3 DEF Counters
<1> QED
  BY <1>4 DEF Add

LEMMA LockedFields ==
  ASSUME stats \in Counters, Locked
  PROVE  stats' \in Counters /\ stats'.seq = stats.seq + 1 /\ stats'.words = stats.words
BY DEF Counters, Locked

LEMMA WordValues ==
  ASSUME stats \in Counters
  PROVE  /\ stats.seq \in Nat
         /\ stats.words.polls \in Nat /\ stats.words.packets \in Nat
         /\ stats.words.bytes \in Nat /\ stats.words.zero_packets \in Nat
         /\ stats.words.error_packets \in Nat /\ stats.words.overrun_packets \in Nat
         /\ stats.words.overrun_bytes \in Nat /\ stats.words.active_frames \in Nat
BY DEF Counters, Words

LEMMA FrameValues ==
  ASSUME HostType
  PROVE  /\ frame \in Frames(FramePcs) /\ frame.pc \in FramePcs /\ frame.extra \in Nat
         /\ frame.got.len \in Lengths \cup {-1} /\ frame.got.len \in Int
BY DEF HostType, Frames, Answers, Lengths

LEMMA Distribute ==
  ASSUME NEW k \in Int, NEW m \in Int, NEW n \in Int
  PROVE  k * (m + n) = k * m + k * n /\ k * m \in Int
BY SMT

LEMMA BytesAtMostInt ==
  ASSUME stats \in Counters
  PROVE  BytesAtMost \in Int
<1>1. EpSize \in Int /\ stats.words.packets - stats.words.zero_packets \in Int
  BY WordValues, PollAssumption
<1>2. EpSize * (stats.words.packets - stats.words.zero_packets) \in Int
  BY <1>1
<1> QED
  BY <1>2 DEF BytesAtMost

\* The first half of a frame's bookkeeping.
LEMMA FrameCounts ==
  ASSUME TypeInv, CountType, Counted, FrameCount
  PROVE  Counted' /\ stats' \in Counters /\ stats'.seq = stats.seq
<1>1. stats \in Counters /\ HostType /\ frame.pc = "frame_count"
  BY DEF TypeInv, CountType, FrameCount
<1>2. /\ frame' = [frame EXCEPT !.pc = "frame_unlock"] /\ frame \in Frames(FramePcs)
      /\ frame.extra \in Nat
  BY <1>1, FrameValues DEF FrameCount, Goto
<1>3. frame'.pc = "frame_unlock" /\ frame'.extra = frame.extra
  BY <1>2 DEF Frames
<1>4. DOMAIN [active_frames |-> 1] = {"active_frames"} /\ [active_frames |-> 1].active_frames = 1
  OBVIOUS
<1>5. /\ stats' \in Counters /\ stats'.seq = stats.seq
      /\ \A w \in Words :
           stats'.words[w] = stats.words[w] + (IF w = "active_frames" THEN 1 ELSE 0)
  <2>1. \A w \in Words \cap DOMAIN [active_frames |-> 1] : [active_frames |-> 1][w] \in Nat
    BY <1>4
  <2>2. Count([active_frames |-> 1])
    BY DEF FrameCount
  <2> HIDE DEF Count
  <2> QED
    BY <1>1, <1>4, <2>1, <2>2, CountFields
<1>6. /\ \A w \in Words \ {"active_frames"} : stats'.words[w] = stats.words[w]
      /\ stats'.words.active_frames = stats.words.active_frames + 1
  BY <1>1, <1>5 DEF Words, Counters
<1>7. UNCHANGED <<ring, stream>>
  BY DEF FrameCount, Core0
<1>8. LockHeld' /\ PacketsCounted' /\ BytesCounted'
  BY <1>1, <1>3, <1>5, <1>6, <1>7
  DEF Counted, LockHeld, PacketsCounted, BytesCounted, BytesAtMost, UpdatePcs, One, Words
<1>9. FramesCounted'
  <2>1. (1 + BurstMax) * (stats.words.active_frames + 1)
          = (1 + BurstMax) * stats.words.active_frames + (1 + BurstMax) * 1
    BY <1>1, WordValues, Distribute, PollAssumption
  <2>2. (1 + BurstMax) * 1 = 1 + BurstMax /\ (1 + BurstMax) * stats.words.active_frames \in Int
    BY <1>1, WordValues, Distribute, PollAssumption
  <2> QED
    BY <1>1, <1>2, <1>3, <1>6, <1>7, <2>1, <2>2, WordValues, PollAssumption
    DEF Counted, FramesCounted, Words
<1> QED
  BY <1>5, <1>8, <1>9 DEF Counted

\* A locked step leaves the counters, and the ring.
LEMMA LockSteps ==
  ASSUME TypeInv, CountType, Counted, FrameUnlock \/ Lock
  PROVE  Counted'
<1>1. /\ stats \in Counters /\ stats.seq \in Nat /\ stats'.seq = stats.seq + 1
      /\ stats'.words = stats.words
  BY LockedFields, WordValues DEF CountType, FrameUnlock, Lock
<1>2. frame \in Frames(FramePcs) /\ frame.extra \in Nat
  BY FrameValues DEF TypeInv
<1>3. \/ /\ frame.pc = "frame_unlock" /\ frame'.pc = "poll" /\ frame'.extra = 0
      \/ frame.pc = "lock" /\ frame'.pc = "polls" /\ frame'.extra = frame.extra
  BY <1>2 DEF FrameUnlock, Lock, Goto, Frames
<1>4. UNCHANGED <<ring, stream>>
  BY DEF FrameUnlock, Lock, Core0
<1>5. LockHeld'
  BY <1>1, <1>3, Parity DEF Counted, LockHeld, UpdatePcs
<1>6. PacketsCounted' /\ BytesCounted'
  BY <1>1, <1>3, <1>4 DEF Counted, PacketsCounted, BytesCounted, BytesAtMost, One
<1>7. FramesCounted'
  <2>1. (1 + BurstMax) * stats.words.active_frames \in Int /\ stats.words.polls \in Int
    BY <1>1, WordValues, Distribute, PollAssumption
  <2> QED
    BY <1>1, <1>2, <1>3, <1>4, <2>1, PollAssumption DEF Counted, FramesCounted
<1> QED
  BY <1>5, <1>6, <1>7 DEF Counted

\* A frame begins.
LEMMA BeginCounts ==
  ASSUME TypeInv, CountType, Counted, FrameBegin
  PROVE  Counted'
<1>1. stats \in Counters /\ stats.seq \in Nat /\ ring \in Rings /\ frame.pc = "idle"
  BY WordValues DEF CountType, FrameBegin
<1>2. frame \in Frames(FramePcs) /\ frame.extra \in Nat
  BY FrameValues DEF TypeInv
<1>3. stream' = stream /\ ring'.waiting = ring.waiting /\ ring'.read = ring.read
  BY <1>1 DEF FrameBegin, Core0, Rings
<1>4. (1 + BurstMax) * stats.words.active_frames \in Int /\ stats.words.polls \in Int
  BY <1>1, WordValues, Distribute, PollAssumption
<1>5. CASE UNCHANGED <<stats, frame>>
  BY <1>1, <1>3, <1>5
  DEF Counted, LockHeld, PacketsCounted, BytesCounted, BytesAtMost, FramesCounted, One, UpdatePcs
<1>6. CASE Locked /\ Goto("frame_count")
  <2>1. stats'.seq = stats.seq + 1 /\ stats'.words = stats.words
    BY <1>1, <1>6, LockedFields
  <2>2. frame'.pc = "frame_count" /\ frame'.extra = frame.extra
    BY <1>2, <1>6 DEF Goto, Frames
  <2>3. LockHeld'
    BY <1>1, <2>1, <2>2, Parity DEF Counted, LockHeld, UpdatePcs
  <2> QED
    BY <1>1, <1>3, <1>4, <2>1, <2>2, <2>3, PollAssumption
    DEF Counted, PacketsCounted, BytesCounted, BytesAtMost, FramesCounted, One
<1>7. CASE ~stream /\ frame' = [frame EXCEPT !.pc = "poll", !.extra = 0] /\ stats' = stats
  <2>1. frame'.pc = "poll" /\ frame'.extra = 0
    BY <1>2, <1>7 DEF Frames
  <2> QED
    BY <1>1, <1>3, <1>7, <2>1, PollAssumption
    DEF Counted, LockHeld, UpdatePcs, PacketsCounted, BytesCounted, BytesAtMost, FramesCounted, One
<1> QED
  BY <1>5, <1>6, <1>7 DEF FrameBegin

\* A poll is counted.
LEMMA PollCounts ==
  ASSUME TypeInv, CountType, Counted, CountPoll
  PROVE  Counted' /\ stats' \in Counters /\ stats'.seq = stats.seq
<1>1. stats \in Counters /\ frame.pc = "polls" /\ UNCHANGED <<ring, stream>>
  BY DEF CountType, CountPoll, Core0
<1>2. /\ frame \in Frames(FramePcs) /\ frame.extra \in Nat /\ frame'.pc = "judge"
      /\ frame'.extra = frame.extra
  BY FrameValues DEF TypeInv, CountPoll, Goto, Frames
<1>3. /\ stats' \in Counters /\ stats'.seq = stats.seq /\ stats'.words.polls = stats.words.polls + 1
      /\ \A w \in Words \ {"polls"} : stats'.words[w] = stats.words[w]
  <2> DEFINE more == [polls |-> 1]
  <2>1. DOMAIN more = {"polls"} /\ more.polls = 1
    OBVIOUS
  <2>2. Count(more)
    BY DEF CountPoll
  <2> HIDE DEF more
  <2>3. /\ stats' \in Counters /\ stats'.seq = stats.seq
        /\ \A w \in Words : stats'.words[w] = stats.words[w] + (IF w = "polls" THEN 1 ELSE 0)
    BY <1>1, <2>1, <2>2, CountFields
  <2> QED
    BY <1>1, <2>3 DEF Words, Counters
<1>4. LockHeld' /\ PacketsCounted' /\ BytesCounted'
  <2>1. LockHeld' /\ PacketsCounted'
    BY <1>1, <1>2, <1>3, WordValues
    DEF Counted, LockHeld, UpdatePcs, PacketsCounted, One, Words
  <2>2. BytesCounted'
    BY <1>1, <1>2, <1>3 DEF Counted, BytesCounted, BytesAtMost, Words
  <2> QED
    BY <2>1, <2>2
<1>5. FramesCounted'
  <2>1. (1 + BurstMax) * stats.words.active_frames \in Int /\ stats.words.polls \in Int
    BY <1>1, WordValues, Distribute, PollAssumption
  <2> QED
    BY <1>1, <1>2, <1>3, <2>1, PollAssumption DEF Counted, FramesCounted, Words
<1> QED
  BY <1>3, <1>4, <1>5 DEF Counted

\* A new packet is counted.
LEMMA NewCounts ==
  ASSUME TypeInv, CountType, Counted, JudgeNew
  PROVE  Counted' /\ stats' \in Counters /\ stats'.seq = stats.seq
<1>1. stats \in Counters /\ frame.pc = "judge" /\ UNCHANGED <<ring, stream>>
  BY DEF CountType, JudgeNew, Core0
<1>2. /\ frame \in Frames(FramePcs) /\ frame.extra \in Nat /\ frame'.pc = "bytes"
      /\ frame'.extra = frame.extra /\ frame'.got = frame.got
      /\ frame.got.len \in Lengths
  BY FrameValues DEF TypeInv, JudgeNew, IsNew, Frames, Lengths
<1> DEFINE len == frame.got.len
           zero == IF len = 0 THEN 1 ELSE 0
<1>3. /\ stats' \in Counters /\ stats'.seq = stats.seq
      /\ stats'.words.packets = stats.words.packets + 1
      /\ stats'.words.zero_packets = stats.words.zero_packets + zero
      /\ \A w \in Words \ {"packets", "zero_packets"} : stats'.words[w] = stats.words[w]
  <2> DEFINE more == [packets |-> 1, zero_packets |-> zero]
  <2>1. /\ DOMAIN more = {"packets", "zero_packets"} /\ more["packets"] = 1
        /\ more["zero_packets"] = zero
    OBVIOUS
  <2>2. Count(more)
    BY DEF JudgeNew
  <2>3. zero \in Nat
    OBVIOUS
  <2> HIDE DEF more, zero
  <2>4. /\ stats' \in Counters /\ stats'.seq = stats.seq
        /\ \A w \in Words : stats'.words[w] =
             stats.words[w] + (IF w \in {"packets", "zero_packets"} THEN more[w] ELSE 0)
    BY <1>1, <2>1, <2>2, <2>3, CountFields
  <2> QED
    BY <1>1, <2>1, <2>4 DEF Words, Counters
<1>4. LockHeld' /\ PacketsCounted'
  BY <1>1, <1>2, <1>3, WordValues
  DEF Counted, LockHeld, UpdatePcs, PacketsCounted, One, Words, Lengths
<1>5. BytesCounted'
  <2> DEFINE new == stats.words.packets - stats.words.zero_packets
  <2>1. /\ EpSize \in Nat /\ new \in Int
        /\ EpSize * (new + (1 - zero)) = EpSize * new + EpSize * (1 - zero)
        /\ EpSize * new \in Int
    BY <1>1, WordValues, Distribute, PollAssumption
  <2>2. len <= EpSize * (1 - zero) /\ EpSize * (1 - zero) \in Int
    BY <1>2, PollAssumption DEF Lengths
  <2>3. stats'.words.packets - stats'.words.zero_packets = new + (1 - zero)
    BY <1>1, <1>3, WordValues
  <2> HIDE DEF new, zero
  <2>4. stats.words.bytes <= EpSize * new /\ stats'.words.bytes = stats.words.bytes
    BY <1>1, <1>3, WordValues DEF Counted, BytesCounted, BytesAtMost, Words, new
  <2>5. stats'.words.bytes + len <= EpSize * (stats'.words.packets - stats'.words.zero_packets)
    BY <1>1, <1>2, <2>1, <2>2, <2>3, <2>4, WordValues DEF Lengths
  <2> QED
    BY <1>1, <1>2, <1>3, <2>5 DEF Counted, BytesCounted, BytesAtMost, Words
<1>6. FramesCounted'
  BY <1>1, <1>2, <1>3 DEF Counted, FramesCounted, Words
<1> QED
  BY <1>3, <1>4, <1>5, <1>6 DEF Counted

\* Its bytes are counted.
LEMMA ByteCounts ==
  ASSUME TypeInv, CountType, Counted, CountBytes
  PROVE  Counted' /\ stats' \in Counters /\ stats'.seq = stats.seq
<1>1. stats \in Counters /\ frame.pc = "bytes" /\ UNCHANGED <<ring, stream>>
  BY DEF CountType, CountBytes, Core0
<1>2. /\ frame \in Frames(FramePcs) /\ frame'.pc = "write" /\ frame'.extra = frame.extra
      /\ frame'.got = frame.got /\ frame.got.len \in Lengths
  BY <1>1, FrameValues DEF TypeInv, CountBytes, Goto, Frames, Counted, BytesCounted
<1> DEFINE len == frame.got.len
<1>3. /\ stats' \in Counters /\ stats'.seq = stats.seq
      /\ stats'.words.bytes = stats.words.bytes + len
      /\ \A w \in Words \ {"bytes"} : stats'.words[w] = stats.words[w]
  <2> DEFINE more == [bytes |-> len]
  <2>1. DOMAIN more = {"bytes"} /\ more["bytes"] = len /\ len \in Nat
    BY <1>2, PollAssumption DEF Lengths
  <2>2. Count(more)
    BY DEF CountBytes
  <2> HIDE DEF more
  <2>3. /\ stats' \in Counters /\ stats'.seq = stats.seq
        /\ \A w \in Words : stats'.words[w] = stats.words[w] + (IF w = "bytes" THEN len ELSE 0)
    BY <1>1, <2>1, <2>2, CountFields
  <2> QED
    BY <1>1, <2>3 DEF Words, Counters
<1>4. LockHeld' /\ PacketsCounted' /\ FramesCounted'
  BY <1>1, <1>2, <1>3
  DEF Counted, LockHeld, UpdatePcs, PacketsCounted, FramesCounted, One, Words
<1>5. BytesCounted'
  <2>1. BytesAtMost' = BytesAtMost /\ BytesAtMost \in Int
    BY <1>1, <1>3, BytesAtMostInt DEF BytesAtMost, Words
  <2>2. /\ stats'.words.overrun_bytes = stats.words.overrun_bytes
        /\ stats'.words.bytes = stats.words.bytes + len /\ len \in Int
    BY <1>2, <1>3 DEF Words, Lengths
  <2>3. /\ stats.words.bytes + len <= BytesAtMost
        /\ stats.words.bytes - stats.words.overrun_bytes - 0 = ring.read + Len(ring.waiting)
        /\ Len(ring.waiting) <= Capacity
    BY <1>1 DEF Counted, BytesCounted
  <2>4. /\ stats.words.bytes \in Nat /\ stats.words.overrun_bytes \in Nat
        /\ ring' = ring
    BY <1>1, WordValues
  <2>5. /\ stats'.words.bytes + 0 <= BytesAtMost'
        /\ stats'.words.bytes - stats'.words.overrun_bytes - len
             = stats.words.bytes - stats.words.overrun_bytes - 0
    BY <2>1, <2>2, <2>3, <2>4
  <2> QED
    BY <1>2, <2>3, <2>4, <2>5 DEF BytesCounted
<1> QED
  BY <1>3, <1>4, <1>5 DEF Counted

\* Less may be owed to the counters than is.
LEMMA Settled ==
  ASSUME stats \in Counters, Counted
  PROVE  /\ stats.words.packets + stats.words.error_packets + 0 <= stats.words.polls
         /\ stats.words.zero_packets + stats.words.overrun_packets + 0 <= stats.words.packets
<1>1. /\ stats.words.polls \in Nat /\ stats.words.packets \in Nat
      /\ stats.words.zero_packets \in Nat /\ stats.words.error_packets \in Nat
      /\ stats.words.overrun_packets \in Nat
  BY WordValues
<1>2. \E m \in {0, 1}, n \in {0, 1} :
        /\ stats.words.packets + stats.words.error_packets + m <= stats.words.polls
        /\ stats.words.zero_packets + stats.words.overrun_packets + n <= stats.words.packets
  BY DEF Counted, PacketsCounted, One
<1> QED
  BY <1>1, <1>2

LEMMA Joined ==
  ASSUME NEW s \in Seq(Nat), NEW t \in Seq(Nat)
  PROVE  s \o t \in Seq(Nat) /\ Len(s \o t) = Len(s) + Len(t) /\ Len(s) \in Nat
OBVIOUS

\* The packet goes to the ring, or is overrun.
LEMMA WriteCounts ==
  ASSUME TypeInv, CountType, Counted, Write
  PROVE  /\ Counted' /\ ring' \in Rings /\ stats' \in Counters /\ stats'.seq = stats.seq
         /\ ring'.read = ring.read
<1>1. /\ stats \in Counters /\ ring \in Rings /\ frame.pc = "write" /\ stream' = stream
      /\ ring.waiting \in Seq(Nat) /\ ring.read \in Nat
  BY DEF CountType, Write, Core0, Rings
<1>2. /\ frame \in Frames(FramePcs) /\ frame'.pc = "unlock" /\ frame'.extra = frame.extra
      /\ frame.got.len \in Lengths /\ frame.extra \in Nat /\ frame.got.no \in Nat
  BY <1>1, FrameValues DEF TypeInv, Write, Goto, Frames, Answers, Counted, BytesCounted
<1> DEFINE len == frame.got.len
<1>3. CASE /\ len > Capacity - Len(ring.waiting) /\ ring' = ring
           /\ Count([overrun_packets |-> 1, overrun_bytes |-> len])
  <2> DEFINE more == [overrun_packets |-> 1, overrun_bytes |-> len]
  <2>1. /\ DOMAIN more = {"overrun_packets", "overrun_bytes"} /\ more["overrun_packets"] = 1
        /\ more["overrun_bytes"] = len /\ len \in Nat
    BY <1>2, PollAssumption DEF Lengths
  <2>2. Count(more)
    BY <1>3
  <2> HIDE DEF more
  <2>3. /\ stats' \in Counters /\ stats'.seq = stats.seq
        /\ \A w \in Words : stats'.words[w] =
             stats.words[w] + (IF w \in {"overrun_packets", "overrun_bytes"} THEN more[w] ELSE 0)
    BY <1>1, <2>1, <2>2, CountFields
  <2>4. /\ stats'.words.overrun_packets = stats.words.overrun_packets + 1
        /\ stats'.words.overrun_bytes = stats.words.overrun_bytes + len
        /\ \A w \in Words \ {"overrun_packets", "overrun_bytes"} :
             stats'.words[w] = stats.words[w]
    <3>1. \A w \in Words : stats.words[w] \in Nat
      BY <1>1 DEF Counters
    <3>2. \A w \in Words \ {"overrun_packets", "overrun_bytes"} :
            stats'.words[w] = stats.words[w]
      BY <2>3, <3>1
    <3>3. {"overrun_packets", "overrun_bytes"} \subseteq Words
      BY DEF Words
    <3>4. /\ stats'.words.overrun_packets = stats.words.overrun_packets + 1
          /\ stats'.words.overrun_bytes = stats.words.overrun_bytes + len
      BY <2>1, <2>3, <3>3
    <3> QED
      BY <3>2, <3>4
  <2>5. len > 0
    <3>1. Len(ring.waiting) \in Nat /\ Len(ring.waiting) <= Capacity /\ Capacity \in Nat
      BY <1>1, PollAssumption DEF Counted, BytesCounted
    <3> QED
      BY <1>3, <2>1, <3>1
  <2>6. LockHeld' /\ PacketsCounted'
    <3>1. LockHeld'
      BY <1>1, <1>2, <2>3 DEF Counted, LockHeld, UpdatePcs
    <3>2. /\ stats'.words.polls = stats.words.polls
          /\ stats'.words.packets = stats.words.packets
          /\ stats'.words.error_packets = stats.words.error_packets
          /\ stats'.words.zero_packets = stats.words.zero_packets
          /\ stats'.words.overrun_packets = stats.words.overrun_packets + 1
      BY <2>4 DEF Words
    <3>3. /\ stats.words.zero_packets + stats.words.overrun_packets + 1 <= stats.words.packets
          /\ stats.words.packets + stats.words.error_packets + 0 <= stats.words.polls
      BY <1>1, <2>5 DEF Counted, PacketsCounted, One
    <3>4. stats'.words.packets + stats'.words.error_packets + 0 <= stats'.words.polls
      BY <3>2, <3>3
    <3>5. stats'.words.zero_packets + stats'.words.overrun_packets + 0 <= stats'.words.packets
      <4>1. stats.words.zero_packets \in Nat /\ stats.words.overrun_packets \in Nat
        BY <1>1, WordValues
      <4>2. stats.words.zero_packets + (stats.words.overrun_packets + 1) + 0
              = stats.words.zero_packets + stats.words.overrun_packets + 1
        BY <4>1
      <4> QED
        BY <3>2, <3>3, <4>2
    <3> QED
      BY <1>2, <3>1, <3>4, <3>5 DEF PacketsCounted, One
  <2>7. BytesCounted'
    <3>1. BytesAtMost' = BytesAtMost /\ BytesAtMost \in Int
      BY <1>1, <2>4, BytesAtMostInt DEF BytesAtMost, Words
    <3>2. /\ stats'.words.bytes = stats.words.bytes
          /\ stats'.words.overrun_bytes = stats.words.overrun_bytes + len
      BY <2>4 DEF Words
    <3>3. /\ stats.words.bytes + 0 <= BytesAtMost
          /\ stats.words.bytes - stats.words.overrun_bytes - len = ring.read + Len(ring.waiting)
          /\ Len(ring.waiting) <= Capacity
      BY <1>1 DEF Counted, BytesCounted
    <3>4. stats.words.bytes \in Nat /\ stats.words.overrun_bytes \in Nat /\ ring' = ring
      BY <1>1, <1>3, WordValues
    <3>5. stats'.words.bytes - stats'.words.overrun_bytes - 0
            = stats.words.bytes - stats.words.overrun_bytes - len
      BY <2>1, <3>2, <3>4
    <3> QED
      BY <1>2, <3>1, <3>2, <3>3, <3>4, <3>5 DEF BytesCounted
  <2>8. FramesCounted'
    BY <1>1, <1>2, <2>4 DEF Counted, FramesCounted, Words
  <2> QED
    BY <1>1, <1>3, <2>3, <2>6, <2>7, <2>8 DEF Counted
<1>4. CASE /\ ~(len > Capacity - Len(ring.waiting)) /\ stats' = stats
           /\ ring' = [ring EXCEPT !.waiting = @ \o [i \in 1 .. len |-> frame.got.no]]
  <2> DEFINE packet == [i \in 1 .. len |-> frame.got.no]
  <2>1. packet \in Seq(Nat) /\ Len(packet) = len /\ len \in Nat
    BY <1>2, PollAssumption DEF Lengths
  <2> HIDE DEF packet
  <2>2. /\ ring.waiting \o packet \in Seq(Nat)
        /\ Len(ring.waiting \o packet) = Len(ring.waiting) + len /\ Len(ring.waiting) \in Nat
    BY <1>1, <2>1, Joined
  <2>3. ring' = [ring EXCEPT !.waiting = @ \o packet]
    BY <1>4 DEF packet
  <2>4. ring' \in Rings /\ ring'.read = ring.read /\ ring'.waiting = ring.waiting \o packet
    BY <1>1, <2>2, <2>3 DEF Rings
  <2>5. LockHeld' /\ FramesCounted'
    BY <1>1, <1>2, <1>4 DEF Counted, LockHeld, UpdatePcs, FramesCounted
  <2>6. PacketsCounted'
    BY <1>1, <1>2, <1>4, Settled DEF PacketsCounted, One
  <2>7. BytesCounted'
    <3>1. BytesAtMost' = BytesAtMost /\ BytesAtMost \in Int /\ Capacity \in Nat
      BY <1>1, <1>4, BytesAtMostInt, PollAssumption DEF BytesAtMost
    <3>2. Len(ring'.waiting) = Len(ring.waiting) + len
      BY <2>2, <2>4
    <3>3. Len(ring'.waiting) <= Capacity
      BY <1>4, <2>1, <2>2, <3>1, <3>2
    <3>4. /\ stats.words.bytes + 0 <= BytesAtMost
          /\ stats.words.bytes - stats.words.overrun_bytes - len
               = ring.read + Len(ring.waiting)
      BY <1>1 DEF Counted, BytesCounted
    <3>5. stats.words.bytes - stats.words.overrun_bytes - 0 = ring'.read + Len(ring'.waiting)
      <4> DEFINE before == Len(ring.waiting)
                 after == Len(ring'.waiting)
      <4>1. /\ stats.words.bytes \in Nat /\ stats.words.overrun_bytes \in Nat
            /\ ring.read \in Nat /\ ring'.read = ring.read
            /\ before \in Nat /\ after \in Nat /\ len \in Nat /\ after = before + len
            /\ stats.words.bytes - stats.words.overrun_bytes - len = ring.read + before
        BY <1>1, <2>1, <2>2, <2>4, <3>2, <3>4, WordValues
      <4> HIDE DEF len, before, after
      <4>2. stats.words.bytes - stats.words.overrun_bytes - 0 = ring'.read + after
        BY <4>1
      <4> QED
        BY <4>2 DEF after
    <3> QED
      BY <1>2, <1>4, <3>1, <3>3, <3>4, <3>5 DEF BytesCounted
  <2> QED
    BY <1>1, <1>4, <2>4, <2>5, <2>6, <2>7 DEF Counted
<1> QED
  BY <1>3, <1>4 DEF Write

\* Anything else is no packet; an error is counted.
LEMMA OtherCounts ==
  ASSUME TypeInv, CountType, Counted, JudgeOther
  PROVE  /\ Counted' /\ ring' \in Rings /\ stats' \in Counters /\ stats'.seq = stats.seq
         /\ ring'.read = ring.read
<1>1. stats \in Counters /\ ring \in Rings /\ frame.pc = "judge" /\ stream' = stream
  BY DEF CountType, JudgeOther, Core0
<1>2. /\ frame \in Frames(FramePcs) /\ frame'.pc = "unlock" /\ frame'.extra = frame.extra
  BY FrameValues DEF TypeInv, JudgeOther, Frames
<1>3. CASE UNCHANGED <<stats, ring>>
  <2>1. LockHeld' /\ FramesCounted'
    BY <1>1, <1>2, <1>3 DEF Counted, LockHeld, UpdatePcs, FramesCounted
  <2>2. PacketsCounted'
    BY <1>1, <1>2, <1>3, WordValues DEF Counted, PacketsCounted, One
  <2>3. BytesCounted'
    BY <1>1, <1>2, <1>3 DEF Counted, BytesCounted, BytesAtMost
  <2> QED
    BY <1>1, <1>3, <2>1, <2>2, <2>3 DEF Counted
<1>4. CASE /\ Count([error_packets |-> 1])
           /\ ring' = [ring EXCEPT !.stop = @ \/ frame.got.pid = "STALL"]
  <2> DEFINE more == [error_packets |-> 1]
  <2>1. DOMAIN more = {"error_packets"} /\ more["error_packets"] = 1
    OBVIOUS
  <2>2. Count(more)
    BY <1>4
  <2> HIDE DEF more
  <2>3. /\ stats' \in Counters /\ stats'.seq = stats.seq
        /\ \A w \in Words :
             stats'.words[w] = stats.words[w] + (IF w = "error_packets" THEN 1 ELSE 0)
    BY <1>1, <2>1, <2>2, CountFields
  <2>4. /\ stats'.words.error_packets = stats.words.error_packets + 1
        /\ \A w \in Words \ {"error_packets"} : stats'.words[w] = stats.words[w]
    BY <1>1, <2>3 DEF Words, Counters
  <2>5. (ring.stop \/ frame.got.pid = "STALL") \in BOOLEAN
    OBVIOUS
  <2>6. ring' \in Rings /\ ring'.waiting = ring.waiting /\ ring'.read = ring.read
    BY <1>1, <1>4, <2>5 DEF Rings
  <2>7. LockHeld' /\ FramesCounted'
    BY <1>1, <1>2, <2>3, <2>4 DEF Counted, LockHeld, UpdatePcs, FramesCounted, Words
  <2>8. PacketsCounted'
    BY <1>1, <1>2, <2>4, WordValues DEF Counted, PacketsCounted, One, Words
  <2>9. BytesCounted'
    BY <1>1, <1>2, <2>4, <2>6 DEF Counted, BytesCounted, BytesAtMost, Words
  <2> QED
    BY <2>3, <2>6, <2>7, <2>8, <2>9 DEF Counted
<1> QED
  BY <1>3, <1>4 DEF JudgeOther

\* What the end of a transaction leaves of the burst.
LEMMA BurstsExtra ==
  ASSUME HostType, frame.extra <= BurstMax, NEW goes_on, Bursts(goes_on)
  PROVE  \/ frame'.pc = "poll" /\ frame'.extra = frame.extra + 1 /\ frame.extra < BurstMax
         \/ frame'.pc = "idle" /\ frame'.extra = 0
<1>1. frame \in Frames(FramePcs) /\ frame.extra \in Nat
  BY FrameValues
<1> QED
  BY <1>1 DEF Bursts, Frames

\* The end of a transaction of the stream.
LEMMA UnlockCounts ==
  ASSUME TypeInv, CountType, Counted, Unlock
  PROVE  Counted'
<1>1. /\ stats \in Counters /\ stats.seq \in Nat /\ stats'.seq = stats.seq + 1
      /\ stats'.words = stats.words /\ frame.pc = "unlock" /\ UNCHANGED <<ring, stream>>
  BY LockedFields, WordValues DEF CountType, Unlock, Core0
<1>2. frame.extra \in Nat /\ frame.extra <= BurstMax
  BY FrameValues DEF TypeInv, Counted, FramesCounted
<1>3. \/ frame'.pc = "poll" /\ frame'.extra = frame.extra + 1 /\ frame.extra < BurstMax
      \/ frame'.pc = "idle" /\ frame'.extra = 0
  BY <1>2, BurstsExtra DEF TypeInv, Unlock
<1>4. LockHeld'
  BY <1>1, <1>3, Parity DEF Counted, LockHeld, UpdatePcs
<1>5. PacketsCounted'
  BY <1>1, <1>3, WordValues DEF Counted, PacketsCounted, One
<1>6. BytesCounted'
  BY <1>1, <1>3 DEF Counted, BytesCounted, BytesAtMost
<1>7. FramesCounted'
  <2> DEFINE most == (1 + BurstMax) * stats.words.active_frames
  <2>1. most \in Int /\ stats.words.polls \in Int /\ BurstMax \in Nat
    BY <1>1, WordValues, Distribute, PollAssumption
  <2>2. stream => most - stats.words.polls + frame.extra >= BurstMax
    BY <1>1 DEF Counted, FramesCounted
  <2>3. (1 + BurstMax) * stats'.words.active_frames = most /\ stats'.words.polls = stats.words.polls
    BY <1>1
  <2> HIDE DEF most
  <2>4. CASE frame'.pc = "poll" /\ frame'.extra = frame.extra + 1 /\ frame.extra < BurstMax
    <3>1. /\ frame'.extra <= BurstMax
          /\ stream => most - stats.words.polls + frame'.extra >= 1 + BurstMax
      BY <1>2, <2>1, <2>2, <2>4
    <3> QED
      BY <1>1, <2>3, <2>4, <3>1 DEF FramesCounted
  <2>5. CASE frame'.pc = "idle" /\ frame'.extra = 0
    <3>1. frame'.extra <= BurstMax /\ (stream => most - stats.words.polls >= 0)
      BY <1>2, <2>1, <2>2, <2>5
    <3> QED
      BY <1>1, <2>3, <2>5, <3>1 DEF FramesCounted
  <2> QED
    BY <1>3, <2>4, <2>5
<1> QED
  BY <1>4, <1>5, <1>6, <1>7 DEF Counted

\* An exchange counts nothing, nor does a queued transfer.
LEMMA UncountedSteps ==
  ASSUME TypeInv, CountType, Counted, Exchange \/ Transfer
  PROVE  Counted'
<1>1. UNCHANGED <<stats, ring, stream>> /\ stats \in Counters
  BY DEF CountType, Exchange, Transfer, Core0
<1>2. frame.extra \in Nat /\ frame.extra <= BurstMax /\ BurstMax \in Nat
  BY FrameValues, PollAssumption DEF TypeInv, Counted, FramesCounted
<1>3. \/ frame.pc = "poll" /\ frame'.pc = "lock" /\ frame'.extra = frame.extra
      \/ /\ frame.pc = "lock" /\ frame'.pc \in {"poll", "idle"} /\ ~stream
         /\ frame'.extra <= BurstMax
  <2>1. CASE Exchange
    BY <2>1, Exchanged DEF TypeInv, Exchange, Frames
  <2>2. CASE Transfer
    <3>1. \/ /\ frame'.pc = "poll" /\ frame'.extra = frame.extra + 1
             /\ frame.extra < BurstMax
          \/ frame'.pc = "idle" /\ frame'.extra = 0
      BY <1>2, <2>2, BurstsExtra DEF TypeInv, Transfer
    <3>2. frame'.extra <= BurstMax
      BY <1>2, <3>1
    <3> QED
      BY <2>2, <3>1, <3>2 DEF Transfer
  <2> QED
    BY <2>1, <2>2
<1>4. LockHeld' /\ FramesCounted'
  BY <1>1, <1>3 DEF Counted, LockHeld, UpdatePcs, FramesCounted
<1>5. PacketsCounted'
  BY <1>1, <1>3, WordValues DEF Counted, PacketsCounted, One
<1>6. BytesCounted'
  BY <1>1, <1>3 DEF Counted, BytesCounted, BytesAtMost
<1> QED
  BY <1>4, <1>5, <1>6 DEF Counted

\* The application's steps count nothing; a read moves bytes out of the ring.
LEMMA AppCounts ==
  ASSUME CountType, Counted, AppStep \/ UNCHANGED vars
  PROVE  /\ Counted' /\ ring' \in Rings /\ UNCHANGED <<stats, stream, frame>>
         /\ UNCHANGED ring \/ (snap.pc = "idle" /\ UNCHANGED snap)
<1>1. UNCHANGED <<stats, stream, frame>> /\ ring \in Rings /\ stats \in Counters
  BY DEF AppStep, CountType, vars, Core1,
         Queue, Read, SnapBegin, SnapFirst, SnapSecond, SnapCheck, SnapDone
<1>2. CASE UNCHANGED ring
  <2>1. LockHeld' /\ PacketsCounted' /\ FramesCounted'
    BY <1>1 DEF Counted, LockHeld, PacketsCounted, FramesCounted
  <2>2. BytesCounted'
    BY <1>1, <1>2 DEF Counted, BytesCounted, BytesAtMost
  <2>3. Counted'
    BY <2>1, <2>2 DEF Counted
  <2> QED
    BY <1>1, <1>2, <2>3
<1>3. CASE Read
  <2>1. PICK k \in 1 .. Len(ring.waiting) :
          ring' = [ring EXCEPT !.waiting = SubSeq(@, k + 1, Len(@)), !.read = @ + k]
    BY <1>3 DEF Read
  <2> DEFINE rest == SubSeq(ring.waiting, k + 1, Len(ring.waiting))
  <2>2. /\ ring.waiting \in Seq(Nat) /\ ring.read \in Nat /\ Len(ring.waiting) \in Nat
        /\ k \in Nat /\ k <= Len(ring.waiting)
    BY <1>1 DEF Rings
  <2>3. rest \in Seq(Nat) /\ Len(rest) = Len(ring.waiting) - k
    BY <2>2
  <2>4. ring' \in Rings /\ ring'.waiting = rest /\ ring'.read = ring.read + k
    <3>1. ring.read + k \in Nat /\ ring' = [ring EXCEPT !.waiting = rest, !.read = @ + k]
      BY <2>1, <2>2
    <3> HIDE DEF rest
    <3> QED
      BY <1>1, <2>3, <3>1 DEF Rings
  <2> HIDE DEF rest
  <2>5. Len(ring'.waiting) = Len(ring.waiting) - k
    BY <2>3, <2>4
  <2>6. /\ ring'.read + Len(ring'.waiting) = ring.read + Len(ring.waiting)
        /\ Len(ring.waiting) <= Capacity => Len(ring'.waiting) <= Capacity
    <3> DEFINE before == Len(ring.waiting)
               after == Len(ring'.waiting)
    <3>1. /\ before \in Nat /\ after \in Int /\ after = before - k /\ k \in Nat
          /\ ring.read \in Nat /\ ring'.read \in Nat /\ ring'.read = ring.read + k
          /\ Capacity \in Nat
      BY <2>2, <2>4, <2>5, PollAssumption DEF Rings
    <3> HIDE DEF before, after
    <3>2. ring'.read + after = ring.read + before /\ (before <= Capacity => after <= Capacity)
      BY <3>1
    <3> QED
      BY <3>2 DEF before, after
  <2>7. BytesCounted'
    BY <1>1, <2>6 DEF Counted, BytesCounted, BytesAtMost
  <2>8. LockHeld' /\ PacketsCounted' /\ FramesCounted'
    BY <1>1 DEF Counted, LockHeld, PacketsCounted, FramesCounted
  <2>9. snap.pc = "idle" /\ UNCHANGED snap
    BY <1>3 DEF Read
  <2> QED
    BY <1>1, <2>4, <2>7, <2>8, <2>9 DEF Counted
<1> QED
  BY <1>2, <1>3
  DEF AppStep, vars, Queue, SnapBegin, SnapFirst, SnapSecond, SnapCheck, SnapDone

\* A step of the frame handler leaves the snapshot, and the counters while their
\* sequence is even.
LEMMA FrameKeeps ==
  ASSUME TypeInv, CountType, Counted, FrameStep
  PROVE  /\ Counted' /\ CountType' /\ UNCHANGED <<snap, stream>> /\ ring'.read = ring.read
         /\ stats'.seq >= stats.seq
         /\ stats'.seq = stats.seq => stats'.words = stats.words \/ stats.seq % 2 = 1
<1>1. /\ stats \in Counters /\ ring \in Rings /\ snap \in Snaps
      /\ stats.seq \in Nat
  BY WordValues DEF CountType
<1>2. UNCHANGED <<snap, stream>>
  BY DEF FrameStep, Core0, FrameBegin, FrameCount, FrameUnlock, Exchange, Lock, CountPoll,
         JudgeNew, CountBytes, Write, JudgeOther, Unlock, Transfer
<1>3. frame.pc \in UpdatePcs => stats.seq % 2 = 1
  BY DEF Counted, LockHeld
<1>4. CASE FrameBegin
  <2>1. ring' \in Rings /\ ring'.read = ring.read
    BY <1>1, <1>4 DEF FrameBegin, Rings
  <2>2. stats' \in Counters /\ stats'.words = stats.words /\ stats'.seq >= stats.seq
    BY <1>1, <1>4, LockedFields DEF FrameBegin
  <2> QED
    BY <1>1, <1>2, <1>4, <2>1, <2>2, BeginCounts DEF CountType
<1>5. CASE FrameUnlock \/ Lock \/ Unlock
  <2>1. UNCHANGED ring /\ Counted'
    BY <1>5, LockSteps, UnlockCounts DEF FrameUnlock, Lock, Unlock
  <2>2. stats' \in Counters /\ stats'.words = stats.words /\ stats'.seq >= stats.seq
    BY <1>1, <1>5, LockedFields DEF FrameUnlock, Lock, Unlock
  <2> QED
    BY <1>1, <1>2, <2>1, <2>2 DEF CountType
<1>6. CASE Exchange \/ Transfer
  <2>1. UNCHANGED <<stats, ring, snap>> /\ Counted'
    BY <1>6, UncountedSteps DEF Exchange, Transfer, Core0
  <2>2. CountType'
    BY <1>1, <2>1 DEF CountType
  <2> QED
    BY <1>1, <1>2, <2>1, <2>2
<1>7. CASE FrameCount
  BY <1>1, <1>2, <1>3, <1>7, FrameCounts
  DEF CountType, FrameCount, UpdatePcs
<1>8. CASE CountPoll
  BY <1>1, <1>2, <1>3, <1>8, PollCounts
  DEF CountType, CountPoll, UpdatePcs
<1>9. CASE JudgeNew
  BY <1>1, <1>2, <1>3, <1>9, NewCounts
  DEF CountType, JudgeNew, UpdatePcs
<1>10. CASE CountBytes
  BY <1>1, <1>2, <1>3, <1>10, ByteCounts
  DEF CountType, CountBytes, UpdatePcs
<1>11. CASE Write
  <2>1. stats.seq % 2 = 1
    BY <1>3, <1>11 DEF Write, UpdatePcs
  <2>2. /\ Counted' /\ ring' \in Rings /\ stats' \in Counters /\ stats'.seq = stats.seq
        /\ ring'.read = ring.read
    BY <1>11, WriteCounts
  <2>3. CountType'
    BY <1>1, <1>2, <2>2 DEF CountType
  <2> QED
    BY <1>1, <1>2, <2>1, <2>2, <2>3
<1>12. CASE JudgeOther
  BY <1>1, <1>2, <1>3, <1>12, OtherCounts
  DEF CountType, JudgeOther, UpdatePcs
<1> QED
  BY <1>4, <1>5, <1>6, <1>7, <1>8, <1>9, <1>10, <1>11, <1>12 DEF FrameStep

\* So what has been copied stands, or the sequence has moved.
LEMMA FrameCopies ==
  ASSUME CountInv, FrameStep
  PROVE  Copied' /\ SnapshotConsistent'
<1>1. /\ UNCHANGED <<snap, stream>> /\ ring'.read = ring.read
      /\ stats'.seq >= stats.seq /\ stats.seq \in Nat /\ stats'.seq \in Nat
      /\ stats'.seq = stats.seq => stats'.words = stats.words \/ stats.seq % 2 = 1
      /\ snap.before \in Nat
  BY FrameKeeps DEF CountInv, CountType, Counters, Snaps
<1>2. ASSUME snap.pc \in {"first", "second", "check"}
      PROVE  /\ snap.before <= stats'.seq
             /\ snap.before = stats'.seq => snap.before = stats.seq /\ stats'.words = stats.words
  <2>1. snap.before <= stats.seq /\ snap.before % 2 = 0
    BY <1>2 DEF CountInv, Copied
  <2>2. snap.before <= stats'.seq
    BY <1>1, <2>1
  <2>3. CASE snap.before = stats'.seq
    <3>1. stats'.seq = stats.seq
      BY <1>1, <2>1, <2>3
    <3> QED
      BY <1>1, <2>1, <2>2, <2>3, <3>1
  <2> QED
    BY <2>2, <2>3
<1>3. Copied'
  BY <1>1, <1>2 DEF CountInv, Copied
<1> QED
  BY <1>1, <1>3 DEF CountInv, SnapshotConsistent

\* A copy whose sequence has not moved is of one moment.
LEMMA CheckedCopy ==
  ASSUME CountInv, SnapCheck
  PROVE  SnapshotConsistent'
<1> DEFINE out == snap.out
<1>1. /\ stats \in Counters /\ snap \in Snaps /\ ring \in Rings /\ snap.pc = "check"
      /\ snap' = IF snap.before = stats.seq
                 THEN [snap EXCEPT !.pc = "done", !.available = Len(ring.waiting)] ELSE SnapIdle
      /\ UNCHANGED ring
  BY DEF CountInv, CountType, SnapCheck
<1>2. CASE snap.before = stats.seq
  <2>1. stream /\ snap.before % 2 = 0 /\ \A w \in Words : out[w] = stats.words[w]
    BY <1>1, <1>2 DEF CountInv, Copied
  <2>2. frame.pc \in {"idle", "poll", "lock"}
    BY <1>2, <2>1, FrameValues
    DEF CountInv, TypeInv, Counted, LockHeld, UpdatePcs, FramePcs
  <2>3. /\ snap'.pc = "done" /\ snap'.out = out /\ snap'.available = Len(ring.waiting)
    BY <1>1, <1>2 DEF Snaps
  <2>4. /\ out.polls = stats.words.polls /\ out.packets = stats.words.packets
        /\ out.bytes = stats.words.bytes /\ out.zero_packets = stats.words.zero_packets
        /\ out.error_packets = stats.words.error_packets
        /\ out.overrun_packets = stats.words.overrun_packets
        /\ out.overrun_bytes = stats.words.overrun_bytes
        /\ out.active_frames = stats.words.active_frames
    BY <2>1 DEF Words
  <2> HIDE DEF out
  <2>5. /\ out.packets + out.error_packets <= out.polls
        /\ out.zero_packets + out.overrun_packets <= out.packets
    BY <1>1, <2>2, <2>4, WordValues DEF CountInv, Counted, PacketsCounted, One
  <2>6. out.polls <= (1 + BurstMax) * out.active_frames
    <3> DEFINE most == (1 + BurstMax) * out.active_frames
    <3>1. /\ most \in Int /\ BurstMax \in Nat /\ out.polls \in Nat
          /\ frame.extra \in Nat /\ frame.extra <= BurstMax
      BY <1>1, <2>4, WordValues, Distribute, PollAssumption, FrameValues
      DEF CountInv, TypeInv, Counted, FramesCounted
    <3>2. \/ most - out.polls >= 0
          \/ most - out.polls + frame.extra >= 1 + BurstMax
      BY <2>1, <2>2, <2>4 DEF CountInv, Counted, FramesCounted
    <3> HIDE DEF most
    <3>3. out.polls <= most
      BY <3>1, <3>2
    <3> QED
      BY <3>3 DEF most
  <2>7. /\ out.bytes <= EpSize * (out.packets - out.zero_packets)
        /\ out.bytes - out.overrun_bytes = ring.read + Len(ring.waiting)
        /\ Len(ring.waiting) <= Capacity
    <3>1. /\ stats.words.bytes + 0 <= BytesAtMost
          /\ stats.words.bytes - stats.words.overrun_bytes - 0 = ring.read + Len(ring.waiting)
          /\ Len(ring.waiting) <= Capacity
      BY <2>2 DEF CountInv, Counted, BytesCounted
    <3>2. stats.words.bytes <= BytesAtMost
      BY <1>1, <3>1, WordValues
    <3>3. stats.words.bytes - stats.words.overrun_bytes = ring.read + Len(ring.waiting)
      BY <1>1, <3>1, WordValues
    <3> QED
      BY <2>4, <3>1, <3>2, <3>3 DEF BytesAtMost
  <2>8. ring'.read + snap'.available = ring.read + Len(ring.waiting)
    BY <1>1, <2>3
  <2>9. out.bytes - out.overrun_bytes <= ring'.read + snap'.available
    <3> DEFINE have == ring.read + Len(ring.waiting)
    <3>1. have \in Nat
      BY <1>1 DEF Rings
    <3>2. out.bytes - out.overrun_bytes = have /\ ring'.read + snap'.available = have
      BY <2>7, <2>8
    <3> HIDE DEF have
    <3> QED
      BY <3>1, <3>2
  <2> QED
    BY <2>3, <2>5, <2>6, <2>7, <2>9 DEF SnapshotConsistent
<1>3. CASE snap.before # stats.seq
  BY <1>1, <1>3 DEF SnapshotConsistent, SnapIdle
<1> QED
  BY <1>2, <1>3

LEMMA AppCopies ==
  ASSUME CountInv, AppStep \/ UNCHANGED vars
  PROVE  CountType' /\ Copied' /\ SnapshotConsistent'
<1>1. /\ UNCHANGED <<stats, stream, frame>> /\ ring' \in Rings
      /\ UNCHANGED ring \/ (snap.pc = "idle" /\ UNCHANGED snap)
      /\ stats \in Counters /\ stats.seq \in Nat
      /\ snap \in Snaps /\ snap.out \in [Words -> Nat]
  BY AppCounts, WordValues DEF CountInv, CountType, Snaps
<1>2. CASE UNCHANGED snap
  BY <1>1, <1>2 DEF CountInv, CountType, Copied, SnapshotConsistent
<1>3. CASE SnapBegin
  <2>1. /\ snap' \in Snaps /\ snap'.pc = "first" /\ snap'.before = stats.seq
        /\ stats.seq % 2 = 0 /\ stream
    BY <1>1, <1>3 DEF SnapBegin, Snaps
  <2> QED
    BY <1>1, <2>1 DEF CountType, Copied, SnapshotConsistent
<1>4. CASE SnapFirst
  <2>1. Copy(FirstWords) \in [Words -> Nat]
    BY <1>1 DEF Copy, Counters
  <2>2. /\ snap' \in Snaps /\ snap.pc = "first" /\ snap'.pc = "second"
        /\ snap'.before = snap.before /\ snap'.out = Copy(FirstWords)
    BY <1>1, <1>4, <2>1 DEF SnapFirst, Snaps
  <2>3. \A w \in FirstWords : snap'.out[w] = stats.words[w]
    BY <2>2 DEF Copy, FirstWords, Words
  <2> QED
    BY <1>1, <2>2, <2>3 DEF CountInv, CountType, Copied, SnapshotConsistent
<1>5. CASE SnapSecond
  <2>1. Copy(Words \ FirstWords) \in [Words -> Nat]
    BY <1>1 DEF Copy, Counters
  <2>2. /\ snap' \in Snaps /\ snap.pc = "second" /\ snap'.pc = "check"
        /\ snap'.before = snap.before /\ snap'.out = Copy(Words \ FirstWords)
    BY <1>1, <1>5, <2>1 DEF SnapSecond, Snaps
  <2>3. /\ \A w \in Words \ FirstWords : snap'.out[w] = stats.words[w]
        /\ \A w \in FirstWords : snap'.out[w] = snap.out[w]
    BY <2>2 DEF Copy, FirstWords, Words
  <2>4. snap.before = stats.seq => \A w \in Words : snap'.out[w] = stats.words[w]
    BY <2>2, <2>3 DEF CountInv, Copied
  <2>5. FirstWords \subseteq Words
    BY DEF FirstWords, Words
  <2> QED
    BY <1>1, <2>2, <2>4, <2>5 DEF CountInv, CountType, Copied, SnapshotConsistent
<1>6. CASE SnapCheck
  <2>1. Len(ring.waiting) \in Nat /\ SnapIdle \in Snaps /\ SnapIdle.pc = "idle"
    <3>1. ring \in Rings
      BY DEF CountInv, CountType
    <3> QED
      BY <3>1 DEF Rings, SnapIdle, Snaps, Zero
  <2>2. snap' \in Snaps /\ snap'.pc \in {"done", "idle"} /\ (snap'.pc = "done" => stream)
    BY <1>1, <1>6, <2>1 DEF SnapCheck, Snaps, CountInv, Copied
  <2> QED
    BY <1>1, <1>6, <2>2, CheckedCopy DEF CountType, Copied
<1>7. CASE SnapDone
  <2>1. SnapIdle \in Snaps /\ SnapIdle.pc = "idle"
    BY DEF SnapIdle, Snaps, Zero
  <2> QED
    BY <1>1, <1>7, <2>1 DEF SnapDone, CountType, Copied, SnapshotConsistent
<1> QED
  BY <1>2, <1>3, <1>4, <1>5, <1>6, <1>7 DEF AppStep, Queue, Read, vars

LEMMA InitCount == Init => CountInv
<1> SUFFICES ASSUME Init PROVE CountInv
  OBVIOUS
<1>1. Zero \in [Words -> Nat] /\ \A w \in Words : Zero[w] = 0
  BY DEF Zero
<1>2. stats \in Counters /\ snap \in Snaps
  BY <1>1 DEF Init, Counters, Snaps
<1>3. ring \in Rings /\ ring.read = 0 /\ ring.waiting = <<>> /\ Len(ring.waiting) = 0
  BY DEF Init, Rings
<1>4. /\ stats.words.polls = 0 /\ stats.words.packets = 0 /\ stats.words.bytes = 0
      /\ stats.words.zero_packets = 0 /\ stats.words.error_packets = 0
      /\ stats.words.overrun_packets = 0 /\ stats.words.overrun_bytes = 0
      /\ stats.words.active_frames = 0 /\ stats.seq = 0
      /\ frame.pc = "idle" /\ frame.extra = 0 /\ snap.pc = "idle"
  BY <1>1 DEF Init, Words
<1>5. LockHeld /\ PacketsCounted
  BY <1>4 DEF LockHeld, UpdatePcs, PacketsCounted, One
<1>6. BytesCounted
  <2>1. EpSize * (0 - 0) = 0 /\ 0 <= Capacity
    BY PollAssumption
  <2> QED
    BY <1>3, <1>4, <2>1 DEF BytesCounted, BytesAtMost
<1>7. FramesCounted
  <2>1. (1 + BurstMax) * 0 = 0 /\ 0 <= BurstMax
    BY PollAssumption
  <2> QED
    BY <1>4, <2>1 DEF FramesCounted
<1> QED
  BY <1>2, <1>3, <1>4, <1>5, <1>6, <1>7, InitType
  DEF CountInv, CountType, Counted, Copied, SnapshotConsistent

\* For every packet size, ring, number of retries and burst, whatever the bus does, a
\* snapshot of the counters that bulk_stream_stats returns is of one moment and adds up:
\* no answer is counted twice, no byte is lost between the counters and the ring.
THEOREM SnapshotsConsistent == Spec => []SnapshotConsistent
<1>1. CountInv => SnapshotConsistent
  BY DEF CountInv
<1>2. CountInv /\ [Next]_vars => CountInv'
  <2> SUFFICES ASSUME CountInv, [Next]_vars PROVE CountInv'
    OBVIOUS
  <2>1. TypeInv'
    BY NextType DEF CountInv
  <2>2. CASE FrameStep
    BY <2>1, <2>2, FrameKeeps, FrameCopies DEF CountInv
  <2>3. CASE AppStep \/ UNCHANGED vars
    BY <2>1, <2>3, AppCounts, AppCopies DEF CountInv
  <2> QED
    BY <2>2, <2>3 DEF Next
<1> QED
  BY <1>1, <1>2, InitCount, PTL DEF Spec
=============================================================================
