--------------------------- MODULE BulkStreamProofs ---------------------------
(* Theorems about BulkStream: for every interleaving of the three parties, on *)
(* one core or two and with or without overlapping calls, nobody touches a    *)
(* ring its owner has freed, a stream owns its endpoint, a loss of the device *)
(* is reported, and a reconfigured device has lost its stream before it       *)
(* learns of it.                                                              *)
EXTENDS BulkStream, TLAPS

-----------------------------------------------------------------------------
(* The inductive invariant.                                                   *)

FramePcs ==
  Detaching \cup {"idle", "begin", "sof", "drop", "retire", "setup", "normal", "load",
                  "start_poll", "start_transfer", "poll", "transfer", "polled", "burst",
                  "extra", "in_burst", "in_extra", "in_done", "connect", "end"}
AppPcs == {"idle", "start", "attach", "stop"}
StackPcs == {"idle", "close_stop", "close_wait", "close", "transfer", "abort_mark", "abort_take",
             "abort_clear", "setup_stop", "setup"}
Returns == {"idle", "sof", "retire"}

\* Where each party is in its code.
PcsOK ==
  /\ frame \in [pc : FramePcs, gone : BOOLEAN, back : Returns, live : BOOLEAN]
  /\ app \in AppPcs
  /\ stack \in StackPcs

\* The ownership of the ring.  While active is set the application has not been
\* told that it may free the ring; the endpoint points to active rings only; the
\* frame handler touches a ring through that pointer or, between its last two
\* stores, before it has cleared active; and start works on a ring that the frame
\* handler has let go of.
Ownership ==
  /\ ring.active => ~may_free
  /\ freed => may_free
  /\ ep.bulk_ring => ring.active
  /\ frame.pc \in {"begin", "start_poll", "poll", "extra", "end", "detach", "detach_null"}
       => ep.bulk_ring
  /\ frame.pc = "detach_active" => ring.active /\ ~ep.bulk_ring
  /\ app = "start" => ~ring.active /\ ~freed
  /\ app = "attach" => ring.active /\ ~ep.bulk_ring /\ frame.pc # "detach_active"

\* A loss of the device that has not reached the ring yet is a local of the
\* detach that is under way.
LossKept == lost => ring.disconnected \/ (frame.pc = "detach" /\ frame.gone)

\* When calls do not overlap: from the tests of start to the detach the endpoint
\* is an open bulk IN endpoint without a transfer, and no call about to change
\* that is past its own test.
SerialCalls ==
  threads.serial =>
    /\ app = "idle" \/ stack = "idle"
    /\ StackUses => ~freed
    /\ ep.bulk_ring \/ app \in {"start", "attach"} =>
         /\ ep.open /\ ep.bulk_in
         /\ ~ep.has_transfer
         /\ stack \notin {"transfer", "close"}

\* When the stack is interrupted by the frame handler, what the handler has seen of the
\* transfer is still so when it acts on it, so that it stores transfer_started only
\* for a transfer; start does not get past its own test of it meanwhile.
VisitKept ==
  threads.same_core =>
    /\ frame.live \/ frame.pc = "in_burst" => ep.has_transfer
    /\ frame.pc = "start_transfer" => frame.live
    /\ frame.pc \in {"transfer", "in_extra"} => ep.transfer_started
    /\ threads.serial /\ (ep.bulk_ring \/ app \in {"start", "attach"}) => ~ep.transfer_started

\* When the stack is interrupted by the frame handler, a ring that send_setup has
\* asked to stop is found by the frame's first step and detached by its third.
DoomKept ==
  threads.same_core /\ doomed =>
    /\ ep.bulk_ring /\ ring.stop_requested
    /\ frame.pc \in {"idle", "begin", "detach", "detach_null"}

StreamInv == PcsOK /\ Ownership /\ LossKept /\ SerialCalls /\ VisitKept /\ DoomKept

-----------------------------------------------------------------------------
(* Types.                                                                     *)

Eps == [open : BOOLEAN, bulk_in : BOOLEAN, bulk_ring : BOOLEAN,
        has_transfer : BOOLEAN, transfer_started : BOOLEAN, transfer_aborted : BOOLEAN]
Roots == [connected : BOOLEAN, suspended : BOOLEAN]
Rings == [active : BOOLEAN, stop_requested : BOOLEAN, disconnected : BOOLEAN]
Frames == [pc : FramePcs, gone : BOOLEAN, back : Returns, live : BOOLEAN]

\* The type invariants, variable by variable: the frame handler's locals ...
FrameTyped ==
  /\ frame \in Frames
  /\ frame.pc \in Detaching => frame.back \in {"sof", "retire"}
  /\ frame.pc \notin Detaching => frame.back = "idle" /\ ~frame.gone
  /\ frame.live => frame.pc \in {"load", "start_poll", "start_transfer"}

\* ... and everything else.
RestTyped ==
  /\ ep \in Eps /\ root \in Roots /\ ring \in Rings
  /\ freed \in BOOLEAN /\ may_free \in BOOLEAN /\ setup \in BOOLEAN
  /\ doomed \in BOOLEAN /\ lost \in BOOLEAN
  /\ app \in AppPcs /\ stack \in StackPcs

\* Together they are the type invariant and the program counters' ranges.
LEMMA TypesTogether ==
  ASSUME threads \in [same_core : BOOLEAN, serial : BOOLEAN]
  PROVE  FrameTyped /\ RestTyped <=> TypeOK /\ PcsOK
BY DEF FrameTyped, RestTyped, TypeOK, PcsOK, Eps, Roots, Rings, Frames, Returns, FramePcs,
       Detaching

\* The fields of endpoint, port and ring are Boolean.
LEMMA FieldsAreFlags ==
  ASSUME RestTyped
  PROVE  /\ ep.open \in BOOLEAN /\ ep.bulk_in \in BOOLEAN /\ ep.bulk_ring \in BOOLEAN
         /\ ep.has_transfer \in BOOLEAN /\ ep.transfer_started \in BOOLEAN
         /\ ep.transfer_aborted \in BOOLEAN
         /\ root.connected \in BOOLEAN /\ root.suspended \in BOOLEAN
         /\ ring.active \in BOOLEAN /\ ring.stop_requested \in BOOLEAN
         /\ ring.disconnected \in BOOLEAN
BY DEF RestTyped, Eps, Roots, Rings

\* Storing a Boolean in a field of a record.
LEMMA FieldTypes ==
  ASSUME NEW b \in BOOLEAN
  PROVE  /\ \A e \in Eps : /\ [e EXCEPT !.open = b] \in Eps
                          /\ [e EXCEPT !.bulk_in = b] \in Eps
                          /\ [e EXCEPT !.bulk_ring = b] \in Eps
                          /\ [e EXCEPT !.has_transfer = b] \in Eps
                          /\ [e EXCEPT !.transfer_started = b] \in Eps
                          /\ [e EXCEPT !.transfer_aborted = b] \in Eps
         /\ \A r \in Rings : /\ [r EXCEPT !.active = b] \in Rings
                            /\ [r EXCEPT !.stop_requested = b] \in Rings
                            /\ [r EXCEPT !.disconnected = b] \in Rings
         /\ \A r \in Roots : [r EXCEPT !.suspended = b] \in Roots
         /\ [connected |-> b, suspended |-> TRUE] \in Roots
         /\ NewRing \in Rings
<1>1. /\ \A e \in Eps : [e EXCEPT !.open = b] \in Eps
      /\ \A e \in Eps : [e EXCEPT !.bulk_in = b] \in Eps
      /\ \A e \in Eps : [e EXCEPT !.bulk_ring = b] \in Eps
      /\ \A e \in Eps : [e EXCEPT !.has_transfer = b] \in Eps
      /\ \A e \in Eps : [e EXCEPT !.transfer_started = b] \in Eps
      /\ \A e \in Eps : [e EXCEPT !.transfer_aborted = b] \in Eps
  BY DEF Eps
<1>2. /\ \A r \in Rings : [r EXCEPT !.active = b] \in Rings
      /\ \A r \in Rings : [r EXCEPT !.stop_requested = b] \in Rings
      /\ \A r \in Rings : [r EXCEPT !.disconnected = b] \in Rings
      /\ NewRing \in Rings
  BY DEF Rings, NewRing
<1>3. /\ \A r \in Roots : [r EXCEPT !.suspended = b] \in Roots
      /\ [connected |-> b, suspended |-> TRUE] \in Roots
  BY DEF Roots
<1> QED
  BY <1>1, <1>2, <1>3

-----------------------------------------------------------------------------
(* The frame handler's steps.                                                 *)

\* Outside the detach a step only moves the program counter ...
LEMMA GotoTyped ==
  ASSUME FrameTyped, NEW pc \in FramePcs, Goto(pc), frame.pc \in Detaching <=> pc \in Detaching,
         frame.live => pc \in {"load", "start_poll", "start_transfer"}
  PROVE  FrameTyped'
<1>1. /\ frame'.pc = pc /\ frame'.gone = frame.gone /\ frame'.back = frame.back
      /\ frame'.live = frame.live /\ frame' \in Frames
  BY DEF FrameTyped, Frames, Goto
<1> QED
  BY <1>1 DEF FrameTyped

\* ... the call of bulk_stream_detach saves where to return to ...
LEMMA CallTyped ==
  ASSUME NEW gone \in BOOLEAN, NEW back \in {"sof", "retire"}, CallDetach(gone, back)
  PROVE  FrameTyped'
<1>1. /\ frame'.pc = "detach" /\ frame'.gone = gone /\ frame'.back = back
      /\ frame'.live = FALSE /\ frame' \in Frames
  BY DEF CallDetach, FrameIdle, Frames, FramePcs, Detaching, Returns
<1> QED
  BY <1>1 DEF FrameTyped, Detaching

\* ... and its return goes there.
LEMMA ReturnTyped ==
  ASSUME FrameTyped, DetachActive
  PROVE  FrameTyped'
<1>1. frame.back \in {"sof", "retire"}
  BY DEF FrameTyped, DetachActive, Detaching
<1>2. /\ frame'.pc = frame.back /\ frame'.gone = FALSE /\ frame'.back = "idle"
      /\ frame'.live = FALSE /\ frame' \in Frames
  BY <1>1 DEF DetachActive, FrameIdle, Frames, FramePcs, Returns
<1> QED
  BY <1>1, <1>2 DEF FrameTyped, Detaching


\* Every step of the frame handler leaves its locals in order.
LEMMA FrameStepTyped ==
  ASSUME FrameTyped, RestTyped, FrameStep
  PROVE  FrameTyped'
<1> USE DEF FramePcs, Detaching
<1>0. /\ ep.bulk_ring \in BOOLEAN /\ root.connected \in BOOLEAN
      /\ ep.has_transfer \in BOOLEAN /\ ep.transfer_aborted \in BOOLEAN
      /\ frame.live => frame.pc \in {"load", "start_poll", "start_transfer"}
  BY FieldsAreFlags DEF FrameTyped
<1>1. CASE FrameBegin
  BY <1>0, <1>1, GotoTyped DEF FrameBegin
<1>2. CASE BeginTest
  BY <1>0, <1>2, GotoTyped, CallTyped DEF BeginTest
<1>3. CASE DetachFlag
  BY <1>0, <1>3, GotoTyped DEF DetachFlag
<1>4. CASE DetachNull
  BY <1>0, <1>4, GotoTyped DEF DetachNull
<1>5. CASE DetachActive
  BY <1>5, ReturnTyped
<1>6. CASE Sof
  BY <1>0, <1>6, GotoTyped DEF Sof
<1>7. CASE DropRing
  BY <1>0, <1>7, GotoTyped, CallTyped DEF DropRing
<1>8. CASE Retire
  BY <1>0, <1>8, GotoTyped DEF Retire
<1>9. CASE SetupTurn
  BY <1>0, <1>9, GotoTyped DEF SetupTurn
<1>10. CASE NormalTurn
  <2>1. CASE Operating /\ ep.open
    <3>1. /\ frame'.pc = "load" /\ frame'.gone = frame.gone /\ frame'.back = frame.back
          /\ frame' \in Frames
      BY <1>10, <1>0, <2>1 DEF NormalTurn, FrameTyped, Frames
    <3> QED
      BY <1>10, <3>1 DEF NormalTurn, FrameTyped
  <2>2. CASE ~(Operating /\ ep.open)
    BY <1>0, <1>10, <2>2, GotoTyped DEF NormalTurn
  <2> QED
    BY <2>1, <2>2
<1>11. CASE NormalLoad
  BY <1>0, <1>11, GotoTyped DEF NormalLoad
<1>12. CASE NormalStart
  <2>1. /\ frame'.pc \in {"poll", "transfer"} /\ frame'.gone = frame.gone
        /\ frame'.back = frame.back /\ frame'.live = FALSE /\ frame' \in Frames
    BY <1>12 DEF NormalStart, FrameTyped, Frames
  <2> QED
    BY <1>12, <2>1 DEF NormalStart, FrameTyped
<1>13. CASE Poll
  BY <1>0, <1>13, GotoTyped DEF Poll
<1>14. CASE Transfer
  BY <1>0, <1>14, GotoTyped DEF Transfer
<1>15. CASE Polled
  BY <1>0, <1>15, GotoTyped DEF Polled
<1>16. CASE BurstTurn
  BY <1>0, <1>16, GotoTyped DEF BurstTurn
<1>17. CASE BurstPoll
  BY <1>0, <1>17, GotoTyped DEF BurstPoll, FrameTyped
<1>18. CASE InBurstStart
  BY <1>0, <1>18, GotoTyped DEF InBurstStart
<1>19. CASE InBurstPoll
  BY <1>0, <1>19, GotoTyped DEF InBurstPoll
<1>20. CASE InBurstDone
  BY <1>0, <1>20, GotoTyped DEF InBurstDone
<1>21. CASE Connect
  BY <1>0, <1>21, GotoTyped DEF Connect
<1>22. CASE FrameEnd
  BY <1>0, <1>22, GotoTyped DEF FrameEnd
<1> QED
  BY <1>1, <1>2, <1>3, <1>4, <1>5, <1>6, <1>7, <1>8, <1>9, <1>10, <1>11, <1>12, <1>13,
     <1>14, <1>15, <1>16, <1>17, <1>18, <1>19, <1>20, <1>21, <1>22 DEF FrameStep

\* What the three parties leave of the other state.
LEMMA StepTyped ==
  ASSUME FrameTyped, RestTyped
  PROVE  (FrameStep \/ AppStep \/ StackStep) => RestTyped'
<1> USE DEF AppPcs, StackPcs
<1>1. CASE FrameBegin
  BY <1>1, FieldsAreFlags DEF FrameBegin, Quiet, RestTyped
<1>2. CASE BeginTest
  BY <1>2, FieldsAreFlags DEF BeginTest, Quiet, RestTyped
<1>3. CASE DetachFlag
  <2>1. ring' \in Rings
    BY <1>3, FieldTypes DEF DetachFlag, RestTyped
  <2> QED
    BY <1>3, FieldsAreFlags, <2>1 DEF DetachFlag, Quiet, RestTyped
<1>4. CASE DetachNull
  <2>1. ep' \in Eps
    BY <1>4, FieldTypes DEF DetachNull, RestTyped
  <2> QED
    BY <1>4, FieldsAreFlags, <2>1 DEF DetachNull, Quiet, RestTyped
<1>5. CASE DetachActive
  <2>1. ring' \in Rings
    BY <1>5, FieldTypes DEF DetachActive, RestTyped
  <2> QED
    BY <1>5, FieldsAreFlags, <2>1 DEF DetachActive, Quiet, RestTyped
<1>6. CASE Sof
  <2>1. root' \in Roots
    BY <1>6, FieldTypes DEF Sof, RestTyped
  <2> QED
    BY <1>6, FieldsAreFlags, <2>1 DEF Sof, Quiet, RestTyped
<1>7. CASE DropRing
  BY <1>7, FieldsAreFlags DEF DropRing, Quiet, RestTyped
<1>8. CASE Retire
  <2>1. ep' \in Eps
    BY <1>8, FieldsAreFlags, FieldTypes DEF Retire, RestTyped
  <2> QED
    BY <1>8, FieldsAreFlags, <2>1 DEF Retire, Quiet, RestTyped
<1>9. CASE SetupTurn
  BY <1>9, FieldsAreFlags DEF SetupTurn, Quiet, RestTyped
<1>10. CASE NormalTurn
  BY <1>10, FieldsAreFlags DEF NormalTurn, Quiet, RestTyped
<1>11. CASE NormalLoad
  BY <1>11, FieldsAreFlags DEF NormalLoad, Quiet, RestTyped
<1>12. CASE NormalStart
  <2>1. ep' \in Eps
    BY <1>12, FieldsAreFlags, FieldTypes DEF NormalStart, RestTyped, FrameTyped, Frames
  <2> QED
    BY <1>12, FieldsAreFlags, <2>1 DEF NormalStart, Quiet, RestTyped
<1>13. CASE Poll
  <2>1. ring' \in Rings
    BY <1>13, FieldTypes DEF Poll, RestTyped
  <2> QED
    BY <1>13, FieldsAreFlags, <2>1 DEF Poll, Quiet, RestTyped
<1>14. CASE Transfer
  <2>1. ep' \in Eps
    BY <1>14, FieldTypes DEF Transfer, RestTyped
  <2> QED
    BY <1>14, FieldsAreFlags, <2>1 DEF Transfer, Quiet, RestTyped
<1>15. CASE Polled
  <2>1. ep' \in Eps
    BY <1>15, FieldTypes DEF Polled, RestTyped
  <2> QED
    BY <1>15, FieldsAreFlags, <2>1 DEF Polled, Quiet, RestTyped
<1>16. CASE BurstTurn
  BY <1>16, FieldsAreFlags DEF BurstTurn, Quiet, RestTyped
<1>17. CASE BurstPoll
  <2>1. ring' \in Rings
    BY <1>17, FieldTypes DEF BurstPoll, RestTyped
  <2> QED
    BY <1>17, FieldsAreFlags, <2>1 DEF BurstPoll, Quiet, RestTyped
<1>18. CASE InBurstStart
  <2>1. ep' \in Eps
    BY <1>18, FieldTypes DEF InBurstStart, RestTyped
  <2> QED
    BY <1>18, FieldsAreFlags, <2>1 DEF InBurstStart, Quiet, RestTyped
<1>19. CASE InBurstPoll
  <2>1. ep' \in Eps
    BY <1>19, FieldTypes DEF InBurstPoll, RestTyped
  <2> QED
    BY <1>19, FieldsAreFlags, <2>1 DEF InBurstPoll, Quiet, RestTyped
<1>20. CASE InBurstDone
  <2>1. ep' \in Eps
    BY <1>20, FieldTypes DEF InBurstDone, RestTyped
  <2> QED
    BY <1>20, FieldsAreFlags, <2>1 DEF InBurstDone, Quiet, RestTyped
<1>21. CASE Connect
  <2>1. root' \in Roots
    BY <1>21, FieldTypes DEF Connect, RestTyped
  <2> QED
    BY <1>21, FieldsAreFlags, <2>1 DEF Connect, Quiet, RestTyped
<1>22. CASE FrameEnd
  BY <1>22, FieldsAreFlags DEF FrameEnd, Quiet, RestTyped
<1>23. CASE StartTest
  BY <1>23, FieldsAreFlags DEF StartTest, AppFree, RestTyped
<1>24. CASE StartInit
  <2>1. ring' \in Rings
    BY <1>24, FieldTypes DEF StartInit, RestTyped
  <2>2. ep' \in Eps
    BY <1>24, FieldTypes DEF StartInit, RestTyped
  <2> QED
    BY <1>24, FieldsAreFlags, <2>1, <2>2 DEF StartInit, AppFree, RestTyped
<1>25. CASE StartAttach
  <2>1. ep' \in Eps
    BY <1>25, FieldTypes DEF StartAttach, RestTyped
  <2> QED
    BY <1>25, FieldsAreFlags, <2>1 DEF StartAttach, AppFree, RestTyped
<1>26. CASE StopRequest
  <2>1. ring' \in Rings
    BY <1>26, FieldTypes DEF StopRequest, RestTyped
  <2> QED
    BY <1>26, FieldsAreFlags, <2>1 DEF StopRequest, AppFree, RestTyped
<1>27. CASE StopReturn
  BY <1>27, FieldsAreFlags DEF StopReturn, AppFree, RestTyped
<1>28. CASE Stats
  BY <1>28, FieldsAreFlags DEF Stats, AppFree, RestTyped
<1>29. CASE Free
  BY <1>29, FieldsAreFlags DEF Free, AppFree, RestTyped
<1>30. CASE Allocate
  <2>1. ring' \in Rings
    BY <1>30, FieldTypes DEF Allocate, RestTyped
  <2> QED
    BY <1>30, FieldsAreFlags, <2>1 DEF Allocate, AppFree, RestTyped
<1>31. CASE Open
  <2>1. PICK bulk_in \in BOOLEAN : ep' = [ep EXCEPT !.open = TRUE, !.bulk_in = bulk_in]
    BY <1>31 DEF Open
  <2>2. ep' \in Eps
    BY <2>1 DEF RestTyped, Eps
  <2> QED
    BY <1>31, <2>2 DEF Open, StackEnv, RestTyped
<1>32. CASE CloseTest
  BY <1>32, FieldsAreFlags DEF CloseTest, StackEnv, RestTyped
<1>33. CASE CloseStop
  <2>1. ring' \in Rings
    BY <1>33, FieldTypes DEF CloseStop, RestTyped
  <2> QED
    BY <1>33, FieldsAreFlags, <2>1 DEF CloseStop, StackEnv, RestTyped
<1>34. CASE CloseWait
  BY <1>34, FieldsAreFlags DEF CloseWait, StackEnv, RestTyped
<1>35. CASE Close
  <2>1. PICK kept \in BOOLEAN :
          ep' = [ep EXCEPT !.open = FALSE, !.has_transfer = @ /\ kept]
    BY <1>35 DEF Close
  <2>2. ep' \in Eps
    BY <2>1 DEF RestTyped, Eps
  <2> QED
    BY <1>35, <2>2 DEF Close, StackEnv, RestTyped
<1>36. CASE TransferTest
  BY <1>36, FieldsAreFlags DEF TransferTest, StackEnv, RestTyped
<1>37. CASE TransferStart
  <2>1. ep' \in Eps
    BY <1>37 DEF TransferStart, RestTyped, Eps
  <2> QED
    BY <1>37, FieldsAreFlags, <2>1 DEF TransferStart, StackEnv, RestTyped
<1>38. CASE AbortTest
  BY <1>38, FieldsAreFlags DEF AbortTest, StackEnv, RestTyped
<1>39. CASE AbortMark
  <2>1. ep' \in Eps
    BY <1>39, FieldTypes DEF AbortMark, RestTyped
  <2> QED
    BY <1>39, FieldsAreFlags, <2>1 DEF AbortMark, StackEnv, RestTyped
<1>40. CASE AbortTake
  <2>1. ep' \in Eps
    BY <1>40, FieldTypes DEF AbortTake, RestTyped
  <2> QED
    BY <1>40, FieldsAreFlags, <2>1 DEF AbortTake, StackEnv, RestTyped
<1>41. CASE AbortClear
  <2>1. ep' \in Eps
    BY <1>41, FieldTypes DEF AbortClear, RestTyped
  <2> QED
    BY <1>41, FieldsAreFlags, <2>1 DEF AbortClear, StackEnv, RestTyped
<1>42. CASE SetupTest
  BY <1>42, FieldsAreFlags DEF SetupTest, StackEnv, RestTyped
<1>43. CASE SetupStop
  <2>1. ring' \in Rings
    BY <1>43, FieldTypes DEF SetupStop, RestTyped
  <2> QED
    BY <1>43, FieldsAreFlags, <2>1 DEF SetupStop, StackEnv, RestTyped
<1>44. CASE SetupStart
  BY <1>44, FieldsAreFlags DEF SetupStart, StackEnv, RestTyped
<1>45. CASE PortReset
  <2>1. root' \in Roots
    BY <1>45, FieldTypes DEF PortReset, RestTyped
  <2> QED
    BY <1>45, FieldsAreFlags, <2>1 DEF PortReset, StackFree, RestTyped
<1> QED
  BY <1>1, <1>2, <1>3, <1>4, <1>5, <1>6, <1>7, <1>8, <1>9, <1>10, <1>11, <1>12, <1>13,
     <1>14, <1>15, <1>16, <1>17, <1>18, <1>19, <1>20, <1>21, <1>22, <1>23, <1>24,
     <1>25, <1>26, <1>27, <1>28, <1>29, <1>30, <1>31, <1>32, <1>33, <1>34, <1>35,
     <1>36, <1>37, <1>38, <1>39, <1>40, <1>41, <1>42, <1>43, <1>44, <1>45 DEF FrameStep,
     AppStep, StackStep

-----------------------------------------------------------------------------
(* The rest of the invariant, a party at a time.                              *)

Kept == Ownership /\ LossKept /\ SerialCalls /\ VisitKept /\ DoomKept

\* The frame handler gives up the pointer before it clears active, and polls only
\* through the pointer.
LEMMA FrameStepKeeps ==
  ASSUME FrameTyped, RestTyped, Kept, FrameStep, UNCHANGED threads
  PROVE  Kept'
<1> USE DEF FrameTyped, RestTyped, Kept, Ownership, LossKept, SerialCalls, VisitKept,
            DoomKept,
            Detaching, StackUses
<1>1. CASE FrameBegin
  BY <1>1 DEF FrameBegin, Goto, Quiet, Frames
<1>2. CASE BeginTest
  BY <1>2 DEF BeginTest, Goto, Quiet, Frames, CallDetach, FrameIdle
<1>3. CASE DetachFlag
  BY <1>3 DEF DetachFlag, Goto, Quiet, Frames, Rings
<1>4. CASE DetachNull
  BY <1>4 DEF DetachNull, Goto, Quiet, Frames, Eps
<1>5. CASE DetachActive
  BY <1>5 DEF DetachActive, Goto, Quiet, Frames, FrameIdle, Rings
<1>6. CASE Sof
  BY <1>6 DEF Sof, Goto, Quiet, Frames, Operating
<1>7. CASE DropRing
  BY <1>7 DEF DropRing, Goto, Quiet, Frames, CallDetach, FrameIdle
<1>8. CASE Retire
  BY <1>8 DEF Retire, Goto, Quiet, Frames, Eps
<1>9. CASE SetupTurn
  BY <1>9 DEF SetupTurn, Goto, Quiet, Frames, Operating
<1>10. CASE NormalTurn
  BY <1>10 DEF NormalTurn, Goto, Quiet, Frames, Operating
<1>11. CASE NormalLoad
  BY <1>11 DEF NormalLoad, Goto, Quiet, Frames
<1>12. CASE NormalStart
  BY <1>12 DEF NormalStart, Goto, Quiet, Frames, Eps
<1>13. CASE Poll
  BY <1>13 DEF Poll, Goto, Quiet, Frames, Rings
<1>14. CASE Transfer
  BY <1>14 DEF Transfer, Goto, Quiet, Frames, Eps
<1>15. CASE Polled
  BY <1>15 DEF Polled, Goto, Quiet, Frames, Eps
<1>16. CASE BurstTurn
  BY <1>16 DEF BurstTurn, Goto, Quiet, Frames, Operating
<1>17. CASE BurstPoll
  BY <1>17 DEF BurstPoll, Goto, Quiet, Frames, Rings
<1>18. CASE InBurstStart
  BY <1>18 DEF InBurstStart, Goto, Quiet, Frames, Eps
<1>19. CASE InBurstPoll
  BY <1>19 DEF InBurstPoll, Goto, Quiet, Frames, Eps
<1>20. CASE InBurstDone
  BY <1>20 DEF InBurstDone, Goto, Quiet, Frames, Eps
<1>21. CASE Connect
  BY <1>21 DEF Connect, Goto, Quiet, Frames
<1>22. CASE FrameEnd
  BY <1>22 DEF FrameEnd, Goto, Quiet, Frames
<1> QED
  BY <1>1, <1>2, <1>3, <1>4, <1>5, <1>6, <1>7, <1>8, <1>9, <1>10, <1>11, <1>12, <1>13,
     <1>14, <1>15, <1>16, <1>17, <1>18, <1>19, <1>20, <1>21, <1>22 DEF FrameStep

\* The application attaches what start has tested, and frees what has been detached.
LEMMA AppStepKeeps ==
  ASSUME FrameTyped, RestTyped, Kept, AppStep, UNCHANGED threads
  PROVE  Kept'
<1> USE DEF FrameTyped, RestTyped, Kept, Ownership, LossKept, SerialCalls, VisitKept,
            DoomKept,
            Detaching, StackUses
<1>1. CASE StartTest
  BY <1>1 DEF StartTest, AppFree, Startable, Operating
<1>2. CASE StartInit
  BY <1>2 DEF StartInit, NewRing, Rings, Eps
<1>3. CASE StartAttach
  BY <1>3 DEF StartAttach, Eps
<1>4. CASE StopRequest
  BY <1>4 DEF StopRequest, AppFree, Rings
<1>5. CASE StopReturn
  BY <1>5 DEF StopReturn
<1>6. CASE Stats
  BY <1>6 DEF Stats, AppFree
<1>7. CASE Free
  BY <1>7 DEF Free, AppFree
<1>8. CASE Allocate
  BY <1>8 DEF Allocate, AppFree, NewRing, Rings
<1> QED
  BY <1>1, <1>2, <1>3, <1>4, <1>5, <1>6, <1>7, <1>8 DEF AppStep

\* The host stack changes the endpoint only where its tests found no ring, and only
\* asks the ring to stop.
LEMMA StackStepKeeps ==
  ASSUME FrameTyped, RestTyped, Kept, StackStep, UNCHANGED threads
  PROVE  Kept'
<1> USE DEF FrameTyped, RestTyped, Kept, Ownership, LossKept, SerialCalls, VisitKept,
            DoomKept,
            Detaching, StackUses
<1>1. CASE Open
  BY <1>1 DEF Open, StackEnv, StackFree, StackRuns, Eps
<1>2. CASE CloseTest
  BY <1>2 DEF CloseTest, StackEnv, StackFree, StackRuns
<1>3. CASE CloseStop
  BY <1>3 DEF CloseStop, StackEnv, StackRuns, Rings
<1>4. CASE CloseWait
  BY <1>4 DEF CloseWait, StackEnv, StackRuns
<1>5. CASE Close
  BY <1>5 DEF Close, StackEnv, StackRuns, Eps
<1>6. CASE TransferTest
  BY <1>6 DEF TransferTest, StackEnv, StackFree, StackRuns
<1>7. CASE TransferStart
  BY <1>7 DEF TransferStart, StackEnv, StackRuns, Eps
<1>8. CASE AbortTest
  BY <1>8 DEF AbortTest, StackEnv, StackFree, StackRuns
<1>9. CASE AbortMark
  BY <1>9 DEF AbortMark, StackEnv, StackRuns, Eps
<1>10. CASE AbortTake
  BY <1>10 DEF AbortTake, StackEnv, StackRuns, Eps
<1>11. CASE AbortClear
  BY <1>11 DEF AbortClear, StackEnv, StackRuns, Eps
<1>12. CASE SetupTest
  BY <1>12 DEF SetupTest, StackEnv, StackFree, StackRuns
<1>13. CASE SetupStop
  BY <1>13 DEF SetupStop, StackEnv, StackRuns, Rings
<1>14. CASE SetupStart
  BY <1>14 DEF SetupStart, StackEnv, StackRuns
<1>15. CASE PortReset
  BY <1>15 DEF PortReset, StackEnv, StackFree, StackRuns
<1> QED
  BY <1>1, <1>2, <1>3, <1>4, <1>5, <1>6, <1>7, <1>8, <1>9, <1>10, <1>11, <1>12, <1>13,
     <1>14, <1>15 DEF StackStep

-----------------------------------------------------------------------------
(* The theorems.                                                              *)

\* The invariant holds initially ...
LEMMA StartsKept == Init => TypeOK /\ StreamInv
<1> SUFFICES ASSUME Init PROVE TypeOK /\ StreamInv
  OBVIOUS
<1>1. TypeOK /\ PcsOK
  BY DEF Init, NewRing, FrameIdle, TypeOK, PcsOK, FramePcs, AppPcs, StackPcs, Detaching, Returns
<1>2. Ownership /\ LossKept /\ SerialCalls /\ VisitKept /\ DoomKept
  BY DEF Init, NewRing, FrameIdle, Ownership, LossKept, SerialCalls, VisitKept, DoomKept,
     StackUses
<1> QED
  BY <1>1, <1>2 DEF StreamInv

\* ... and every step keeps it.
LEMMA StepKeeps ==
  ASSUME TypeOK, StreamInv, [Next]_vars
  PROVE  TypeOK' /\ StreamInv'
<1>1. FrameTyped /\ RestTyped /\ Kept
  BY TypesTogether DEF TypeOK, StreamInv, Kept
<1>2. threads' = threads /\ threads \in [same_core : BOOLEAN, serial : BOOLEAN]
  BY DEF TypeOK, Next, vars
<1>3. FrameTyped' /\ RestTyped' /\ Kept'
  <2>1. CASE FrameStep
    BY <1>1, <1>2, <2>1, FrameStepTyped, StepTyped, FrameStepKeeps
  <2>2. CASE AppStep
    <3>1. UNCHANGED frame
      BY <2>2 DEF AppStep, StartTest, StartInit, StartAttach, StopRequest, StopReturn,
         Stats, Free, Allocate
    <3>2. FrameTyped'
      BY <1>1, <3>1 DEF FrameTyped
    <3> QED
      BY <1>1, <1>2, <2>2, <3>2, StepTyped, AppStepKeeps
  <2>3. CASE StackStep
    <3>1. UNCHANGED frame
      BY <2>3 DEF StackStep, StackEnv, Open, CloseTest, CloseStop, CloseWait, Close,
         TransferTest, TransferStart, AbortTest, AbortMark, AbortTake, AbortClear, SetupTest,
         SetupStop, SetupStart, PortReset
    <3>2. FrameTyped'
      BY <1>1, <3>1 DEF FrameTyped
    <3> QED
      BY <1>1, <1>2, <2>3, <3>2, StepTyped, StackStepKeeps
  <2>4. CASE UNCHANGED vars
    BY <1>1, <2>4 DEF vars, FrameTyped, RestTyped, Kept, Ownership, LossKept, SerialCalls,
       VisitKept, DoomKept, StackUses
  <2> QED
    BY <2>1, <2>2, <2>3, <2>4 DEF Next
<1>4. TypeOK' /\ PcsOK'
  <2>1. threads' \in [same_core : BOOLEAN, serial : BOOLEAN]
    BY <1>2
  <2> QED
    BY <1>3, <2>1 DEF FrameTyped, RestTyped, TypeOK, PcsOK, Eps, Roots, Rings,
       Frames, Returns, FramePcs, Detaching
<1> QED
  BY <1>3, <1>4 DEF StreamInv, Kept

\* The inductive invariant, of which the theorems below are consequences.
THEOREM StreamInvariant == Spec => [](TypeOK /\ StreamInv)
<1>1. Init => TypeOK /\ StreamInv
  BY StartsKept
<1>2. TypeOK /\ StreamInv /\ [Next]_vars => (TypeOK /\ StreamInv)'
  BY StepKeeps
<1> QED
  BY <1>1, <1>2, PTL DEF Spec

\* The frame handler never touches a ring its owner has freed, on one core or two,
\* however the calls overlap: an owner may free the ring as soon as it sees active
\* cleared.
THEOREM FrameHandlerKeepsOff == Spec => []FrameKeepsOff
<1>1. TypeOK /\ StreamInv => FrameKeepsOff
  BY DEF StreamInv, Ownership, FrameKeepsOff, FrameUses, Detaching
<1> QED
  BY <1>1, StreamInvariant, PTL

\* Nor do close, close_device and send_setup, when calls do not overlap.
THEOREM CallsKeepOffTheRing == Spec => []CallsKeepOff
<1>1. TypeOK /\ StreamInv => CallsKeepOff
  BY DEF StreamInv, SerialCalls, CallsKeepOff, RingOutlivesCalls
<1> QED
  BY <1>1, StreamInvariant, PTL

\* When calls do not overlap no transfer is queued on the endpoint of a stream, and where
\* the frame handler interrupts the stack none is in a transaction either, although start,
\* endpoint_transfer and the frame handler test first and store later.  On two cores the
\* second half is false: the handler may have tested an earlier transfer.
THEOREM StreamOwnsEndpoint == Spec => []ExclusiveOwner
<1>1. TypeOK /\ StreamInv => ExclusiveOwner
  BY DEF StreamInv, SerialCalls, VisitKept, ExclusiveOwner
<1> QED
  BY <1>1, StreamInvariant, PTL

\* When calls do not overlap a ring is polled on a bulk IN endpoint only, although
\* closing and opening reuse its entry.
THEOREM PolledOnBulkIn == Spec => []AttachedToBulkIn
<1>1. TypeOK /\ StreamInv => AttachedToBulkIn
  BY DEF StreamInv, Ownership, SerialCalls, AttachedToBulkIn
<1> QED
  BY <1>1, StreamInvariant, PTL

\* A ring that was attached when its device went away says disconnected once it is
\* detached.
THEOREM LossIsReported == Spec => []LossReported
<1>1. TypeOK /\ StreamInv => LossReported
  BY DEF StreamInv, Ownership, LossKept, LossReported
<1> QED
  BY <1>1, StreamInvariant, PTL

\* With the frame handler on the stack's core, a ring attached when send_setup was
\* called is detached before the device sees the request: the first frame after the
\* call finds stop_requested at its begin, before the turn of endpoint 0.
THEOREM RingGoneBeforeSetup == Spec => DetachedBeforeSetup
<1> DEFINE A == threads.same_core /\ setup /\ ~setup' => ~doomed
<1>1. TypeOK /\ StreamInv /\ [Next]_vars => [A]_vars
  <2> SUFFICES ASSUME StreamInv, Next, threads.same_core, setup, ~setup'
               PROVE  ~doomed
    BY Zenon
  <2>1. SetupTurn
    BY DEF Next, FrameStep, AppStep, StackStep, StackEnv, FrameBegin, BeginTest, DetachFlag,
       DetachNull, DetachActive, Sof, DropRing, Retire, NormalTurn, NormalLoad, NormalStart, Poll,
       Transfer, Polled, BurstTurn, BurstPoll, InBurstStart, InBurstPoll, InBurstDone, Connect, FrameEnd, StartTest, StartInit, StartAttach, StopRequest, StopReturn, Stats,
       Free, Allocate, Open, CloseTest, CloseStop, CloseWait, Close, TransferTest,
       TransferStart, AbortTest, AbortMark, AbortTake, AbortClear, SetupTest, SetupStop,
       SetupStart, PortReset
  <2> QED
    BY <2>1 DEF SetupTurn, StreamInv, DoomKept
<1> QED
  BY <1>1, StreamInvariant, PTL DEF Spec, DetachedBeforeSetup
=============================================================================
