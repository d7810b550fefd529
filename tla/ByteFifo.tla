------------------------------- MODULE ByteFifo -------------------------------
(* What the bulk stream ring promises: a bounded queue of bytes.  The packet  *)
(* being stored enters it whole, and a read takes bytes from its front.       *)
EXTENDS Sequences, Naturals

CONSTANTS Bytes, Capacity

VARIABLES
  input,    \* the packet being stored, empty between two packets
  queue,    \* the bytes accepted and not yet read
  result    \* what the read that has just ended returns

Init == input = <<>> /\ queue = <<>> /\ result = <<>>

Offer ==
  /\ input = <<>>
  /\ \E n \in 1 .. Capacity : input' \in [1 .. n -> Bytes]
  /\ UNCHANGED <<queue, result>>

Put ==
  /\ input # <<>>
  /\ Len(queue) + Len(input) <= Capacity
  /\ queue' = queue \o input
  /\ input' = <<>>
  /\ UNCHANGED result

Get ==
  /\ result = <<>>
  /\ \E k \in 1 .. Len(queue) :
       /\ result' = SubSeq(queue, 1, k)
       /\ queue' = SubSeq(queue, k + 1, Len(queue))
  /\ UNCHANGED input

Return == result' = <<>> /\ UNCHANGED <<input, queue>>

Next == Offer \/ Put \/ Get \/ Return

Spec == Init /\ [][Next]_<<input, queue, result>>
=============================================================================
