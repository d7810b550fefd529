------------------------------- MODULE MCDevice -------------------------------
(* Instances of DeviceController for TLC: packets of two bytes, a device      *)
(* descriptor in one packet and a configuration descriptor in two.            *)
EXTENDS DeviceController

Request(k, len) == [kind |-> k, len |-> len]

OneOfEach ==
  {Request("device", 1), Request("config", 2), Request("config", 4),
   Request("address", 0), Request("configure", 0), Request("report", 1), Request("report", 2)}

Descriptor == {Request("configure", 0), Request("config", 4)}

Either == [endpoint1 \in BOOLEAN |-> IF endpoint1 THEN Descriptor ELSE OneOfEach]
Polled == [endpoint1 \in BOOLEAN |-> IF endpoint1 THEN Descriptor ELSE {}]

Lengths == [k \in InKinds |-> IF k = "device" THEN 1 ELSE 3]
=============================================================================
