-------------------------------- MODULE MCHost --------------------------------
(* Instances of HostController for TLC: a device with a control endpoint, a   *)
(* bulk OUT, and an interrupt IN endpoint with packets of two bytes.          *)
EXTENDS HostController

Addr(n, in) == [num |-> n, in |-> in]
Desc(a, attr, max_size, interval) ==
  [epaddr |-> a, attr |-> attr, max_size |-> max_size, interval |-> interval]

Control == Desc(Addr(0, FALSE), "control", 2, 0)
BulkOut == Desc(Addr(1, FALSE), "bulk", 2, 0)
InterruptIn == Desc(Addr(2, TRUE), "interrupt", 2, 2)

ControlOnly == {Control}
ControlAndIn == {Control, InterruptIn}
OneIn == {InterruptIn}
OneOut == {BulkOut}

\* A full-speed device at port 0, or a low-speed device at a port that is added.
FirstPort == [p \in {0} |-> {"SE0", "FS_IDLE"}]
SecondPort == [p \in 0 .. 1 |-> IF p = 1 THEN {"SE0", "LS_IDLE"} ELSE {"SE0"}]
=============================================================================
