------------------------ MODULE DeviceControllerProofs ------------------------
(* Theorems about DeviceController.  The type invariant holds of every host.  *)
(* Of a patient host: a report that was acknowledged has arrived; and, with   *)
(* endpoint 0 alone in use (a hypothesis the runs show to be needed), host    *)
(* and device agree on the address, every stage that should starts with       *)
(* DATA1, and the host gets the descriptor it asked for.                      *)
EXTENDS DeviceController, PioUsbLLProofs, SequenceTheorems

-----------------------------------------------------------------------------
(* Types.                                                                     *)

Sources == {"none", "device", "config", "report", "in1"}
Pcs == {"poll", "setup", "complete", "in0", "in1", "clear", "desc", "line"}
Packets == [kind : Kinds \cup {"none"}, len : 0 .. U16 - 1]
Roots == [ints : SUBSET DeviceInts, ep_complete : SUBSET Eps,
          ep_continue : SUBSET {"in0", "in1"}, dev_addr : {0, Address}]
Hosts == [request : Packets, stage : {"reset", "idle", "in", "out", "status_in", "status_out"},
          pid : DataPids, got : Seq([data : Sources, off : Nat, len : Nat]),
          addr : {0, Address}, configured : BOOLEAN, gave_up : BOOLEAN]

\* The accesses the task's calls are made of.
Starts == [op : {"start"}, e : {"out0", "in0"}, data : Sources, len : Nat]
Publishes == [op : {"publish"}, e : {"out0", "in0"}]
Continues == [op : {"continue", "encode", "done"}, e : {"in0", "in1"}]
Loads(field, bits) == [op : {"load"}, field : {field}, add : SUBSET bits, del : SUBSET bits]
Stores(field, bits) == [op : {"store"}, field : {field}, value : SUBSET bits]
Ops ==
  Starts \cup Publishes \cup Continues
    \cup Loads("ints", DeviceInts) \cup Stores("ints", DeviceInts)
    \cup Loads("ep_complete", Eps) \cup Stores("ep_complete", Eps)
    \cup Loads("ep_continue", {"in0", "in1"}) \cup Stores("ep_continue", {"in0", "in1"})
Tasks == [pc : Pcs, seen : SUBSET DeviceInts, todo : Seq(Ops)]

\* What an access goes on to (a store, a publication, an encoding) and a CONTINUE
\* are only ever at the head of the list.
NoHead(o) == o.op \notin {"encode", "continue", "publish", "store"}
ListOK(s) == \A i \in 2 .. Len(s) : NoHead(s[i])

\* All variables.
Typed ==
  /\ TypeOK
  /\ polled \in BOOLEAN
  /\ data \in [Eps -> Sources]
  /\ root \in Roots
  /\ setup_packet \in Packets /\ desc_request \in Packets
  /\ stage \in {"setup", "data", "status", "complete"}
  /\ task \in Tasks
  /\ ListOK(task.todo)
  /\ app \in {"idle", "publish"}
  /\ host \in Hosts

-----------------------------------------------------------------------------
(* Lists of accesses.                                                         *)

Elems(s) == {s[i] : i \in 1 .. Len(s)}
Todo == Elems(task.todo)

\* The elements of a list written out ...
LEMMA ElemsOf ==
  /\ Elems(<<>>) = {}
  /\ \A a : Elems(<<a>>) = {a}
  /\ \A a, b : Elems(<<a, b>>) = {a, b}
  /\ \A a, b, c : Elems(<<a, b, c>>) = {a, b, c}
<1>1. Elems(<<>>) = {}
  BY DEF Elems
<1>2. \A a : Elems(<<a>>) = {a}
  BY DEF Elems
<1>3. \A a, b : Elems(<<a, b>>) = {a, b}
  <2> TAKE a, b
  <2>1. /\ <<a, b>>[1] = a /\ <<a, b>>[2] = b /\ Len(<<a, b>>) = 2
        /\ 1 .. 2 = {1, 2}
    OBVIOUS
  <2> QED
    BY <2>1 DEF Elems
<1>4. \A a, b, c : Elems(<<a, b, c>>) = {a, b, c}
  <2> TAKE a, b, c
  <2>1. /\ <<a, b, c>>[1] = a /\ <<a, b, c>>[2] = b /\ <<a, b, c>>[3] = c
        /\ Len(<<a, b, c>>) = 3 /\ 1 .. 3 = {1, 2, 3}
    OBVIOUS
  <2> QED
    BY <2>1 DEF Elems
<1> QED
  BY <1>1, <1>2, <1>3, <1>4

\* ... of a list without its head, and of two lists in a row.
LEMMA ElemsParts ==
  ASSUME NEW S, NEW s \in Seq(S), NEW t \in Seq(S)
  PROVE  /\ Elems(s \o t) = Elems(s) \cup Elems(t)
         /\ s # <<>> => /\ Head(s) = s[1] /\ Head(s) \in Elems(s) /\ Head(s) \in S
                        /\ Elems(s) = {Head(s)} \cup Elems(Tail(s))
                        /\ Tail(s) \in Seq(S) /\ Len(Tail(s)) = Len(s) - 1
                        /\ \A i \in 1 .. Len(Tail(s)) : Tail(s)[i] = s[i + 1]
         /\ Elems(s) \subseteq S
         /\ Len(s) \in Nat
<1>1. Elems(s \o t) = Elems(s) \cup Elems(t)
  <2>1. /\ Len(s) \in Nat /\ Len(t) \in Nat /\ Len(s \o t) = Len(s) + Len(t)
        /\ \A i \in 1 .. Len(s) + Len(t) :
             (s \o t)[i] = IF i <= Len(s) THEN s[i] ELSE t[i - Len(s)]
    BY ConcatProperties, LenProperties
  <2>2. ASSUME NEW o \in Elems(s \o t) PROVE o \in Elems(s) \cup Elems(t)
    <3>1. PICK i \in 1 .. Len(s) + Len(t) : o = (s \o t)[i]
      BY <2>1 DEF Elems
    <3>2. CASE i <= Len(s)
      BY <2>1, <3>1, <3>2 DEF Elems
    <3>3. CASE i > Len(s)
      <4>1. i - Len(s) \in 1 .. Len(t) /\ o = t[i - Len(s)]
        BY <2>1, <3>1, <3>3
      <4> QED
        BY <4>1 DEF Elems
    <3> QED
      BY <2>1, <3>2, <3>3
  <2>3. ASSUME NEW o \in Elems(s) PROVE o \in Elems(s \o t)
    <3>1. PICK i \in 1 .. Len(s) : o = s[i]
      BY DEF Elems
    <3>2. i \in 1 .. Len(s \o t) /\ o = (s \o t)[i]
      BY <2>1, <3>1
    <3> QED
      BY <3>2 DEF Elems
  <2>4. ASSUME NEW o \in Elems(t) PROVE o \in Elems(s \o t)
    <3>1. PICK i \in 1 .. Len(t) : o = t[i]
      BY DEF Elems
    <3>2. Len(s) + i \in 1 .. Len(s \o t) /\ o = (s \o t)[Len(s) + i]
      BY <2>1, <3>1
    <3> QED
      BY <3>2 DEF Elems
  <2> QED
    BY <2>2, <2>3, <2>4
<1>2. ASSUME s # <<>>
      PROVE  /\ Head(s) = s[1] /\ Head(s) \in Elems(s) /\ Head(s) \in S
             /\ Elems(s) = {Head(s)} \cup Elems(Tail(s))
             /\ Tail(s) \in Seq(S) /\ Len(Tail(s)) = Len(s) - 1
             /\ \A i \in 1 .. Len(Tail(s)) : Tail(s)[i] = s[i + 1]
  <2>1. /\ Head(s) \in S /\ Tail(s) \in Seq(S) /\ Len(Tail(s)) = Len(s) - 1
        /\ \A i \in 1 .. Len(Tail(s)) : Tail(s)[i] = s[i + 1]
    BY <1>2, HeadTailProperties
  <2>2. Len(s) \in Nat \ {0} /\ Head(s) = s[1]
    BY <1>2, EmptySeq
  <2>3. ASSUME NEW o \in Elems(s) PROVE o \in {Head(s)} \cup Elems(Tail(s))
    <3>1. PICK i \in 1 .. Len(s) : o = s[i]
      BY DEF Elems
    <3>2. CASE i = 1
      BY <2>2, <3>1, <3>2
    <3>3. CASE i # 1
      <4>1. i - 1 \in 1 .. Len(Tail(s)) /\ o = Tail(s)[i - 1]
        BY <2>1, <2>2, <3>1, <3>3
      <4> QED
        BY <4>1 DEF Elems
    <3> QED
      BY <3>2, <3>3
  <2>4. Head(s) \in Elems(s)
    BY <2>2 DEF Elems
  <2>5. ASSUME NEW o \in Elems(Tail(s)) PROVE o \in Elems(s)
    <3>1. PICK i \in 1 .. Len(Tail(s)) : o = Tail(s)[i]
      BY DEF Elems
    <3>2. i + 1 \in 1 .. Len(s) /\ o = s[i + 1]
      BY <2>1, <2>2, <3>1
    <3> QED
      BY <3>2 DEF Elems
  <2> QED
    BY <2>1, <2>2, <2>3, <2>4, <2>5
<1>3. Elems(s) \subseteq S /\ Len(s) \in Nat
  BY ElementOfSeq, LenProperties DEF Elems
<1> QED
  BY <1>1, <1>2, <1>3

\* The accesses a call makes are typed ...
LEMMA OpsMade ==
  /\ \A e \in {"out0", "in0"}, d \in Sources, len \in Nat : Start(e, d, len) \in Ops
  /\ \A e \in {"out0", "in0"} : [op |-> "publish", e |-> e] \in Ops
  /\ \A p \in {"continue", "encode", "done"}, e \in {"in0", "in1"} : [op |-> p, e |-> e] \in Ops
  /\ \A add, del \in SUBSET DeviceInts : Rmw("ints", add, del) \in Ops
  /\ \A add, del \in SUBSET Eps : Rmw("ep_complete", add, del) \in Ops
  /\ \A add, del \in SUBSET {"in0", "in1"} : Rmw("ep_continue", add, del) \in Ops
  /\ \A v \in SUBSET DeviceInts : [op |-> "store", field |-> "ints", value |-> v] \in Ops
  /\ \A v \in SUBSET Eps : [op |-> "store", field |-> "ep_complete", value |-> v] \in Ops
  /\ \A v \in SUBSET {"in0", "in1"} :
       [op |-> "store", field |-> "ep_continue", value |-> v] \in Ops
<1>1. \A e \in {"out0", "in0"}, d \in Sources, len \in Nat : Start(e, d, len) \in Starts
  BY DEF Start, Starts
<1>2. \A e \in {"out0", "in0"} : [op |-> "publish", e |-> e] \in Publishes
  BY DEF Publishes
<1>3. \A p \in {"continue", "encode", "done"}, e \in {"in0", "in1"} : [op |-> p, e |-> e] \in Continues
  BY DEF Continues
<1>4. \A field, bits : \A add, del \in SUBSET bits : Rmw(field, add, del) \in Loads(field, bits)
  BY DEF Rmw, Loads
<1>5. \A field, bits : \A v \in SUBSET bits :
        [op |-> "store", field |-> field, value |-> v] \in Stores(field, bits)
  BY DEF Stores
<1> QED
  BY <1>1, <1>2, <1>3, <1>4, <1>5 DEF Ops

\* ... and what an access of a kind says.
LEMMA OpsRead ==
  ASSUME NEW o \in Ops
  PROVE  /\ o.op = "start" => /\ o.e \in {"out0", "in0"} /\ o.data \in Sources /\ o.len \in Nat
         /\ o.op = "publish" => o.e \in {"out0", "in0"} /\ o = [op |-> "publish", e |-> o.e]
         /\ o.op \in {"continue", "encode", "done"} =>
              o.e \in {"in0", "in1"} /\ o = [op |-> o.op, e |-> o.e]
         /\ o.op \in {"load", "store"} => o.field \in {"ints", "ep_complete", "ep_continue"}
         /\ o.op = "load" =>
              /\ o.field = "ints" => o.add \subseteq DeviceInts /\ o.del \subseteq DeviceInts
              /\ o.field = "ep_complete" => o.add \subseteq Eps /\ o.del \subseteq Eps
              /\ o.field = "ep_continue" => o.add \subseteq {"in0", "in1"} /\ o.del \subseteq {"in0", "in1"}
         /\ o.op = "store" =>
              /\ o.field = "ints" => o.value \subseteq DeviceInts
              /\ o.field = "ep_complete" => o.value \subseteq Eps
              /\ o.field = "ep_continue" => o.value \subseteq {"in0", "in1"}
<1>1. CASE o \in Starts
  BY <1>1 DEF Starts
<1>2. CASE o \in Publishes
  BY <1>2 DEF Publishes
<1>3. CASE o \in Continues
  BY <1>3 DEF Continues
<1>4. CASE o \in Loads("ints", DeviceInts) \cup Loads("ep_complete", Eps) \cup Loads("ep_continue", {"in0", "in1"})
  BY <1>4 DEF Loads
<1>5. CASE o \in Stores("ints", DeviceInts) \cup Stores("ep_complete", Eps) \cup Stores("ep_continue", {"in0", "in1"})
  BY <1>5 DEF Stores
<1> QED
  BY <1>1, <1>2, <1>3, <1>4, <1>5 DEF Ops

-----------------------------------------------------------------------------
(* The task's list.                                                           *)

Rest == Elems(Tail(task.todo))

\* Replacing the head of the list ...
LEMMA ThenTyped ==
  ASSUME task \in Tasks, ListOK(task.todo), task.todo # <<>>,
         NEW ops \in Seq(Ops), ListOK(ops), Then(ops)
  PROVE  /\ task' \in Tasks /\ task'.pc = task.pc /\ task'.seen = task.seen
         /\ ListOK(task'.todo)
         /\ Todo' = Elems(ops) \cup Rest
         /\ Len(task'.todo) = Len(ops) + Len(task.todo) - 1
         /\ ops # <<>> => task'.todo # <<>> /\ Head(task'.todo) = ops[1]
         /\ ops = <<>> => (task'.todo # <<>> => NoHead(Head(task'.todo)))
<1> DEFINE s == task.todo
           t == ops \o Tail(s)
<1>1. s \in Seq(Ops) /\ s # <<>> /\ Len(s) \in Nat \ {0}
  BY EmptySeq DEF Tasks
<1>2. /\ Tail(s) \in Seq(Ops) /\ Len(Tail(s)) = Len(s) - 1
      /\ \A i \in 1 .. Len(Tail(s)) : Tail(s)[i] = s[i + 1]
  BY <1>1, HeadTailProperties
<1>3. task' = [task EXCEPT !.todo = t]
  BY DEF Then
<1>4. /\ t \in Seq(Ops) /\ Len(t) = Len(ops) + Len(Tail(s))
      /\ \A i \in 1 .. Len(ops) + Len(Tail(s)) :
           t[i] = IF i <= Len(ops) THEN ops[i] ELSE Tail(s)[i - Len(ops)]
  BY <1>2, ConcatProperties
<1>5. Elems(t) = Elems(ops) \cup Elems(Tail(s))
  <2>1. \A u, v \in Seq(Ops) : Elems(u \o v) = Elems(u) \cup Elems(v)
    BY ElemsParts
  <2> QED
    BY <1>2, <2>1
<1>6. Len(ops) \in Nat
  BY LenProperties
<1>7. \A i \in 1 .. Len(Tail(s)) : NoHead(Tail(s)[i])
  BY <1>1, <1>2 DEF ListOK
<1>8. ListOK(t)
  <2> SUFFICES ASSUME NEW i \in 2 .. Len(t) PROVE NoHead(t[i])
    BY DEF ListOK
  <2>1. CASE i <= Len(ops)
    BY <1>2, <1>4, <1>6, <2>1 DEF ListOK
  <2>2. CASE i > Len(ops)
    <3>1. i - Len(ops) \in 1 .. Len(Tail(s)) /\ t[i] = Tail(s)[i - Len(ops)]
      BY <1>1, <1>2, <1>4, <1>6, <2>2
    <3> QED
      BY <1>7, <3>1
  <2> QED
    BY <1>6, <2>1, <2>2
<1>9. ASSUME ops # <<>> PROVE t # <<>> /\ Head(t) = ops[1]
  <2>1. Len(ops) \in Nat \ {0}
    BY <1>9, EmptySeq
  <2>2. Len(t) # 0 /\ t[1] = ops[1]
    BY <1>1, <1>2, <1>4, <2>1
  <2>3. t # <<>>
    BY <2>2, EmptySeq
  <2> QED
    BY <1>4, <2>2, <2>3, ElemsParts
<1>10. ASSUME ops = <<>>, t # <<>> PROVE NoHead(Head(t))
  <2>1. t = Tail(s)
    BY <1>2, <1>10, ConcatEmptySeq
  <2>2. Tail(s) # <<>> /\ Len(Tail(s)) \in Nat \ {0}
    BY <1>2, <1>10, <2>1, EmptySeq
  <2>3. Head(Tail(s)) = Tail(s)[1] /\ 1 \in 1 .. Len(Tail(s))
    BY <2>2
  <2>4. NoHead(Head(Tail(s)))
    BY <1>7, <2>3
  <2> QED
    BY <2>1, <2>4
<1>11. /\ task' \in Tasks /\ task'.pc = task.pc /\ task'.seen = task.seen /\ task'.todo = t
  BY <1>3, <1>4 DEF Tasks
<1> HIDE DEF t
<1> QED
  BY <1>1, <1>2, <1>4, <1>5, <1>8, <1>9, <1>10, <1>11 DEF Todo, Rest

\* ... and making a new one.
LEMMA GoOnTyped ==
  ASSUME task \in Tasks, NEW pc \in Pcs, NEW ops \in Seq(Ops), ListOK(ops), GoOn(pc, ops)
  PROVE  /\ task' \in Tasks /\ task'.pc = pc /\ task'.seen = task.seen
         /\ task'.todo = ops /\ ListOK(task'.todo) /\ Todo' = Elems(ops)
<1>1. /\ task' \in Tasks /\ task'.pc = pc /\ task'.seen = task.seen /\ task'.todo = ops
  BY DEF Tasks, GoOn
<1> QED
  BY <1>1 DEF Todo

\* The head of the list is one of its accesses, and what it is not is left.
LEMMA HeadOp ==
  ASSUME task \in Tasks, ListOK(task.todo), task.todo # <<>>
  PROVE  /\ Op \in Ops /\ Op \in Todo /\ Todo = {Op} \cup Rest
         /\ Todo \subseteq Ops /\ \A o \in Rest : NoHead(o)
         /\ Len(task.todo) \in Nat \ {0} /\ Len(task.todo) = 1 => Rest = {}
<1> DEFINE s == task.todo
<1>1. s \in Seq(Ops) /\ s # <<>> /\ Len(s) \in Nat \ {0}
  BY EmptySeq DEF Tasks
<1>2. /\ Head(s) \in Elems(s) /\ Head(s) \in Ops /\ Elems(s) = {Head(s)} \cup Elems(Tail(s))
      /\ Elems(s) \subseteq Ops /\ Len(Tail(s)) = Len(s) - 1
      /\ \A i \in 1 .. Len(Tail(s)) : Tail(s)[i] = s[i + 1]
  BY <1>1, ElemsParts
<1>3. \A o \in Rest : NoHead(o)
  <2> TAKE o \in Rest
  <2>1. PICK i \in 1 .. Len(Tail(s)) : o = Tail(s)[i]
    BY DEF Rest, Elems
  <2> QED
    BY <1>1, <1>2, <2>1 DEF ListOK
<1>4. Len(s) = 1 => Rest = {}
  BY <1>2 DEF Rest, Elems
<1> QED
  BY <1>1, <1>2, <1>3, <1>4 DEF Op, Todo, Rest

-----------------------------------------------------------------------------
(* Type correctness.                                                          *)

Encoding == IF Doing("encode") THEN {Op.e} ELSE {}

\* An endpoint is a record, and storing one in the pool gives a pool.
LEMMA PoolTyped ==
  ASSUME ep \in [Eps -> Endpoints], NEW e \in Eps, NEW f \in Endpoints
  PROVE  /\ ep[e] \in Endpoints
         /\ [ep EXCEPT ![e] = f] \in [Eps -> Endpoints]
         /\ [ep EXCEPT ![e] = f][e] = f
         /\ \A x \in Eps \ {e} : [ep EXCEPT ![e] = f][x] = ep[x]
OBVIOUS

\* The initial state is typed.
LEMMA InitTyped == Init => Typed
<1> SUFFICES ASSUME Init PROVE Typed
  OBVIOUS
<1>1. ep \in [Eps -> Endpoints] /\ data \in [Eps -> Sources]
  BY UnusedType DEF Init, Sources
<1>2. root \in Roots /\ new_devaddr \in {0, Address}
  BY DEF Init, Roots
<1>3. None \in Packets
  BY DEF None, Packets, U16
<1>4. task \in Tasks /\ task.todo = <<>>
  BY EmptySeq DEF Init, Tasks, Pcs
<1>5. ListOK(task.todo) /\ torn = Encoding
  BY <1>4 DEF Init, ListOK, Encoding, Doing
<1>6. host \in Hosts
  <2>1. <<>> \in Seq([data : Sources, off : Nat, len : Nat])
    BY EmptySeq
  <2> QED
    BY <1>3, <2>1 DEF Init, Hosts, DataPids
<1> QED
  BY <1>1, <1>2, <1>3, <1>4, <1>5, <1>6
     DEF Init, Typed, TypeOK, Roots, ListOK, NoHead, Encoding

\* The host takes packets of an endpoint.
LEMMA HostTakesTyped ==
  ASSUME host \in Hosts, ep \in [Eps -> Endpoints], data \in [Eps -> Sources],
         NEW e \in Eps, HostTakes(e)
  PROVE  host' \in Hosts
<1> DEFINE Taking == [data : Sources, off : Nat, len : Nat]
           next == IF Packet(e).len < EpSize \/ Packet(e).off + Packet(e).len >= Wanted
                   THEN "status_out" ELSE "in"
<1>1. Packet(e) \in Taking
  BY DEF Packet, Endpoints
<1>2. Append(host.got, Packet(e)) \in Seq(Taking)
  BY <1>1 DEF Hosts
<1>3. Other(host.pid) \in DataPids
  BY DEF Other, DataPids
<1>4. \/ host' = host
      \/ host' = [host EXCEPT !.stage = "idle",
                             !.addr = IF host.request.kind = "address" THEN Address ELSE @,
                             !.configured = @ \/ host.request.kind = "configure"]
      \/ host' = [host EXCEPT !.got = Append(@, Packet(e)), !.pid = Other(@), !.stage = next]
  BY DEF HostTakes
<1>5. next \in {"in", "status_out"}
  OBVIOUS
<1> HIDE DEF next
<1>6. \A h \in Hosts, g \in Seq(Taking), p \in DataPids, s \in {"in", "status_out"} :
        [h EXCEPT !.got = g, !.pid = p, !.stage = s] \in Hosts
  BY DEF Hosts
<1>7. \A h \in Hosts, a \in {0, Address}, c \in BOOLEAN :
        [h EXCEPT !.stage = "idle", !.addr = a, !.configured = c] \in Hosts
  BY DEF Hosts
<1>8. CASE host' = host
  BY <1>8
<1>9. CASE host' = [host EXCEPT !.stage = "idle",
                             !.addr = IF host.request.kind = "address" THEN Address ELSE @,
                             !.configured = @ \/ host.request.kind = "configure"]
  <2> DEFINE addr == IF host.request.kind = "address" THEN Address ELSE host.addr
             configured == host.configured \/ host.request.kind = "configure"
  <2>1. addr \in {0, Address} /\ configured \in BOOLEAN
    BY DEF Hosts
  <2>2. host' = [host EXCEPT !.stage = "idle", !.addr = addr, !.configured = configured]
    BY <1>9 DEF Hosts
  <2> HIDE DEF addr, configured
  <2> QED
    BY <1>7, <2>1, <2>2
<1>10. CASE host' = [host EXCEPT !.got = Append(@, Packet(e)), !.pid = Other(@), !.stage = next]
  <2>1. host' = [host EXCEPT !.got = Append(host.got, Packet(e)), !.pid = Other(host.pid), !.stage = next]
    BY <1>10 DEF Hosts
  <2> QED
    BY <1>2, <1>3, <1>5, <1>6, <2>1
<1> QED
  BY <1>4, <1>8, <1>9, <1>10

\* The packet interrupt.
LEMMA IsrTyped ==
  ASSUME Typed, Isr
  PROVE  Typed'
<1>1. /\ UNCHANGED <<polled, stage, desc_request, task, data, torn, app>>
      /\ new_devaddr' \in {0, Address}
  BY DEF Isr, IsrIn0, IsrIn1, IsrOut0, HostReset, IsrSetup, TaskAside, Typed, TypeOK
<1>2. /\ ep \in [Eps -> Endpoints] /\ root \in Roots /\ host \in Hosts /\ setup_packet \in Packets
      /\ new_devaddr \in {0, Address} /\ data \in [Eps -> Sources]
  BY DEF Typed, TypeOK
<1>3. "out0" \in Eps /\ "in0" \in Eps /\ "in1" \in Eps
  BY DEF Eps
<1>4. None \in Packets
  BY DEF None, Packets, U16
<1>5. \A e \in {"in0", "in1"} : Flagged(e) \in Roots
  BY <1>2 DEF Flagged, Roots, DeviceInts
<1>6. ep' \in [Eps -> Endpoints] /\ root' \in Roots /\ host' \in Hosts /\ setup_packet' \in Packets
  <2>1. CASE IsrIn0
    <3>1. root' \in Roots
      BY <1>2, <1>5, <2>1 DEF IsrIn0, Roots
    <3>2. host' \in Hosts
      BY <1>2, <1>3, <2>1, HostTakesTyped DEF IsrIn0
    <3> QED
      BY <1>2, <2>1, <3>1, <3>2 DEF IsrIn0
  <2>2. CASE IsrIn1
    BY <1>2, <1>5, <2>2 DEF IsrIn1
  <2>3. CASE IsrOut0
    <3> DEFINE len == IF host.stage = "out" THEN host.request.len ELSE 0
               res == IF len > transaction_len(ep["out0"]) THEN transaction_len(ep["out0"]) ELSE len
               packet == [data |-> data["out0"], off |-> 0, len |-> res]
    <3>1. ep["out0"] \in Endpoints /\ res \in Nat
      <4>1. len \in Nat
        BY <1>2 DEF Hosts, Packets
      <4> QED
        BY <1>2, <1>3, <4>1, LenType
    <3>2. transfer_continue(ep["out0"], res) \in Endpoints
      BY <3>1, ContinueType
    <3>3. <<packet>> \in Seq([data : Sources, off : Nat, len : Nat])
      <4>1. packet \in [data : Sources, off : Nat, len : Nat]
        BY <1>2, <1>3, <3>1
      <4> QED
        BY <4>1
    <3> HIDE DEF res
    <3>4. ep' \in [Eps -> Endpoints] /\ setup_packet' \in Packets
      BY <1>2, <1>3, <1>4, <2>3, <3>2 DEF IsrOut0, res
    <3>5. root' \in Roots
      <4>1. \/ root' = root
            \/ root' = [root EXCEPT !.ints = @ \union {"complete"},
                                    !.ep_complete = @ \union {"out0"}]
        BY <2>3 DEF IsrOut0, res
      <4>2. [root EXCEPT !.ints = @ \union {"complete"}, !.ep_complete = @ \union {"out0"}] \in Roots
        BY <1>2, <1>3 DEF Roots, DeviceInts
      <4> QED
        BY <1>2, <4>1, <4>2
    <3>6. host' \in Hosts
      <4>1. host' = [host EXCEPT !.stage = "status_in", !.pid = "DATA1", !.got = <<packet>>]
              \/ host' = [host EXCEPT !.stage = "idle"] \/ host' = host
        BY <2>3 DEF IsrOut0, res
      <4> HIDE DEF packet
      <4> QED
        BY <1>2, <3>3, <4>1 DEF Hosts, DataPids
    <3> QED
      BY <3>4, <3>5, <3>6
  <2>4. CASE HostReset
    BY <1>2, <2>4 DEF HostReset, Hosts
  <2>5. ASSUME NEW r \in Requests[polled], IsrSetup(r)
        PROVE  ep' \in [Eps -> Endpoints] /\ root' \in Roots /\ host' \in Hosts /\ setup_packet' \in Packets
    <3>1. r \in [kind : Kinds, len : 0 .. U16 - 1]
      BY DeviceAssumption, <2>5 DEF Typed
    <3>2. r \in Packets
      BY <3>1 DEF Packets
    <3>3. \A e \in Eps : [ep[e] EXCEPT !.has_transfer = FALSE, !.data_id = 1] \in Endpoints
      <4>1. \A f \in Endpoints : [f EXCEPT !.has_transfer = FALSE, !.data_id = 1] \in Endpoints
        BY DEF Endpoints
      <4> QED
        BY <1>2, <4>1
    <3>4. ep' \in [Eps -> Endpoints]
      BY <1>2, <2>5, <3>3 DEF IsrSetup
    <3>5. FirstStage(r) \in {"in", "out", "status_in"}
      BY DEF FirstStage
    <3>6. <<>> \in Seq([data : Sources, off : Nat, len : Nat])
      BY EmptySeq
    <3>7. host' \in Hosts
      BY <1>2, <2>5, <3>2, <3>5, <3>6 DEF IsrSetup, Started, Hosts, DataPids
    <3>8. root' \in Roots
      BY <1>2, <2>5 DEF IsrSetup, Roots, DeviceInts
    <3> QED
      BY <2>5, <3>2, <3>4, <3>7, <3>8 DEF IsrSetup
  <2> QED
    BY <2>1, <2>2, <2>3, <2>4, <2>5 DEF Isr
<1>7. torn' = Encoding'
  BY <1>1 DEF Typed, TypeOK, Encoding, Doing, Op
<1> QED
  BY <1>1, <1>6, <1>7 DEF Typed, TypeOK, Roots, Encoding

\* Lists written out are typed when no CONTINUE is behind the head.
LEMMA ShortLists ==
  /\ <<>> \in Seq(Ops) /\ ListOK(<<>>)
  /\ \A a \in Ops : <<a>> \in Seq(Ops) /\ ListOK(<<a>>) /\ <<a>> # <<>> /\ <<a>>[1] = a
  /\ \A a, b \in Ops : NoHead(b) =>
       <<a, b>> \in Seq(Ops) /\ ListOK(<<a, b>>) /\ <<a, b>> # <<>> /\ <<a, b>>[1] = a
  /\ \A a, b, c \in Ops : NoHead(b) /\ NoHead(c) =>
       <<a, b, c>> \in Seq(Ops) /\ ListOK(<<a, b, c>>) /\ <<a, b, c>> # <<>> /\ <<a, b, c>>[1] = a
<1>1. <<>> \in Seq(Ops) /\ ListOK(<<>>)
  BY EmptySeq DEF ListOK
<1>2. \A a \in Ops : <<a>> \in Seq(Ops) /\ ListOK(<<a>>) /\ <<a>> # <<>> /\ <<a>>[1] = a
  BY DEF ListOK
<1>3. ASSUME NEW a \in Ops, NEW b \in Ops, NoHead(b)
      PROVE  <<a, b>> \in Seq(Ops) /\ ListOK(<<a, b>>) /\ <<a, b>> # <<>> /\ <<a, b>>[1] = a
  <2>1. <<a, b>> \in Seq(Ops) /\ <<a, b>> # <<>> /\ <<a, b>>[1] = a /\ <<a, b>>[2] = b
        /\ Len(<<a, b>>) = 2 /\ \A i \in 2 .. 2 : i = 2
    OBVIOUS
  <2> QED
    BY <1>3, <2>1 DEF ListOK
<1>4. ASSUME NEW a \in Ops, NEW b \in Ops, NEW c \in Ops, NoHead(b), NoHead(c)
      PROVE  <<a, b, c>> \in Seq(Ops) /\ ListOK(<<a, b, c>>) /\ <<a, b, c>> # <<>> /\ <<a, b, c>>[1] = a
  <2>1. <<a, b, c>> \in Seq(Ops) /\ <<a, b, c>> # <<>> /\ <<a, b, c>>[1] = a
        /\ <<a, b, c>>[2] = b /\ <<a, b, c>>[3] = c
        /\ Len(<<a, b, c>>) = 3 /\ \A i \in 2 .. 3 : i = 2 \/ i = 3
    OBVIOUS
  <2> QED
    BY <1>4, <2>1 DEF ListOK
<1> QED
  BY <1>1, <1>2, <1>3, <1>4

\* What is encoded after a step of the task follows from the new list's head.
LEMMA EncodingNext ==
  ASSUME task \in Tasks, ListOK(task.todo), NEW ops \in Seq(Ops), ListOK(ops),
         \/ task.todo # <<>> /\ Then(ops)
         \/ \E pc \in Pcs : GoOn(pc, ops)
  PROVE  /\ task' \in Tasks /\ ListOK(task'.todo)
         /\ Encoding' = IF ops # <<>> /\ ops[1].op = "encode" THEN {ops[1].e} ELSE {}
<1>1. CASE task.todo # <<>> /\ Then(ops)
  <2>1. /\ task' \in Tasks /\ ListOK(task'.todo)
        /\ ops # <<>> => task'.todo # <<>> /\ Head(task'.todo) = ops[1]
        /\ ops = <<>> => (task'.todo # <<>> => NoHead(Head(task'.todo)))
    BY <1>1, ThenTyped
  <2> QED
    BY <2>1 DEF Encoding, Doing, Op, NoHead
<1>2. ASSUME NEW pc \in Pcs, GoOn(pc, ops)
      PROVE  /\ task' \in Tasks /\ ListOK(task'.todo)
             /\ Encoding' = IF ops # <<>> /\ ops[1].op = "encode" THEN {ops[1].e} ELSE {}
  <2>1. task' \in Tasks /\ ListOK(task'.todo) /\ task'.todo = ops
    BY <1>2, GoOnTyped
  <2>2. ops # <<>> => Head(ops) = ops[1]
    OBVIOUS
  <2> QED
    BY <2>1, <2>2 DEF Encoding, Doing, Op
<1> QED
  BY <1>1, <1>2

\* What a load puts in its place.
LEMMA LoadMade ==
  ASSUME root \in Roots, Op \in Ops, Op.op = "load"
  PROVE  [op |-> "store", field |-> Op.field,
          value |-> (root[Op.field] \ Op.del) \union Op.add] \in Ops
<1>1. /\ Op.field = "ints" => root.ints \subseteq DeviceInts /\ Op.add \subseteq DeviceInts
      /\ Op.field = "ep_complete" => root.ep_complete \subseteq Eps /\ Op.add \subseteq Eps
      /\ Op.field = "ep_continue" =>
           root.ep_continue \subseteq {"in0", "in1"} /\ Op.add \subseteq {"in0", "in1"}
      /\ Op.field \in {"ints", "ep_complete", "ep_continue"}
  BY OpsRead DEF Roots
<1>2. CASE Op.field = "ints"
  BY <1>1, <1>2, OpsMade
<1>3. CASE Op.field = "ep_complete"
  BY <1>1, <1>3, OpsMade
<1>4. CASE Op.field = "ep_continue"
  BY <1>1, <1>4, OpsMade
<1> QED
  BY <1>1, <1>2, <1>3, <1>4

\* The accesses.
LEMMA AccessTyped ==
  ASSUME Typed,
         TransferFill \/ TransferPublish \/ Load \/ Store \/ TransferContinue \/ EncodeEnd \/ TransferDone
  PROVE  Typed'
<1>1. /\ ep \in [Eps -> Endpoints] /\ root \in Roots /\ data \in [Eps -> Sources]
      /\ task \in Tasks /\ ListOK(task.todo) /\ torn = Encoding
  BY DEF Typed, TypeOK, ListOK, NoHead, Encoding
<1>2. /\ task.todo # <<>>
      /\ UNCHANGED <<polled, setup_packet, app, host, new_devaddr, stage, desc_request>>
  BY DEF TransferFill, TransferPublish, Load, Store, TransferContinue, EncodeEnd, TransferDone,
         Doing, IsrAside
<1>3. Op \in Ops
  BY <1>1, <1>2, HeadOp
<1>4. "out0" \in Eps /\ "in0" \in Eps /\ "in1" \in Eps
  BY DEF Eps
<1>5. /\ ep' \in [Eps -> Endpoints] /\ root' \in Roots /\ data' \in [Eps -> Sources]
      /\ task' \in Tasks /\ ListOK(task'.todo) /\ torn' = Encoding'
  <2>1. CASE TransferFill
    <3>1. Op.e \in Eps /\ Op.data \in Sources /\ Op.len \in Nat /\ Op.e \in {"out0", "in0"}
      BY <1>3, <1>4, <2>1, OpsRead DEF TransferFill, Doing, Op
    <3>2. transfer_fill(ep[Op.e], Op.len) \in Endpoints
      BY <1>1, <3>1, FillType
    <3>3. [op |-> "publish", e |-> Op.e] \in Ops
      BY <3>1, OpsMade
    <3>4. ep' \in [Eps -> Endpoints] /\ root' \in Roots /\ data' \in [Eps -> Sources]
      BY <1>1, <2>1, <3>1, <3>2 DEF TransferFill
    <3>5. torn = {} /\ torn' = torn
      BY <1>1, <2>1 DEF TransferFill, Encoding, Doing
    <3>6. CASE Then(<<>>)
      BY <1>1, <1>2, <3>4, <3>5, <3>6, EncodingNext, ShortLists
    <3>7. CASE Then(<<[op |-> "publish", e |-> Op.e]>>)
      <4> DEFINE a == [op |-> "publish", e |-> Op.e]
      <4>1. a \in Ops /\ a.op # "encode"
        BY <3>3
      <4> HIDE DEF a
      <4>2. Then(<<a>>)
        BY <3>7 DEF a
      <4> QED
        BY <1>1, <1>2, <3>4, <3>5, <4>1, <4>2, EncodingNext, ShortLists
    <3> QED
      BY <2>1, <3>6, <3>7 DEF TransferFill
  <2>2. CASE TransferPublish
    <3>1. Op.e \in Eps
      BY <1>3, <1>4, <2>2, OpsRead DEF TransferPublish, Doing, Op
    <3>2. transfer_publish(ep[Op.e]) \in Endpoints
      BY <1>1, <3>1, PublishType
    <3>3. torn = {} /\ torn' = torn
      BY <1>1, <2>2 DEF TransferPublish, Encoding, Doing
    <3>4. ep' \in [Eps -> Endpoints] /\ root' \in Roots /\ data' \in [Eps -> Sources] /\ Then(<<>>)
      BY <1>1, <2>2, <3>1, <3>2 DEF TransferPublish
    <3> QED
      BY <1>1, <1>2, <3>3, <3>4, EncodingNext, ShortLists
  <2>3. CASE Load
    <3> DEFINE a == [op |-> "store", field |-> Op.field,
                     value |-> (root[Op.field] \ Op.del) \union Op.add]
    <3>1. Op.op = "load"
      BY <2>3 DEF Load, Doing, Op
    <3>3. a \in Ops
      BY <1>1, <1>3, <3>1, LoadMade
    <3>4. torn = {} /\ torn' = torn
      BY <1>1, <2>3 DEF Load, Encoding, Doing
    <3>5. /\ ep' \in [Eps -> Endpoints] /\ root' \in Roots /\ data' \in [Eps -> Sources]
          /\ Then(<<a>>) /\ a.op # "encode"
      BY <1>1, <2>3 DEF Load
    <3> HIDE DEF a
    <3> QED
      BY <1>1, <1>2, <3>3, <3>4, <3>5, EncodingNext, ShortLists
  <2>4. CASE Store
    <3>1. Op.op = "store"
      BY <2>4 DEF Store, Doing, Op
    <3>2. root' = [root EXCEPT ![Op.field] = Op.value]
      BY <2>4 DEF Store
    <3>3. root' \in Roots
      <4>1. CASE Op.field = "ints"
        BY <1>1, <1>3, <3>1, <3>2, <4>1, OpsRead DEF Roots
      <4>2. CASE Op.field = "ep_complete"
        BY <1>1, <1>3, <3>1, <3>2, <4>2, OpsRead DEF Roots
      <4>3. CASE Op.field = "ep_continue"
        BY <1>1, <1>3, <3>1, <3>2, <4>3, OpsRead DEF Roots
      <4> QED
        BY <1>3, <3>1, <4>1, <4>2, <4>3, OpsRead
    <3>4. torn = {} /\ torn' = torn
      BY <1>1, <2>4 DEF Store, Encoding, Doing
    <3>5. ep' \in [Eps -> Endpoints] /\ data' \in [Eps -> Sources] /\ Then(<<>>)
      BY <1>1, <2>4 DEF Store
    <3> QED
      BY <1>1, <1>2, <3>3, <3>4, <3>5, EncodingNext, ShortLists
  <2>5. CASE TransferContinue
    <3> DEFINE n == transaction_len(ep[Op.e])
    <3>1. Op.e \in Eps /\ Op.e \in {"in0", "in1"}
      BY <1>3, <1>4, <2>5, OpsRead DEF TransferContinue, Doing, Op
    <3>2. ep[Op.e] \in Endpoints /\ n \in Nat
      BY <1>1, <3>1, LenType
    <3>3. transfer_progress(ep[Op.e], n) \in Endpoints
      BY <3>2, ProgressFields
    <3>4. torn = {}
      BY <1>1, <2>5 DEF TransferContinue, Encoding, Doing
    <3>5. ep' \in [Eps -> Endpoints] /\ root' \in Roots /\ data' \in [Eps -> Sources]
      BY <1>1, <2>5, <3>1, <3>3 DEF TransferContinue
    <3> DEFINE a == Rmw("ints", {"complete"}, {})
               b == Rmw("ep_complete", {Op.e}, {})
               c == [op |-> "done", e |-> Op.e]
               d == [op |-> "encode", e |-> Op.e]
    <3>6. /\ {"complete"} \in SUBSET DeviceInts /\ {} \in SUBSET DeviceInts
          /\ {Op.e} \in SUBSET Eps /\ {} \in SUBSET Eps
      BY <3>1 DEF DeviceInts
    <3>7. a \in Ops /\ b \in Ops /\ c \in Ops /\ d \in Ops
      BY <3>1, <3>6, OpsMade
    <3>8. NoHead(b) /\ NoHead(c) /\ a.op # "encode" /\ d.op = "encode" /\ d.e = Op.e
      BY DEF NoHead, Rmw
    <3>9. \/ Then(<<a, b, c>>) /\ torn' = torn
          \/ Then(<<d>>) /\ torn' = torn \union {Op.e}
      BY <2>5 DEF TransferContinue
    <3> HIDE DEF a, b, c, d
    <3>10. CASE Then(<<a, b, c>>) /\ torn' = torn
      <4>1. /\ <<a, b, c>> \in Seq(Ops) /\ ListOK(<<a, b, c>>)
            /\ <<a, b, c>> # <<>> /\ <<a, b, c>>[1] = a
        BY <3>7, <3>8, ShortLists
      <4>2. task' \in Tasks /\ ListOK(task'.todo) /\ Encoding' = {}
        BY <1>1, <1>2, <3>8, <3>10, <4>1, EncodingNext
      <4> QED
        BY <3>4, <3>5, <3>10, <4>2
    <3>11. CASE Then(<<d>>) /\ torn' = torn \union {Op.e}
      <4>1. <<d>> \in Seq(Ops) /\ ListOK(<<d>>) /\ <<d>> # <<>> /\ <<d>>[1] = d
        BY <3>7, ShortLists
      <4>2. task' \in Tasks /\ ListOK(task'.todo) /\ Encoding' = {Op.e}
        BY <1>1, <1>2, <3>8, <3>11, <4>1, EncodingNext
      <4> QED
        BY <3>4, <3>5, <3>11, <4>2
    <3> QED
      BY <3>9, <3>10, <3>11
  <2>6. CASE EncodeEnd
    <3>1. Op.e \in Eps
      BY <1>3, <1>4, <2>6, OpsRead DEF EncodeEnd, Doing, Op
    <3>2. prepare_tx_data(ep[Op.e]) \in Endpoints
      BY <1>1, <3>1, PrepareType
    <3>3. torn = {Op.e} /\ torn' = torn \ {Op.e}
      BY <1>1, <2>6 DEF EncodeEnd, Encoding
    <3>4. ep' \in [Eps -> Endpoints] /\ root' \in Roots /\ data' \in [Eps -> Sources] /\ Then(<<>>)
      BY <1>1, <2>6, <3>1, <3>2 DEF EncodeEnd
    <3> QED
      BY <1>1, <1>2, <3>3, <3>4, EncodingNext, ShortLists
  <2>7. CASE TransferDone
    <3>1. Op.e \in Eps
      BY <1>3, <1>4, <2>7, OpsRead DEF TransferDone, Doing, Op
    <3>2. \A f \in Endpoints : [f EXCEPT !.has_transfer = FALSE] \in Endpoints
      BY DEF Endpoints
    <3>3. torn = {} /\ torn' = torn
      BY <1>1, <2>7 DEF TransferDone, Encoding, Doing
    <3>4. ep' \in [Eps -> Endpoints] /\ root' \in Roots /\ data' \in [Eps -> Sources] /\ Then(<<>>)
      BY <1>1, <2>7, <3>1, <3>2 DEF TransferDone
    <3> QED
      BY <1>1, <1>2, <3>3, <3>4, EncodingNext, ShortLists
  <2> QED
    BY <2>1, <2>2, <2>3, <2>4, <2>5, <2>6, <2>7
<1> QED
  BY <1>2, <1>5 DEF Typed, TypeOK, Roots, ListOK, NoHead, Encoding

\* What the task's calls begin with.
LEMMA CallsTyped ==
  /\ \A d \in Sources, len \in Nat :
       /\ PrepareData(d, len) \in Seq(Ops) /\ ListOK(PrepareData(d, len))
       /\ \A o \in Elems(PrepareData(d, len)) : o.op = "start"
       /\ PrepareRx(d, len) \in Seq(Ops) /\ ListOK(PrepareRx(d, len))
       /\ \A o \in Elems(PrepareRx(d, len)) : o.op = "start"
  /\ \A r \in Packets :
       /\ SetupTransfers(r) \in Seq(Ops) /\ ListOK(SetupTransfers(r))
       /\ \A o \in Elems(SetupTransfers(r)) : o.op = "start"
<1>1. \A e, d, len : Start(e, d, len).op = "start" /\ NoHead(Start(e, d, len))
  BY DEF Start, NoHead
<1>2. "none" \in Sources /\ "device" \in Sources /\ "report" \in Sources /\ 0 \in Nat
  BY DEF Sources
<1>3. ASSUME NEW d \in Sources, NEW len \in Nat
      PROVE  /\ PrepareData(d, len) \in Seq(Ops) /\ ListOK(PrepareData(d, len))
             /\ \A o \in Elems(PrepareData(d, len)) : o.op = "start"
  <2>1. len % U8 \in Nat
    BY DEF U8
  <2>2. CASE len % U8 = 0
    <3>1. Start("in0", d, 0) \in Ops /\ PrepareData(d, len) = <<Start("in0", d, 0)>>
      BY <1>2, <2>2, OpsMade DEF PrepareData
    <3> QED
      BY <1>1, <3>1, ShortLists, ElemsOf
  <2>3. CASE len % U8 # 0
    <3> DEFINE a == Start("in0", d, len % U8)
               b == Start("out0", "none", 0)
    <3>1. a \in Ops /\ b \in Ops /\ PrepareData(d, len) = <<a, b>>
      BY <1>2, <2>1, <2>3, OpsMade DEF PrepareData
    <3>2. a.op = "start" /\ b.op = "start" /\ NoHead(b)
      BY <1>1
    <3> HIDE DEF a, b
    <3>3. Elems(<<a, b>>) = {a, b} /\ <<a, b>> \in Seq(Ops) /\ ListOK(<<a, b>>)
      BY <3>1, <3>2, ShortLists, ElemsOf
    <3> QED
      BY <3>1, <3>2, <3>3
  <2> QED
    BY <2>2, <2>3
<1>4. ASSUME NEW d \in Sources, NEW len \in Nat
      PROVE  /\ PrepareRx(d, len) \in Seq(Ops) /\ ListOK(PrepareRx(d, len))
             /\ \A o \in Elems(PrepareRx(d, len)) : o.op = "start"
  <2> DEFINE a == Start("out0", d, len)
             b == Start("in0", "none", 0)
  <2>1. a \in Ops /\ b \in Ops /\ PrepareRx(d, len) = <<a, b>>
    BY <1>2, OpsMade DEF PrepareRx
  <2>2. a.op = "start" /\ b.op = "start" /\ NoHead(b)
    BY <1>1
  <2> HIDE DEF a, b
  <2>3. Elems(<<a, b>>) = {a, b} /\ <<a, b>> \in Seq(Ops) /\ ListOK(<<a, b>>)
    BY <2>1, <2>2, ShortLists, ElemsOf
  <2> QED
    BY <2>1, <2>2, <2>3
<1>5. ASSUME NEW r \in Packets
      PROVE  /\ SetupTransfers(r) \in Seq(Ops) /\ ListOK(SetupTransfers(r))
             /\ \A o \in Elems(SetupTransfers(r)) : o.op = "start"
  <2>1. DescLen["device"] \in Nat /\ ReportRoom \in Nat
    BY DeviceAssumption DEF InKinds
  <2>2. \/ SetupTransfers(r) = PrepareData("device", DescLen["device"])
        \/ SetupTransfers(r) = PrepareData("none", 0)
        \/ SetupTransfers(r) = PrepareRx("report", ReportRoom)
        \/ SetupTransfers(r) = <<>>
    <3>1. CASE r.kind = "device"
      BY <3>1 DEF SetupTransfers
    <3>2. CASE r.kind \in {"address", "configure"}
      BY <3>2 DEF SetupTransfers
    <3>3. CASE r.kind = "report"
      BY <3>3 DEF SetupTransfers
    <3>4. CASE r.kind \notin {"device", "address", "configure", "report"}
      BY <3>4 DEF SetupTransfers
    <3> QED
      BY <3>1, <3>2, <3>3, <3>4
  <2>3. CASE SetupTransfers(r) = PrepareData("device", DescLen["device"])
    BY <1>2, <1>3, <2>1, <2>3
  <2>4. CASE SetupTransfers(r) = PrepareData("none", 0)
    BY <1>2, <1>3, <2>4
  <2>5. CASE SetupTransfers(r) = PrepareRx("report", ReportRoom)
    BY <1>2, <1>4, <2>1, <2>5
  <2>6. CASE SetupTransfers(r) = <<>>
    BY <2>6, ShortLists, ElemsOf
  <2> QED
    BY <2>2, <2>3, <2>4, <2>5, <2>6
<1> QED
  BY <1>3, <1>4, <1>5

\* What a bus reset leaves of endpoint 0.
LEMMA Ep0Type == \A in \in BOOLEAN : Ep0(in) \in Endpoints
<1> TAKE in \in BOOLEAN
<1> DEFINE a == [UnusedEndpoint.ep_num EXCEPT !.in = in]
<1>1. a \in EpAddrs /\ EpSize \in Nat
  <2>1. UnusedEndpoint.ep_num \in EpAddrs
    BY UnusedType DEF Endpoints
  <2> QED
    BY <2>1, DeviceAssumption DEF EpAddrs
<1>2. Ep0(in) = [UnusedEndpoint EXCEPT !.size = EpSize, !.ep_num = a, !.is_tx = in]
  BY DEF Ep0
<1> HIDE DEF a
<1>3. \A f \in Endpoints : [f EXCEPT !.size = EpSize] \in Endpoints
  BY <1>1 DEF Endpoints
<1>4. \A f \in Endpoints : [f EXCEPT !.ep_num = a] \in Endpoints
  BY <1>1 DEF Endpoints
<1>5. \A f \in Endpoints : [f EXCEPT !.is_tx = in] \in Endpoints
  BY DEF Endpoints
<1>6. \A f \in Endpoints : [f EXCEPT !.size = EpSize, !.ep_num = a, !.is_tx = in]
          = [[[f EXCEPT !.size = EpSize] EXCEPT !.ep_num = a] EXCEPT !.is_tx = in]
  BY DEF Endpoints
<1>7. \A f \in Endpoints : [f EXCEPT !.size = EpSize, !.ep_num = a, !.is_tx = in] \in Endpoints
  BY <1>3, <1>4, <1>5, <1>6
<1> QED
  BY <1>2, <1>7, UnusedType

\* The task between its calls.
LEMMA HandlerTyped ==
  ASSUME Typed,
         \/ TaskPoll \/ HandleSetup \/ HandleComplete \/ HandleContinue \/ HandlerEnd
         \/ TaskDesc \/ BusReset \/ LineIdle
  PROVE  Typed'
<1>1. /\ ep \in [Eps -> Endpoints] /\ root \in Roots /\ data \in [Eps -> Sources]
      /\ task \in Tasks /\ ListOK(task.todo) /\ torn = Encoding
      /\ setup_packet \in Packets /\ desc_request \in Packets /\ host \in Hosts
      /\ new_devaddr \in {0, Address} /\ polled \in BOOLEAN /\ app \in {"idle", "publish"}
      /\ stage \in {"setup", "data", "status", "complete"}
  BY DEF Typed, TypeOK, ListOK, NoHead, Encoding
<1>2. task.todo = <<>> /\ torn' = torn
  BY DEF TaskPoll, HandleSetup, HandleComplete, HandleContinue, HandlerEnd, TaskDesc, BusReset,
         LineIdle, At
<1>3. torn = {}
  BY <1>1, <1>2 DEF Encoding, Doing
<1>4. "out0" \in Eps /\ "in0" \in Eps /\ "in1" \in Eps
  BY DEF Eps
<1>5. None \in Packets
  BY DEF None, Packets, U16
<1>6. "poll" \in Pcs /\ "setup" \in Pcs /\ "complete" \in Pcs /\ "in0" \in Pcs /\ "in1" \in Pcs
      /\ "clear" \in Pcs /\ "desc" \in Pcs /\ "line" \in Pcs
  BY DEF Pcs
\* Only the task's own variables, the endpoints, the port and the host change.
<1>7. ASSUME NEW pc \in Pcs, NEW ops \in Seq(Ops), ListOK(ops),
             ops # <<>> => ops[1].op # "encode", GoOn(pc, ops)
      PROVE  task' \in Tasks /\ ListOK(task'.todo) /\ torn' = Encoding'
  <2>1. task' \in Tasks /\ ListOK(task'.todo)
        /\ Encoding' = IF ops # <<>> /\ ops[1].op = "encode" THEN {ops[1].e} ELSE {}
    BY <1>1, <1>7, EncodingNext
  <2> QED
    BY <1>2, <1>3, <1>7, <2>1
<1>8. /\ task' \in Tasks /\ ListOK(task'.todo) /\ torn' = Encoding'
      /\ ep' \in [Eps -> Endpoints] /\ root' \in Roots /\ data' \in [Eps -> Sources]
      /\ setup_packet' \in Packets /\ desc_request' \in Packets /\ host' \in Hosts
      /\ new_devaddr' \in {0, Address} /\ polled' \in BOOLEAN /\ app' \in {"idle", "publish"}
      /\ stage' \in {"setup", "data", "status", "complete"}
  <2>1. CASE TaskPoll
    <3>1. /\ task' = [task EXCEPT !.pc = IF root.ints = {} THEN "desc" ELSE "setup", !.seen = root.ints]
          /\ IsrAside /\ UNCHANGED <<ep, data, torn, root, new_devaddr, stage, desc_request>>
      BY <2>1 DEF TaskPoll
    <3>2. task' \in Tasks /\ task'.todo = <<>>
      BY <1>1, <1>2, <1>6, <3>1 DEF Tasks, Roots
    <3>3. ListOK(task'.todo) /\ Encoding' = {}
      BY <3>2, ShortLists DEF Encoding, Doing
    <3> QED
      BY <1>1, <1>3, <3>1, <3>2, <3>3 DEF IsrAside
  <2>2. CASE HandleSetup
    <3> DEFINE r == IF "setup" \in task.seen THEN setup_packet ELSE None
    <3>1. r \in Packets
      BY <1>1, <1>5
    <3>2. /\ UNCHANGED <<data, torn, root>> /\ IsrAside
          /\ new_devaddr' = (IF r.kind = "address" THEN Address ELSE new_devaddr)
          /\ desc_request' = (IF r.kind = "config" THEN r ELSE desc_request)
          /\ ep' = IF r.kind = "configure"
                   THEN [ep EXCEPT !["in1"] = [configure_endpoint(@, Endpoint1) EXCEPT !.is_tx = TRUE]]
                   ELSE ep
          /\ GoOn("complete", SetupTransfers(r))
      BY <2>2 DEF HandleSetup
    <3>3. stage' \in {"setup", "data", "status", "complete"}
      BY <1>1, <2>2 DEF HandleSetup
    <3>4. [configure_endpoint(ep["in1"], Endpoint1) EXCEPT !.is_tx = TRUE] \in Endpoints
      <4>1. Endpoint1 \in Descriptors
        BY DeviceAssumption DEF Endpoint1, Descriptors, EpAddrs, Attrs, U8
      <4>2. configure_endpoint(ep["in1"], Endpoint1) \in Endpoints
        BY <1>1, <1>4, <4>1, ConfigureType
      <4>3. \A f \in Endpoints : [f EXCEPT !.is_tx = TRUE] \in Endpoints
        BY DEF Endpoints
      <4> QED
        BY <4>2, <4>3
    <3> HIDE DEF r
    <3>5. /\ SetupTransfers(r) \in Seq(Ops) /\ ListOK(SetupTransfers(r))
          /\ \A o \in Elems(SetupTransfers(r)) : o.op = "start"
      BY <3>1, CallsTyped
    <3>6. SetupTransfers(r) # <<>> => SetupTransfers(r)[1].op # "encode"
      BY <3>5, EmptySeq, ElemsParts
    <3>7. task' \in Tasks /\ ListOK(task'.todo) /\ torn' = Encoding'
      BY <1>6, <1>7, <3>2, <3>5, <3>6
    <3>8. ep' \in [Eps -> Endpoints]
      BY <1>1, <1>4, <3>2, <3>4
    <3> QED
      BY <1>1, <3>1, <3>2, <3>3, <3>7, <3>8 DEF IsrAside
  <2>3. CASE HandleComplete
    <3> DEFINE all == IF "complete" \in task.seen THEN root.ep_complete ELSE {}
               answer == IF "out0" \in all /\ stage = "data" THEN PrepareData("none", 0) ELSE <<>>
               clear == IF "complete" \in task.seen THEN <<Rmw("ep_complete", {}, all)>> ELSE <<>>
    <3>1. GoOn("in0", answer \o clear)
      BY <2>3 DEF HandleComplete
    <3>2. /\ UNCHANGED <<ep, data, torn, root, new_devaddr, desc_request>> /\ IsrAside
          /\ stage' \in {"setup", "data", "status", "complete"}
      BY <1>1, <2>3 DEF HandleComplete
    <3>3. all \subseteq Eps
      BY <1>1 DEF Roots
    <3>4. /\ answer \in Seq(Ops) /\ ListOK(answer) /\ \A o \in Elems(answer) : o.op = "start"
      BY CallsTyped, ShortLists, ElemsOf DEF Sources
    <3> DEFINE rmw == Rmw("ep_complete", {}, all)
    <3>5. rmw \in Ops /\ rmw.op = "load" /\ NoHead(rmw)
      BY <3>3, OpsMade DEF Rmw, NoHead
    <3> HIDE DEF answer, all, rmw
    <3>6. /\ clear \in Seq(Ops) /\ ListOK(clear)
          /\ \A i \in 1 .. Len(clear) : clear[i] = rmw
      BY <3>5, ShortLists DEF rmw
    <3> HIDE DEF clear
    <3>7. /\ answer \o clear \in Seq(Ops) /\ ListOK(answer \o clear)
          /\ answer \o clear # <<>> => (answer \o clear)[1].op # "encode"
      <4>1. /\ answer \o clear \in Seq(Ops) /\ Len(answer \o clear) = Len(answer) + Len(clear)
            /\ \A i \in 1 .. Len(answer) + Len(clear) :
                 (answer \o clear)[i] = IF i <= Len(answer) THEN answer[i] ELSE clear[i - Len(answer)]
            /\ Len(answer) \in Nat /\ Len(clear) \in Nat
        BY <3>4, <3>6, ConcatProperties, LenProperties
      <4>2. \A i \in 1 .. Len(answer) + Len(clear) :
              \/ (answer \o clear)[i] = rmw
              \/ (answer \o clear)[i].op = "start"
        <5> TAKE i \in 1 .. Len(answer) + Len(clear)
        <5>1. CASE i <= Len(answer)
          <6>1. i \in 1 .. Len(answer)
            BY <4>1, <5>1
          <6>2. answer[i] \in Elems(answer)
            BY <6>1 DEF Elems
          <6> QED
            BY <3>4, <4>1, <5>1, <6>2
        <5>2. CASE i > Len(answer)
          <6>1. i - Len(answer) \in 1 .. Len(clear)
            BY <4>1, <5>2
          <6> QED
            BY <3>6, <4>1, <5>2, <6>1
        <5> QED
          BY <4>1, <5>1, <5>2
      <4>3. \A i \in 1 .. Len(answer \o clear) :
              NoHead((answer \o clear)[i]) /\ (answer \o clear)[i].op # "encode"
        BY <3>5, <4>1, <4>2 DEF NoHead
      <4>4. answer \o clear # <<>> => 1 \in 1 .. Len(answer \o clear)
        BY <4>1, EmptySeq
      <4>5. \A i \in 2 .. Len(answer \o clear) : i \in 1 .. Len(answer \o clear)
        BY <4>1
      <4> QED
        BY <4>1, <4>3, <4>4, <4>5 DEF ListOK
    <3>8. task' \in Tasks /\ ListOK(task'.todo) /\ torn' = Encoding'
      BY <1>6, <1>7, <3>1, <3>7
    <3> QED
      BY <1>1, <3>2, <3>8 DEF IsrAside
  <2>4. CASE HandleContinue
    <3> DEFINE a == [op |-> "continue", e |-> task.pc]
               b == Rmw("ep_continue", {}, {task.pc})
    <3>1. /\ task.pc \in {"in0", "in1"}
          /\ UNCHANGED <<ep, data, torn, root, new_devaddr, stage, desc_request>> /\ IsrAside
          /\ \E pc \in {"in1", "clear"} : GoOn(pc, <<>>) \/ GoOn(pc, <<a, b>>)
      BY <2>4 DEF HandleContinue, At
    <3>2. {} \in SUBSET {"in0", "in1"} /\ {task.pc} \in SUBSET {"in0", "in1"}
      BY <3>1
    <3>3. a \in Ops /\ b \in Ops /\ NoHead(b) /\ a.op # "encode"
      BY <3>1, <3>2, OpsMade DEF Rmw, NoHead
    <3> HIDE DEF a, b
    <3>4. /\ <<a, b>> \in Seq(Ops) /\ ListOK(<<a, b>>) /\ <<a, b>>[1] = a
          /\ <<>> \in Seq(Ops) /\ ListOK(<<>>)
      BY <3>3, ShortLists
    <3>5. PICK pc \in {"in1", "clear"} : GoOn(pc, <<>>) \/ GoOn(pc, <<a, b>>)
      BY <3>1
    <3>6. task' \in Tasks /\ ListOK(task'.todo) /\ torn' = Encoding'
      <4>1. CASE GoOn(pc, <<>>)
        BY <1>6, <1>7, <3>4, <4>1
      <4>2. CASE GoOn(pc, <<a, b>>)
        BY <1>6, <1>7, <3>3, <3>4, <4>2
      <4> QED
        BY <3>5, <4>1, <4>2
    <3> QED
      BY <1>1, <3>1, <3>6 DEF IsrAside
  <2>5. CASE HandlerEnd
    <3> DEFINE a == Rmw("ints", {}, task.seen)
    <3>1. /\ GoOn("desc", <<a>>) /\ IsrAside
          /\ UNCHANGED <<ep, data, torn, root, new_devaddr, stage, desc_request>>
      BY <2>5 DEF HandlerEnd
    <3>2. a \in Ops /\ a.op # "encode"
      <4>1. task.seen \in SUBSET DeviceInts /\ {} \in SUBSET DeviceInts
        BY <1>1 DEF Tasks
      <4> QED
        BY <4>1, OpsMade DEF Rmw
    <3> HIDE DEF a
    <3>3. <<a>> \in Seq(Ops) /\ ListOK(<<a>>) /\ <<a>>[1] = a
      BY <3>2, ShortLists
    <3>4. task' \in Tasks /\ ListOK(task'.todo) /\ torn' = Encoding'
      BY <1>6, <1>7, <3>1, <3>2, <3>3
    <3> QED
      BY <1>1, <3>1, <3>4 DEF IsrAside
  <2>6. CASE TaskDesc
    <3> DEFINE len == DescLen["config"]
               n == IF desc_request.len > len THEN len ELSE desc_request.len
               ops == IF desc_request = None THEN <<>> ELSE PrepareData("config", n)
    <3>1. /\ GoOn("line", ops) /\ IsrAside /\ desc_request' = None
          /\ UNCHANGED <<ep, data, torn, root, new_devaddr, stage>>
      BY <2>6 DEF TaskDesc
    <3>2. n \in Nat /\ "config" \in Sources
      <4>1. len \in Nat
        BY DeviceAssumption DEF InKinds
      <4>2. desc_request.len \in Nat
        <5>1. desc_request.len \in 0 .. U16 - 1
          BY <1>1 DEF Packets
        <5>2. U16 - 1 \in Int
          BY DEF U16
        <5> QED
          BY <5>1, <5>2
      <4> QED
        BY <4>1, <4>2 DEF Sources
    <3> HIDE DEF n
    <3>3. /\ ops \in Seq(Ops) /\ ListOK(ops) /\ \A o \in Elems(ops) : o.op = "start"
      BY <3>2, CallsTyped, ShortLists, ElemsOf
    <3> HIDE DEF ops
    <3>4. ops # <<>> => ops[1].op # "encode"
      BY <3>3, EmptySeq, ElemsParts
    <3>5. task' \in Tasks /\ ListOK(task'.todo) /\ torn' = Encoding'
      BY <1>6, <1>7, <3>1, <3>3, <3>4
    <3> QED
      BY <1>1, <1>5, <3>1, <3>5 DEF IsrAside
  <2>7. CASE BusReset
    <3> DEFINE seen == Rmw("ints", {"reset"}, {})
    <3>1. /\ ep' = [out0 |-> Ep0(FALSE), in0 |-> Ep0(TRUE), in1 |-> UnusedEndpoint]
          /\ root' = [root EXCEPT !.dev_addr = 0, !.ep_complete = {}]
          /\ host' = [host EXCEPT !.stage = "idle"]
          /\ GoOn("poll", <<seen>>)
          /\ UNCHANGED <<polled, data, torn, setup_packet, app, new_devaddr, stage, desc_request>>
      BY <2>7 DEF BusReset
    <3>2. seen \in Ops /\ seen.op # "encode"
      <4>1. {"reset"} \in SUBSET DeviceInts /\ {} \in SUBSET DeviceInts
        BY DEF DeviceInts
      <4> QED
        BY <4>1, OpsMade DEF Rmw
    <3> HIDE DEF seen
    <3>3. <<seen>> \in Seq(Ops) /\ ListOK(<<seen>>) /\ <<seen>>[1] = seen
      BY <3>2, ShortLists
    <3>4. task' \in Tasks /\ ListOK(task'.todo) /\ torn' = Encoding'
      BY <1>6, <1>7, <3>1, <3>2, <3>3
    <3>5. \A in \in BOOLEAN : Ep0(in) \in Endpoints
      BY Ep0Type
    <3>6. ep' \in [Eps -> Endpoints]
      <4>1. Ep0(TRUE) \in Endpoints /\ Ep0(FALSE) \in Endpoints
        BY <3>5
      <4>2. \A f, g, h : f \in Endpoints /\ g \in Endpoints /\ h \in Endpoints =>
              [out0 |-> f, in0 |-> g, in1 |-> h] \in [{"out0", "in0", "in1"} -> Endpoints]
        OBVIOUS
      <4> QED
        BY <3>1, <4>1, <4>2, UnusedType DEF Eps
    <3>7. root' \in Roots /\ host' \in Hosts
      BY <1>1, <3>1 DEF Roots, Hosts
    <3> QED
      BY <1>1, <3>1, <3>4, <3>6, <3>7
  <2>8. CASE LineIdle
    <3>1. /\ GoOn("poll", <<>>) /\ IsrAside
          /\ UNCHANGED <<ep, data, torn, root, new_devaddr, stage, desc_request>>
      BY <2>8 DEF LineIdle
    <3>2. task' \in Tasks /\ ListOK(task'.todo) /\ torn' = Encoding'
      BY <1>6, <1>7, <3>1, ShortLists
    <3> QED
      BY <1>1, <3>1, <3>2 DEF IsrAside
  <2> QED
    BY <2>1, <2>2, <2>3, <2>4, <2>5, <2>6, <2>7, <2>8
<1> QED
  BY <1>8 DEF Typed, TypeOK, Roots, ListOK, NoHead, Encoding

\* The application fills endpoint 1.
LEMMA AppTyped ==
  ASSUME Typed, SetOutData \/ SetOutPublish
  PROVE  Typed'
<1>1. /\ ep \in [Eps -> Endpoints] /\ data \in [Eps -> Sources] /\ torn = Encoding
  BY DEF Typed, TypeOK, Encoding
<1>2. "in1" \in Eps /\ "in1" \in Sources
  BY DEF Eps, Sources
<1>3. transfer_fill(ep["in1"], 1) \in Endpoints /\ transfer_publish(ep["in1"]) \in Endpoints
  BY <1>1, <1>2, FillType, PublishType
<1>4. ep' \in [Eps -> Endpoints] /\ data' \in [Eps -> Sources] /\ app' \in {"idle", "publish"}
  BY <1>1, <1>2, <1>3 DEF SetOutData, SetOutPublish
<1>5. UNCHANGED <<polled, stage, desc_request, task, torn, root, setup_packet, new_devaddr, host>>
  BY DEF SetOutData, SetOutPublish, TaskAside
<1>6. torn' = Encoding'
  BY <1>1, <1>5 DEF Encoding, Doing, Op
<1> QED
  BY <1>4, <1>5, <1>6 DEF Typed, TypeOK, Roots, ListOK, NoHead, Encoding

\* A step that changes nothing.
\* A step that changes nothing keeps the types.
LEMMA StutterTyped == Typed /\ UNCHANGED vars => Typed'
BY DEF Typed, TypeOK, vars, Doing, Op

\* Every state is typed.
LEMMA AlwaysTyped == Spec => []Typed
<1>1. ASSUME Typed, [Next]_vars PROVE Typed'
  BY <1>1, IsrTyped, AccessTyped, HandlerTyped, AppTyped, StutterTyped DEF Next, TaskStep
<1> QED
  BY <1>1, InitTyped, PTL DEF Spec

\* The pool holds endpoints, a packet is torn exactly while it is being encoded,
\* and the registers of the root port hold bits and addresses that exist.
THEOREM DeviceTypes == Spec => []TypeOK
<1>1. Typed => TypeOK
  BY DEF Typed
<1> QED
  BY <1>1, AlwaysTyped, PTL

-----------------------------------------------------------------------------
(* The inductive invariant of a patient host and endpoint 0 alone.            *)

\* What the accesses of each of the task's calls are.
Fits(o, pc, seen) ==
  /\ pc = "poll" =>
       /\ o.op \in {"load", "store"} /\ o.field = "ints"
       /\ o.op = "load" => o.add = {"reset"} /\ o.del = {}
  /\ pc \in {"complete", "line"} => o.op \in {"start", "publish"}
  /\ pc = "in0" =>
       \/ o.op = "start" /\ o.e = "in0"
       \/ o.op = "publish" /\ o.e = "in0"
       \/ o.op \in {"load", "store"} /\ o.field = "ep_complete"
  /\ pc = "in1" =>
       /\ o.op \in {"continue", "encode", "done", "load", "store"}
       /\ o.op \in {"continue", "encode", "done"} => o.e = "in0"
       /\ o.op = "load" /\ o.field = "ints" => o.add = {"complete"}
       /\ o.op = "load" /\ o.field = "ep_continue" => o.add = {} /\ o.del = {"in0"}
       /\ o.op = "store" /\ o.field = "ep_continue" => o.value = {}
  /\ pc = "desc" =>
       /\ o.op \in {"load", "store"} /\ o.field = "ints"
       /\ o.op = "load" => o.add = {} /\ o.del = seen
  /\ pc \notin {"setup", "clear"}

Plan ==
  /\ app = "idle" /\ "in1" \notin root.ep_continue
  /\ task.pc \in {"poll", "desc"} => Len(task.todo) <= 1
  /\ \A o \in Todo : Fits(o, task.pc, task.seen)

InHandler == task.pc \in {"setup", "complete", "in0", "in1", "clear"}

\* A SETUP packet has been received and the task has not looked at it yet.
Unhandled ==
  "setup" \in root.ints /\ (task.pc \in {"poll", "line", "setup"} \/ At("desc"))

StoreInts(o) == o.op = "store" /\ o.field = "ints"

\* The SETUP bit: one the handler has seen is cleared at its end, and no store of
\* the task brings one back or loses one.
SetupBit ==
  /\ InHandler \/ (task.pc = "desc" /\ task.todo # <<>>) =>
       ("setup" \in root.ints => "setup" \in task.seen)
  /\ task.pc = "setup" => ("setup" \in task.seen => "setup" \in root.ints)
  /\ \A o \in Todo : StoreInts(o) =>
       /\ "setup" \in o.value => "setup" \in root.ints /\ task.pc # "desc"
       /\ task.pc = "poll" /\ "setup" \in root.ints => "setup" \in o.value

Away == host.stage \in {"idle", "reset"}

\* Until the task looks at it, the packet and the endpoints are left as it found them.
SetupKept ==
  Unhandled =>
    /\ ~ep["in0"].has_transfer /\ ~ep["out0"].has_transfer
    /\ new_devaddr = 0 /\ desc_request = None
    /\ task.todo # <<>> => task.pc = "poll"
    /\ IF Away THEN setup_packet.kind # "address"
       ELSE /\ setup_packet = host.request /\ host.stage = FirstStage(host.request)
            /\ host.got = <<>>

\* The stages of a control transfer, and what a descriptor is prepared for.
StageKept ==
  /\ host.stage \in {"in", "status_out"} => host.request.kind \in InKinds
  /\ host.stage = "out" => host.request.kind = "report"
  /\ host.stage = "status_in" => host.request.kind \in {"address", "configure", "report"}
  /\ ~Away => host.request \in Requests[FALSE]
  /\ desc_request # None =>
       Away \/ (desc_request = host.request /\ host.request.kind = "config")

\* The addresses, and the endpoints that a bus reset sets up.
AddressKept ==
  /\ host.stage = "reset" => host.addr = 0
  /\ host.stage # "reset" =>
       /\ root.dev_addr = host.addr
       /\ ep["in0"].is_tx /\ ~ep["out0"].is_tx
       /\ ep["in0"].size = EpSize /\ ep["out0"].size = EpSize
  /\ new_devaddr # 0 =>
       host.stage = "status_in" /\ host.request.kind = "address"
  /\ host.stage = "status_in" /\ host.request.kind = "address" /\ ~Unhandled =>
       new_devaddr = Address

\* The host has taken no packet from endpoint 0 since its SETUP.
Virgin == host.stage \in {"out", "status_in"} \/ (host.stage = "in" /\ host.got = <<>>)

\* No access has to do with a CONTINUE.
Calm(o) ==
  /\ o.op \notin {"continue", "encode", "done"}
  /\ o.op \in {"load", "store"} => o.field # "ep_continue"
  /\ StoreInts(o) => "continue" \notin o.value

Publishing(e) == Doing("publish") /\ Op.e = e

\* Then no CONTINUE is about, and everything starts with DATA1.
VirginKept ==
  Virgin =>
    /\ host.pid = "DATA1" /\ ep["in0"].data_id = 1
    /\ "continue" \notin root.ints
    /\ InHandler => "continue" \notin task.seen
    /\ \A o \in Todo : Calm(o)
    /\ ep["in0"].has_transfer \/ Publishing("in0") => ep["in0"].encoded.pid = "DATA1"

ControlInv == Plan /\ SetupBit /\ SetupKept /\ StageKept /\ AddressKept /\ VirginKept
PatientInv == ~polled => ControlInv


\* The list, and where the task is, while the packet interrupt runs.
LEMMA AsideFrame ==
  ASSUME task' = task
  PROVE  /\ Todo' = Todo /\ Rest' = Rest
         /\ \A e : Publishing(e)' <=> Publishing(e)
         /\ \A x : (At(x)' <=> At(x)) /\ (Doing(x)' <=> Doing(x))
         /\ InHandler' <=> InHandler
BY DEF Todo, Rest, Elems, Publishing, At, Doing, Op, InHandler

\* An empty list.
LEMMA NothingToDo ==
  ASSUME task.todo = <<>>
  PROVE  Todo = {} /\ (\A x : ~Doing(x)) /\ (\A e : ~Publishing(e))
BY ElemsOf DEF Todo, Doing, Publishing

\* A packet is not torn, and is the one expected, while none was taken.
LEMMA VirginWhole ==
  ASSUME Typed, ControlInv, Virgin, ep["in0"].has_transfer
  PROVE  "in0" \notin torn /\ ep["in0"].encoded.pid = host.pid
<1>1. task \in Tasks /\ ListOK(task.todo) /\ torn = Encoding
  BY DEF Typed, TypeOK, Encoding
<1>2. ~Doing("encode")
  <2> SUFFICES ASSUME Doing("encode") PROVE FALSE
    OBVIOUS
  <2>1. task.todo # <<>> /\ Op.op = "encode"
    BY DEF Doing, Op
  <2>2. Op \in Todo
    BY <1>1, <2>1, HeadOp
  <2> QED
    BY <2>1, <2>2 DEF ControlInv, VirginKept, Calm
<1> QED
  BY <1>1, <1>2 DEF Encoding, ControlInv, VirginKept

\* What SETUP does, to a host that waited for the task.
LEMMA SetupFacts ==
  ASSUME Typed, Patient, NEW r \in Requests[FALSE], IsrSetup(r)
  PROVE  /\ root.ints = {} /\ task.todo = <<>> /\ task.pc \in {"poll", "desc", "line"}
         /\ desc_request = None
         /\ task' = task /\ desc_request' = desc_request /\ new_devaddr' = new_devaddr
         /\ app' = app /\ setup_packet' = r /\ torn' = torn
         /\ root'.ints = {"setup"} /\ root'.ep_continue = root.ep_continue
         /\ root'.dev_addr = root.dev_addr
         /\ host'.request = r /\ host'.stage = FirstStage(r) /\ host'.pid = "DATA1"
         /\ host'.got = <<>> /\ host'.addr = host.addr
         /\ \A e \in {"in0", "out0"} :
              /\ ~ep'[e].has_transfer /\ ep'[e].data_id = 1
              /\ ep'[e].is_tx = ep[e].is_tx /\ ep'[e].size = ep[e].size
         /\ Todo = {} /\ Todo' = {} /\ ~InHandler /\ ~InHandler'
         /\ ~Publishing("in0")' /\ ~Publishing("out0")' /\ task'.todo = <<>>
<1>1. /\ root.ints = {} /\ task.todo = <<>> /\ task.pc \in {"poll", "desc", "line"}
      /\ desc_request = None
  BY DEF IsrSetup, Caught
<1>2. /\ task' = task /\ desc_request' = desc_request /\ new_devaddr' = new_devaddr
      /\ app' = app /\ setup_packet' = r /\ torn' = torn
  BY DEF IsrSetup, TaskAside
<1>3. /\ root'.ints = {"setup"} /\ root'.ep_continue = root.ep_continue
      /\ root'.dev_addr = root.dev_addr
  BY <1>1 DEF IsrSetup, Typed, Roots
<1>4. /\ host'.request = r /\ host'.stage = FirstStage(r) /\ host'.pid = "DATA1"
      /\ host'.got = <<>> /\ host'.addr = host.addr
  BY DEF IsrSetup, Started, Typed, Hosts
<1>5. \A e \in {"in0", "out0"} :
        /\ ~ep'[e].has_transfer /\ ep'[e].data_id = 1
        /\ ep'[e].is_tx = ep[e].is_tx /\ ep'[e].size = ep[e].size
  <2>1. ep["in0"] \in Endpoints /\ ep["out0"] \in Endpoints
    BY DEF Typed, TypeOK, Eps
  <2>2. \A f \in Endpoints :
          LET g == [f EXCEPT !.has_transfer = FALSE, !.data_id = 1]
          IN  ~g.has_transfer /\ g.data_id = 1 /\ g.is_tx = f.is_tx /\ g.size = f.size
    BY DEF Endpoints
  <2>3. /\ ep'["in0"] = [ep["in0"] EXCEPT !.has_transfer = FALSE, !.data_id = 1]
        /\ ep'["out0"] = [ep["out0"] EXCEPT !.has_transfer = FALSE, !.data_id = 1]
    BY DEF IsrSetup, Eps
  <2>4. /\ ~ep'["in0"].has_transfer /\ ep'["in0"].data_id = 1
        /\ ep'["in0"].is_tx = ep["in0"].is_tx /\ ep'["in0"].size = ep["in0"].size
    BY <2>1, <2>2, <2>3
  <2>5. /\ ~ep'["out0"].has_transfer /\ ep'["out0"].data_id = 1
        /\ ep'["out0"].is_tx = ep["out0"].is_tx /\ ep'["out0"].size = ep["out0"].size
    BY <2>1, <2>2, <2>3
  <2> QED
    BY <2>4, <2>5
<1>6. /\ Todo = {} /\ Todo' = {} /\ ~InHandler /\ ~InHandler'
      /\ ~Publishing("in0")' /\ ~Publishing("out0")' /\ task'.todo = <<>>
  <2>1. Todo = {} /\ ~Publishing("in0") /\ ~Publishing("out0") /\ ~InHandler
    BY <1>1, NothingToDo DEF InHandler
  <2>2. /\ Todo' = Todo /\ (Publishing("in0")' <=> Publishing("in0"))
        /\ (Publishing("out0")' <=> Publishing("out0")) /\ (InHandler' <=> InHandler)
    BY <1>2, AsideFrame
  <2> QED
    BY <1>1, <1>2, <2>1, <2>2
<1> QED
  BY <1>1, <1>2, <1>3, <1>4, <1>5, <1>6

\* SETUP keeps the invariant.
LEMMA SetupCore ==
  ASSUME Typed, Patient, ~polled, ControlInv, NEW r \in Requests[FALSE], IsrSetup(r)
  PROVE  ControlInv'
<1>1. /\ root.ints = {} /\ task.todo = <<>> /\ task.pc \in {"poll", "desc", "line"}
      /\ desc_request = None
  BY SetupFacts
<1>2. /\ task' = task /\ desc_request' = desc_request /\ new_devaddr' = new_devaddr
      /\ app' = app /\ setup_packet' = r /\ torn' = torn
  BY SetupFacts
<1>3. /\ root'.ints = {"setup"} /\ root'.ep_continue = root.ep_continue
      /\ root'.dev_addr = root.dev_addr
  BY SetupFacts
<1>4. /\ host'.request = r /\ host'.stage = FirstStage(r) /\ host'.pid = "DATA1"
      /\ host'.got = <<>> /\ host'.addr = host.addr
  BY SetupFacts
<1>5. r.kind \in Kinds
  BY DeviceAssumption
<1>6. \A e \in {"in0", "out0"} :
        /\ ~ep'[e].has_transfer /\ ep'[e].data_id = 1
        /\ ep'[e].is_tx = ep[e].is_tx /\ ep'[e].size = ep[e].size
  BY SetupFacts
<1>7. /\ Todo = {} /\ Todo' = {} /\ ~InHandler /\ ~InHandler'
      /\ ~Publishing("in0")' /\ task'.todo = <<>>
  BY SetupFacts
<1>8. Unhandled'
  BY <1>1, <1>2, <1>3 DEF Unhandled, At
<1>9. new_devaddr = 0 /\ host.stage # "reset"
  BY DEF IsrSetup, MayStart, ControlInv, AddressKept
<1>10. Plan'
  BY <1>2, <1>3, <1>7 DEF ControlInv, Plan
<1>11. SetupBit'
  BY <1>1, <1>2, <1>7 DEF SetupBit
<1>12. ~Away' /\ host'.stage \in {"in", "out", "status_in"}
  BY <1>4 DEF Away, FirstStage
<1>13. SetupKept'
  BY <1>1, <1>2, <1>4, <1>6, <1>9, <1>12 DEF SetupKept
<1>14. StageKept'
  <2>1. /\ host'.stage \in {"in", "status_out"} => r.kind \in InKinds
        /\ host'.stage = "out" => r.kind = "report"
        /\ host'.stage = "status_in" => r.kind \in {"address", "configure", "report"}
    BY <1>4, <1>5 DEF FirstStage, InKinds, Kinds
  <2> QED
    BY <1>1, <1>2, <1>4, <2>1 DEF StageKept
<1>15. AddressKept'
  BY <1>2, <1>3, <1>4, <1>6, <1>8, <1>9, <1>12 DEF AddressKept, ControlInv
<1>16. VirginKept'
  BY <1>3, <1>4, <1>6, <1>7 DEF VirginKept
<1> QED
  BY <1>10, <1>11, <1>13, <1>14, <1>15, <1>16 DEF ControlInv

\* IN to endpoint 0.
LEMMA In0Core ==
  ASSUME Typed, ~polled, ControlInv, IsrIn0
  PROVE  ControlInv'
<1>1. /\ task' = task /\ desc_request' = desc_request /\ ep' = ep
      /\ app' = app /\ setup_packet' = setup_packet
  BY DEF IsrIn0, TaskAside
<1>2. /\ root'.ints = root.ints \cup {"continue"}
      /\ root'.ep_continue = root.ep_continue \cup {"in0"}
      /\ root'.dev_addr = (IF new_devaddr > 0 THEN new_devaddr ELSE root.dev_addr)
      /\ new_devaddr' = 0
  <2>1. new_devaddr \in {0, Address} /\ Address \in Nat \ {0} /\ root \in Roots
    BY DeviceAssumption DEF Typed, TypeOK
  <2>2. CASE new_devaddr > 0
    BY <2>1, <2>2 DEF IsrIn0, Flagged, Roots
  <2>3. CASE ~(new_devaddr > 0)
    <3>1. new_devaddr = 0
      BY <2>1, <2>3
    <3>2. root' = Flagged("in0") /\ new_devaddr' = new_devaddr
      BY <2>3 DEF IsrIn0
    <3> QED
      BY <2>1, <2>3, <3>1, <3>2 DEF Flagged, Roots
  <2> QED
    BY <2>2, <2>3
<1>3. ep["in0"].has_transfer /\ host.stage \in {"in", "status_in"}
  BY DEF IsrIn0
<1>4. ~Unhandled
  BY <1>3 DEF ControlInv, SetupKept
<1>5. /\ Todo' = Todo /\ (InHandler' <=> InHandler) /\ (At("desc")' <=> At("desc"))
      /\ ~Unhandled'
  <2>1. /\ Todo' = Todo /\ (InHandler' <=> InHandler) /\ (At("desc")' <=> At("desc"))
    BY <1>1, AsideFrame
  <2> QED
    BY <1>1, <1>2, <1>4, <2>1 DEF Unhandled
<1>6. CASE host.stage = "status_in"
  <2>1. Virgin /\ "in0" \notin torn /\ ep["in0"].encoded.pid = host.pid
    BY <1>3, <1>6, VirginWhole DEF Virgin
  <2>2. /\ host'.stage = "idle" /\ host'.request = host.request
        /\ host'.addr = (IF host.request.kind = "address" THEN Address ELSE host.addr)
    BY <1>6, <2>1 DEF IsrIn0, HostTakes, Typed, Hosts
  <2>3. host'.addr = root'.dev_addr
    <3>1. /\ host.request.kind = "address" => new_devaddr = Address
          /\ new_devaddr # 0 => host.request.kind = "address"
          /\ root.dev_addr = host.addr /\ Address \in Nat \ {0} /\ new_devaddr \in {0, Address}
      BY <1>4, <1>6, DeviceAssumption DEF ControlInv, AddressKept, Typed, TypeOK
    <3> QED
      BY <1>2, <2>2, <3>1
  <2>4. Plan' /\ SetupBit' /\ SetupKept'
    BY <1>1, <1>2, <1>5 DEF ControlInv, Plan, SetupBit, SetupKept
  <2>5. StageKept' /\ AddressKept' /\ VirginKept'
    BY <1>1, <1>2, <1>6, <2>2, <2>3 DEF ControlInv, StageKept, AddressKept, VirginKept, Virgin, Away
  <2> QED
    BY <2>4, <2>5 DEF ControlInv
<1>7. CASE host.stage = "in"
  <2>1. /\ host'.request = host.request /\ host'.addr = host.addr
        /\ host'.stage \in {"in", "status_out"}
        /\ host.got # <<>> => host'.got # <<>>
        /\ Virgin => host'.got # <<>>
    <3>1. \/ host' = host /\ ("in0" \in torn \/ ep["in0"].encoded.pid # host.pid)
          \/ /\ host'.request = host.request /\ host'.addr = host.addr
             /\ host'.stage \in {"in", "status_out"} /\ host'.got = Append(host.got, Packet("in0"))
      BY <1>7 DEF IsrIn0, HostTakes, Typed, Hosts
    <3>2. Append(host.got, Packet("in0")) # <<>>
      <4>1. host.got \in Seq([data : Sources, off : Nat, len : Nat])
        BY DEF Typed, Hosts
      <4> QED
        BY <4>1
    <3> QED
      BY <1>3, <1>7, <3>1, <3>2, VirginWhole
  <2>2. ~Virgin'
    BY <1>7, <2>1 DEF Virgin
  <2>3. new_devaddr = 0
    BY <1>7 DEF ControlInv, AddressKept
  <2>4. Plan' /\ SetupBit' /\ SetupKept'
    BY <1>1, <1>2, <1>5 DEF ControlInv, Plan, SetupBit, SetupKept
  <2>5. StageKept'
    BY <1>1, <1>7, <2>1 DEF ControlInv, StageKept, Away
  <2>6. AddressKept'
    BY <1>1, <1>2, <1>7, <2>1, <2>3 DEF ControlInv, AddressKept
  <2> QED
    BY <2>2, <2>4, <2>5, <2>6 DEF ControlInv, VirginKept
<1> QED
  BY <1>3, <1>6, <1>7

\* OUT to endpoint 0.
LEMMA Out0Core ==
  ASSUME Typed, Patient, ~polled, ControlInv, IsrOut0
  PROVE  ControlInv'
<1>1. /\ task' = task /\ desc_request' = desc_request /\ new_devaddr' = new_devaddr
      /\ app' = app /\ host.stage \in {"out", "status_out"}
      /\ host.stage = "out" => root.ints = {}
  BY DEF IsrOut0, TaskAside, Caught
<1>2. ~Unhandled
  BY <1>1 DEF ControlInv, SetupKept, Unhandled, Away, FirstStage
<1>3. /\ root'.ints \subseteq root.ints \cup {"complete"} /\ root.ints \subseteq root'.ints
      /\ root'.ep_continue = root.ep_continue /\ root'.dev_addr = root.dev_addr
  <2>1. root' = root \/ root' = [root EXCEPT !.ints = @ \union {"complete"},
                                             !.ep_complete = @ \union {"out0"}]
    BY DEF IsrOut0
  <2> QED
    BY <2>1 DEF Typed, Roots
<1>4. /\ ep'["in0"] = ep["in0"]
      /\ ep'["out0"].is_tx = ep["out0"].is_tx /\ ep'["out0"].size = ep["out0"].size
  <2> DEFINE len == IF host.stage = "out" THEN host.request.len ELSE 0
             res == IF len > transaction_len(ep["out0"]) THEN transaction_len(ep["out0"]) ELSE len
  <2>1. ep \in [Eps -> Endpoints] /\ "out0" \in Eps /\ "in0" \in Eps
    BY DEF Typed, TypeOK, Eps
  <2>2. ep["out0"] \in Endpoints /\ res \in Nat
    <3>1. len \in Nat
      BY DEF Typed, Hosts, Packets
    <3> QED
      BY <2>1, <3>1, LenType
  <2>3. ep' = ep \/ ep' = [ep EXCEPT !["out0"] = transfer_continue(@, res)]
    BY DEF IsrOut0
  <2> HIDE DEF res
  <2>4. LET f == transfer_continue(ep["out0"], res)
        IN  f.is_tx = ep["out0"].is_tx /\ f.size = ep["out0"].size
    BY <2>2, ContinueFields
  <2> QED
    BY <2>1, <2>3, <2>4
<1>5. /\ Todo' = Todo /\ (InHandler' <=> InHandler) /\ (At("desc")' <=> At("desc"))
      /\ (Publishing("in0")' <=> Publishing("in0")) /\ ~Unhandled'
  <2>1. /\ Todo' = Todo /\ (InHandler' <=> InHandler) /\ (At("desc")' <=> At("desc"))
        /\ (Publishing("in0")' <=> Publishing("in0"))
    BY <1>1, AsideFrame
  <2> QED
    BY <1>1, <1>2, <1>3, <2>1 DEF Unhandled
<1>6. Plan' /\ SetupBit' /\ SetupKept'
  <2>1. "setup" \in root'.ints <=> "setup" \in root.ints
    BY <1>3
  <2> QED
    BY <1>1, <1>3, <1>5, <2>1 DEF ControlInv, Plan, SetupBit, SetupKept
<1>7. new_devaddr = 0
  BY <1>1 DEF ControlInv, AddressKept
<1>8. /\ host'.request = host.request /\ host'.addr = host.addr
      /\ \/ host'.stage = host.stage /\ host'.pid = host.pid /\ host'.got = host.got
         \/ host.stage = "out" /\ host'.stage = "status_in" /\ host'.pid = "DATA1"
         \/ host.stage = "status_out" /\ host'.stage = "idle"
  <2>1. \/ host' = host
        \/ /\ host.stage = "out"
           /\ \E g : host' = [host EXCEPT !.stage = "status_in", !.pid = "DATA1", !.got = g]
        \/ host.stage = "status_out" /\ host' = [host EXCEPT !.stage = "idle"]
    BY <1>1 DEF IsrOut0
  <2>2. host \in Hosts
    BY DEF Typed
  <2> QED
    BY <2>1, <2>2 DEF Hosts
<1>9. StageKept'
  BY <1>1, <1>8 DEF ControlInv, StageKept, Away
<1>10. AddressKept'
  <2>1. host'.stage = "status_in" => host'.request.kind # "address"
    BY <1>1, <1>8 DEF ControlInv, StageKept
  <2> QED
    BY <1>1, <1>3, <1>4, <1>7, <1>8, <2>1 DEF ControlInv, AddressKept
<1>11. VirginKept'
  <2>1. Virgin' => Virgin
    BY <1>1, <1>8 DEF Virgin
  <2>2. "continue" \in root'.ints => "continue" \in root.ints
    BY <1>3
  <2>3. Virgin => host'.pid = "DATA1" \/ ~Virgin'
    BY <1>8 DEF ControlInv, VirginKept, Virgin
  <2> QED
    BY <1>1, <1>4, <1>5, <2>1, <2>2, <2>3 DEF ControlInv, VirginKept
<1> QED
  BY <1>6, <1>9, <1>10, <1>11 DEF ControlInv

\* The host drives SE0.
LEMMA ResetCore ==
  ASSUME Typed, ~polled, ControlInv, HostReset
  PROVE  ControlInv'
<1>1. /\ task' = task /\ desc_request' = desc_request /\ new_devaddr' = new_devaddr
      /\ app' = app /\ ep' = ep /\ root' = root /\ setup_packet' = setup_packet
  BY DEF HostReset, TaskAside
<1>2. host'.stage = "reset" /\ host'.addr = 0 /\ host'.request = host.request /\ host'.got = host.got
  BY DEF HostReset, Typed, Hosts
<1>3. /\ Todo' = Todo /\ (InHandler' <=> InHandler) /\ (Unhandled' <=> Unhandled)
  BY <1>1, AsideFrame DEF Unhandled
<1>4. new_devaddr = 0 /\ (host.stage = "idle" \/ host.request.kind # "address")
  BY DEF HostReset, MayStart, ControlInv, AddressKept
<1>5. Plan' /\ SetupBit'
  BY <1>1, <1>3 DEF ControlInv, Plan, SetupBit
<1>6. SetupKept'
  BY <1>1, <1>2, <1>3, <1>4 DEF ControlInv, SetupKept, Away
<1>7. StageKept' /\ AddressKept' /\ VirginKept'
  BY <1>1, <1>2, <1>4 DEF StageKept, AddressKept, VirginKept, Virgin, Away
<1> QED
  BY <1>5, <1>6, <1>7 DEF ControlInv

\* What an access has to leave alone for the invariant to stay.
LEMMA AccessShare ==
  ASSUME Typed, ~polled, ControlInv, task.todo # <<>>,
         NEW ops \in Seq(Ops), ListOK(ops), Then(ops),
         UNCHANGED <<setup_packet, app, host, new_devaddr, desc_request>>,
         root'.dev_addr = root.dev_addr, "in1" \notin root'.ep_continue,
         \A e \in {"in0", "out0"} : ep'[e].is_tx = ep[e].is_tx /\ ep'[e].size = ep[e].size,
         task.pc = "poll" => ep' = ep,
         "setup" \in root'.ints => "setup" \in root.ints,
         task.pc = "poll" => ("setup" \in root.ints => "setup" \in root'.ints),
         task.pc = "desc" /\ ops = <<>> => "setup" \notin root'.ints,
         task.pc \in {"poll", "desc"} => Len(ops) <= 1,
         \A o \in Elems(ops) :
           /\ Fits(o, task.pc, task.seen)
           /\ StoreInts(o) =>
                /\ "setup" \in o.value => "setup" \in root'.ints /\ task.pc # "desc"
                /\ task.pc = "poll" /\ "setup" \in root'.ints => "setup" \in o.value,
         Virgin =>
           /\ ep'["in0"].data_id = 1 /\ "continue" \notin root'.ints
           /\ \A o \in Elems(ops) : Calm(o)
           /\ ep'["in0"].has_transfer \/ (ops # <<>> /\ ops[1].op = "publish" /\ ops[1].e = "in0") =>
                ep'["in0"].encoded.pid = "DATA1"
  PROVE  ControlInv'
<1>1. task \in Tasks /\ ListOK(task.todo)
  BY DEF Typed
<1>2. /\ task'.pc = task.pc /\ task'.seen = task.seen /\ Todo' = Elems(ops) \cup Rest
      /\ Len(task'.todo) = Len(ops) + Len(task.todo) - 1
      /\ ops # <<>> => task'.todo # <<>> /\ Head(task'.todo) = ops[1]
      /\ ops = <<>> => (task'.todo # <<>> => NoHead(Head(task'.todo)))
  BY <1>1, ThenTyped
<1>3. /\ Op \in Todo /\ Todo = {Op} \cup Rest /\ (\A o \in Rest : NoHead(o))
      /\ Len(task.todo) \in Nat \ {0}
  BY <1>1, HeadOp
<1>4. Fits(Op, task.pc, task.seen) /\ task.pc \notin {"setup", "clear"}
  BY <1>3 DEF ControlInv, Plan, Fits
<1>5. Unhandled => task.pc = "poll"
  BY DEF ControlInv, SetupKept
<1>6. Unhandled' => Unhandled
  BY <1>2, <1>4, <1>5 DEF Unhandled, At
<1>7. Unhandled => Unhandled'
  BY <1>2, <1>5 DEF Unhandled
<1>8. Plan'
  <2>1. task.pc \in {"poll", "desc"} => Len(task'.todo) <= 1
    <3>1. Len(ops) \in Nat
      BY LenProperties
    <3>2. task.pc \in {"poll", "desc"} => Len(ops) <= 1 /\ Len(task.todo) <= 1
      BY DEF ControlInv, Plan
    <3> QED
      BY <1>2, <1>3, <3>1, <3>2
  <2>2. \A o \in Elems(ops) \cup Rest : Fits(o, task.pc, task.seen)
    BY <1>3 DEF ControlInv, Plan
  <2> QED
    BY <1>2, <2>1, <2>2 DEF ControlInv, Plan
<1>9. SetupBit'
  <2>1. InHandler' => InHandler
    BY <1>2 DEF InHandler
  <2>2. InHandler' \/ (task'.pc = "desc" /\ task'.todo # <<>>) =>
          ("setup" \in root'.ints => "setup" \in task'.seen)
    BY <1>2, <2>1 DEF ControlInv, SetupBit
  <2>3. \A o \in Rest : ~StoreInts(o)
    BY <1>3 DEF NoHead, StoreInts
  <2> QED
    BY <1>2, <1>4, <2>2, <2>3 DEF SetupBit
<1>10. SetupKept'
  <2>1. Away' <=> Away
    BY DEF Away
  <2> QED
    BY <1>2, <1>5, <1>6, <2>1 DEF ControlInv, SetupKept
<1>11. StageKept'
  BY DEF ControlInv, StageKept, Away
<1>12. AddressKept'
  BY <1>7 DEF ControlInv, AddressKept
<1>13. VirginKept'
  <2> SUFFICES ASSUME Virgin' PROVE VirginKept'
    BY DEF VirginKept
  <2>1. Virgin
    BY DEF Virgin
  <2>2. \A o \in Elems(ops) \cup Rest : Calm(o)
    BY <1>3, <2>1 DEF ControlInv, VirginKept
  <2>3. Publishing("in0")' => ops # <<>> /\ ops[1].op = "publish" /\ ops[1].e = "in0"
    BY <1>2 DEF Publishing, Doing, Op, NoHead
  <2>4. InHandler' => "continue" \notin task'.seen
    BY <1>2, <2>1 DEF ControlInv, VirginKept, InHandler
  <2>5. host'.pid = "DATA1"
    BY <2>1 DEF ControlInv, VirginKept
  <2> QED
    BY <1>2, <2>1, <2>2, <2>3, <2>4, <2>5 DEF VirginKept
<1> QED
  BY <1>8, <1>9, <1>10, <1>11, <1>12, <1>13 DEF ControlInv

\* The facts an access starts from.
LEMMA AccessStart ==
  ASSUME Typed, ControlInv, task.todo # <<>>
  PROVE  /\ Op \in Ops /\ Op \in Todo /\ Fits(Op, task.pc, task.seen)
         /\ \A e \in {"in0", "out0"} : ep[e] \in Endpoints /\ e \in Eps
         /\ ep \in [Eps -> Endpoints] /\ root \in Roots
         /\ task \in Tasks /\ ListOK(task.todo) /\ torn = Encoding
         /\ task.pc \notin {"setup", "clear"}
         /\ "in1" \notin root.ep_continue
<1>1. task \in Tasks /\ ListOK(task.todo) /\ ep \in [Eps -> Endpoints] /\ root \in Roots /\ torn = Encoding
  BY DEF Typed, TypeOK, Encoding
<1>2. Op \in Ops /\ Op \in Todo
  BY <1>1, HeadOp
<1>3. Fits(Op, task.pc, task.seen) /\ "in1" \notin root.ep_continue
  BY <1>2 DEF ControlInv, Plan
<1>4. task.pc \notin {"setup", "clear"}
  BY <1>3 DEF Fits
<1> QED
  BY <1>1, <1>2, <1>3, <1>4 DEF Eps

\* transfer_start keeps it, up to the store that publishes ...
LEMMA FillCore ==
  ASSUME Typed, ~polled, ControlInv, TransferFill
  PROVE  ControlInv'
<1>1. task.todo # <<>> /\ Op.op = "start"
  BY DEF TransferFill, Doing, Op
<1>2. /\ Op \in Ops /\ Op \in Todo /\ Fits(Op, task.pc, task.seen)
      /\ (\A e \in {"in0", "out0"} : ep[e] \in Endpoints /\ e \in Eps)
      /\ ep \in [Eps -> Endpoints] /\ root \in Roots
      /\ task.pc \notin {"setup", "clear"} /\ "in1" \notin root.ep_continue
  BY <1>1, AccessStart
<1>3. task.pc \notin {"poll", "desc", "in1"} /\ Op.e \in {"in0", "out0"} /\ Op.len \in Nat
      /\ Op.data \in Sources
  BY <1>1, <1>2, OpsRead DEF Fits
<1>4. /\ UNCHANGED <<setup_packet, app, host, new_devaddr, desc_request>> /\ root' = root
  BY DEF TransferFill, IsrAside
<1>5. Virgin =>
        /\ ep["in0"].data_id = 1 /\ "continue" \notin root.ints /\ ep["in0"].is_tx
        /\ ep["in0"].has_transfer => ep["in0"].encoded.pid = "DATA1"
  BY DEF ControlInv, VirginKept, Virgin, AddressKept
<1>6. CASE Then(<<>>) /\ ep' = ep
  <2>1. Elems(<<>>) = {} /\ <<>> \in Seq(Ops) /\ ListOK(<<>>)
    BY ElemsOf, ShortLists
  <2> QED
    BY <1>1, <1>2, <1>3, <1>4, <1>5, <1>6, <2>1, AccessShare
<1>7. CASE /\ ep' = [ep EXCEPT ![Op.e] = transfer_fill(@, Op.len)]
           /\ Then(<<[op |-> "publish", e |-> Op.e]>>)
  <2> DEFINE o == [op |-> "publish", e |-> Op.e]
             f == transfer_fill(ep[Op.e], Op.len)
  <2>1. /\ f.data_id = ep[Op.e].data_id /\ f.is_tx = ep[Op.e].is_tx /\ f.size = ep[Op.e].size
        /\ ep[Op.e].is_tx => f.encoded.pid = DataPid(ep[Op.e].data_id)
    <3>1. ep[Op.e] \in Endpoints
      BY <1>2, <1>3
    <3>2. /\ f.data_id = ep[Op.e].data_id /\ f.is_tx = ep[Op.e].is_tx /\ f.size = ep[Op.e].size
          /\ ep[Op.e].is_tx => f.encoded = [pid |-> DataPid(ep[Op.e].data_id), off |-> 0,
                                            len |-> transaction_len(f)]
      BY <1>3, <3>1, FillFields
    <3> HIDE DEF f
    <3> QED
      BY <3>2
  <2>2. \A e \in {"in0", "out0"} : ep'[e] = IF e = Op.e THEN f ELSE ep[e]
    BY <1>2, <1>3, <1>7
  <2>3. o \in Ops /\ o.op = "publish" /\ o.e = Op.e
    BY <1>3, OpsMade
  <2> HIDE DEF o, f
  <2>4. Elems(<<o>>) = {o} /\ <<o>> \in Seq(Ops) /\ ListOK(<<o>>) /\ <<o>>[1] = o
    BY <2>3, ElemsOf, ShortLists
  <2>5. Fits(o, task.pc, task.seen) /\ Calm(o) /\ ~StoreInts(o)
    BY <1>1, <1>2, <1>3, <2>3 DEF Fits, Calm, StoreInts
  <2>6. DataPid(1) = "DATA1"
    BY DEF DataPid
  <2>7. Virgin => ep'["in0"].data_id = 1 /\
          (ep'["in0"].has_transfer \/ Op.e = "in0" => ep'["in0"].encoded.pid = "DATA1")
    BY <1>5, <2>1, <2>2, <2>6
  <2>8. \A e \in {"in0", "out0"} : ep'[e].is_tx = ep[e].is_tx /\ ep'[e].size = ep[e].size
    BY <2>1, <2>2
  <2>9. Then(<<o>>)
    BY <1>7 DEF o
  <2> QED
    BY <1>1, <1>2, <1>3, <1>4, <1>5, <2>3, <2>4, <2>5, <2>7, <2>8, <2>9, AccessShare
<1> QED
  BY <1>6, <1>7 DEF TransferFill

\* ... and that store.
LEMMA PublishCore ==
  ASSUME Typed, ~polled, ControlInv, TransferPublish
  PROVE  ControlInv'
<1>1. task.todo # <<>> /\ Op.op = "publish" /\ Doing("publish")
  BY DEF TransferPublish, Doing, Op
<1>2. /\ Op \in Ops /\ Op \in Todo /\ Fits(Op, task.pc, task.seen)
      /\ (\A e \in {"in0", "out0"} : ep[e] \in Endpoints /\ e \in Eps)
      /\ ep \in [Eps -> Endpoints] /\ root \in Roots
      /\ task.pc \notin {"setup", "clear"} /\ "in1" \notin root.ep_continue
  BY <1>1, AccessStart
<1>3. task.pc \notin {"poll", "desc", "in1"} /\ Op.e \in {"in0", "out0"}
  BY <1>1, <1>2, OpsRead DEF Fits
<1>4. /\ UNCHANGED <<setup_packet, app, host, new_devaddr, desc_request>> /\ root' = root
      /\ Then(<<>>)
  BY DEF TransferPublish, IsrAside
<1> DEFINE f == transfer_publish(ep[Op.e])
<1>5. /\ f.data_id = ep[Op.e].data_id /\ f.is_tx = ep[Op.e].is_tx /\ f.size = ep[Op.e].size
      /\ f.encoded = ep[Op.e].encoded
  BY <1>2, <1>3, PublishFields
<1>6. \A e \in {"in0", "out0"} : ep'[e] = IF e = Op.e THEN f ELSE ep[e]
  BY <1>2, <1>3 DEF TransferPublish
<1> HIDE DEF f
<1>7. Virgin =>
        /\ ep["in0"].data_id = 1 /\ "continue" \notin root.ints
        /\ ep["in0"].has_transfer \/ Op.e = "in0" => ep["in0"].encoded.pid = "DATA1"
  BY <1>1 DEF ControlInv, VirginKept, Publishing
<1>8. Elems(<<>>) = {} /\ <<>> \in Seq(Ops) /\ ListOK(<<>>)
  BY ElemsOf, ShortLists
<1>9. Virgin => ep'["in0"].data_id = 1 /\
        (ep'["in0"].has_transfer => ep'["in0"].encoded.pid = "DATA1")
  BY <1>5, <1>6, <1>7
<1>10. \A e \in {"in0", "out0"} : ep'[e].is_tx = ep[e].is_tx /\ ep'[e].size = ep[e].size
  BY <1>5, <1>6
<1> QED
  BY <1>1, <1>2, <1>3, <1>4, <1>7, <1>8, <1>9, <1>10, AccessShare

\* The load of a read-modify-write ...
LEMMA LoadCore ==
  ASSUME Typed, ~polled, ControlInv, Load
  PROVE  ControlInv'
<1>1. task.todo # <<>> /\ Op.op = "load"
  BY DEF Load, Doing, Op
<1>2. /\ Op \in Ops /\ Op \in Todo /\ Fits(Op, task.pc, task.seen)
      /\ ep \in [Eps -> Endpoints] /\ root \in Roots
      /\ task.pc \notin {"setup", "clear"} /\ "in1" \notin root.ep_continue
      /\ task \in Tasks
  BY <1>1, AccessStart
<1> DEFINE o == [op |-> "store", field |-> Op.field,
                 value |-> (root[Op.field] \ Op.del) \union Op.add]
<1>3. /\ UNCHANGED <<setup_packet, app, host, new_devaddr, desc_request>>
      /\ root' = root /\ ep' = ep /\ Then(<<o>>)
  BY DEF Load, IsrAside
<1>4. /\ o.op = "store" /\ o.field = Op.field /\ o.value = (root[Op.field] \ Op.del) \union Op.add
  OBVIOUS
<1>5. /\ Op.field = "ints" => root.ints \subseteq DeviceInts /\ Op.add \subseteq DeviceInts
      /\ Op.field = "ep_complete" => root.ep_complete \subseteq Eps /\ Op.add \subseteq Eps
      /\ Op.field = "ep_continue" =>
           root.ep_continue \subseteq {"in0", "in1"} /\ Op.add \subseteq {"in0", "in1"}
      /\ Op.field \in {"ints", "ep_complete", "ep_continue"}
  BY <1>1, <1>2, OpsRead DEF Roots
<1>6. o \in Ops
  BY <1>1, <1>2, LoadMade
<1> HIDE DEF o
<1>7. Elems(<<o>>) = {o} /\ <<o>> \in Seq(Ops) /\ ListOK(<<o>>) /\ <<o>>[1] = o /\ Len(<<o>>) = 1
  BY <1>6, ElemsOf, ShortLists
<1>8. Fits(o, task.pc, task.seen)
  <2>1. Op.field = "ep_continue" /\ Op.add = {} /\ Op.del = {"in0"} => o.value = {}
    BY <1>2, <1>4, <1>5
  <2> QED
    BY <1>1, <1>2, <1>4, <2>1 DEF Fits
<1>9. Op.field = "ints" => o.value = (root.ints \ Op.del) \union Op.add
  BY <1>4
<1>10. Op.field = "ints" =>
         \/ task.pc = "poll" /\ Op.add = {"reset"} /\ Op.del = {}
         \/ task.pc = "in1" /\ Op.add = {"complete"}
         \/ task.pc = "desc" /\ Op.add = {} /\ Op.del = task.seen
  <2>1. task.pc \in Pcs
    BY <1>2 DEF Tasks
  <2> QED
    BY <1>1, <1>2, <2>1 DEF Fits, Pcs
<1>11. StoreInts(o) =>
         /\ "setup" \in o.value => "setup" \in root.ints /\ task.pc # "desc"
         /\ task.pc = "poll" /\ "setup" \in root.ints => "setup" \in o.value
  <2>1. task.pc = "desc" /\ "setup" \in root.ints => "setup" \in task.seen
    BY <1>1 DEF ControlInv, SetupBit
  <2> QED
    BY <1>4, <1>9, <1>10, <2>1 DEF StoreInts
<1>12. Virgin =>
         /\ ep["in0"].data_id = 1 /\ "continue" \notin root.ints
         /\ ep["in0"].has_transfer => ep["in0"].encoded.pid = "DATA1"
         /\ Calm(Op)
  BY <1>2 DEF ControlInv, VirginKept
<1>13. Virgin => Calm(o)
  BY <1>1, <1>4, <1>9, <1>10, <1>12 DEF Calm, StoreInts
<1>14. \A p \in Elems(<<o>>) :
         /\ Fits(p, task.pc, task.seen)
         /\ StoreInts(p) =>
              /\ "setup" \in p.value => "setup" \in root'.ints /\ task.pc # "desc"
              /\ task.pc = "poll" /\ "setup" \in root'.ints => "setup" \in p.value
  BY <1>3, <1>7, <1>8, <1>11
<1>15. Virgin =>
         /\ ep'["in0"].data_id = 1 /\ "continue" \notin root'.ints
         /\ \A p \in Elems(<<o>>) : Calm(p)
         /\ ep'["in0"].has_transfer \/ (<<o>> # <<>> /\ <<o>>[1].op = "publish" /\ <<o>>[1].e = "in0") =>
              ep'["in0"].encoded.pid = "DATA1"
  BY <1>3, <1>4, <1>7, <1>12, <1>13
<1>16. <<o>> # <<>> /\ Len(<<o>>) <= 1
  OBVIOUS
<1> QED
  BY <1>1, <1>2, <1>3, <1>7, <1>14, <1>15, <1>16, AccessShare

\* ... and its store: what the interrupt set in between is no SETUP.
LEMMA StoreCore ==
  ASSUME Typed, ~polled, ControlInv, Store
  PROVE  ControlInv'
<1>1. task.todo # <<>> /\ Op.op = "store"
  BY DEF Store, Doing, Op
<1>2. /\ Op \in Ops /\ Op \in Todo /\ Fits(Op, task.pc, task.seen)
      /\ ep \in [Eps -> Endpoints] /\ root \in Roots
      /\ task.pc \notin {"setup", "clear"} /\ "in1" \notin root.ep_continue
      /\ task \in Tasks
  BY <1>1, AccessStart
<1>3. /\ UNCHANGED <<setup_packet, app, host, new_devaddr, desc_request>>
      /\ ep' = ep /\ Then(<<>>) /\ root' = [root EXCEPT ![Op.field] = Op.value]
  BY DEF Store, IsrAside
<1>4. Op.field \in {"ints", "ep_complete", "ep_continue"}
  BY <1>1, <1>2, OpsRead
<1>5. /\ root'.dev_addr = root.dev_addr
      /\ root'.ints = IF Op.field = "ints" THEN Op.value ELSE root.ints
      /\ root'.ep_continue = IF Op.field = "ep_continue" THEN Op.value ELSE root.ep_continue
  BY <1>2, <1>3, <1>4 DEF Roots
<1>6. Op.field = "ep_continue" => Op.value = {}
  <2>1. task.pc \in Pcs
    BY <1>2 DEF Tasks
  <2> QED
    BY <1>1, <1>2, <2>1 DEF Fits, Pcs
<1>7. task.pc \in {"poll", "desc"} => Op.field = "ints"
  BY <1>2 DEF Fits
<1>8. Op.field = "ints" =>
        /\ "setup" \in Op.value => "setup" \in root.ints /\ task.pc # "desc"
        /\ task.pc = "poll" /\ "setup" \in root.ints => "setup" \in Op.value
  BY <1>1, <1>2 DEF ControlInv, SetupBit, StoreInts
<1>9. Virgin =>
        /\ ep["in0"].data_id = 1 /\ "continue" \notin root.ints
        /\ ep["in0"].has_transfer => ep["in0"].encoded.pid = "DATA1"
        /\ Op.field = "ints" => "continue" \notin Op.value
  BY <1>1, <1>2 DEF ControlInv, VirginKept, Calm, StoreInts
<1>10. Elems(<<>>) = {} /\ <<>> \in Seq(Ops) /\ ListOK(<<>>) /\ Len(<<>>) = 0
  BY ElemsOf, ShortLists
<1>11. /\ "setup" \in root'.ints => "setup" \in root.ints
       /\ task.pc = "poll" => ("setup" \in root.ints => "setup" \in root'.ints)
       /\ task.pc = "desc" => "setup" \notin root'.ints
       /\ "in1" \notin root'.ep_continue
  BY <1>2, <1>5, <1>6, <1>7, <1>8
<1>12. Virgin =>
         /\ ep'["in0"].data_id = 1 /\ "continue" \notin root'.ints
         /\ ep'["in0"].has_transfer => ep'["in0"].encoded.pid = "DATA1"
  BY <1>3, <1>5, <1>9
<1>13. Virgin =>
         /\ ep'["in0"].data_id = 1 /\ "continue" \notin root'.ints
         /\ \A o \in Elems(<<>>) : Calm(o)
         /\ ep'["in0"].has_transfer \/ (<<>> # <<>> /\ <<>>[1].op = "publish" /\ <<>>[1].e = "in0") =>
              ep'["in0"].encoded.pid = "DATA1"
  BY <1>10, <1>12
<1>14. /\ Len(<<>>) <= 1
       /\ \A o \in Elems(<<>>) :
            /\ Fits(o, task.pc, task.seen)
            /\ StoreInts(o) =>
                 /\ "setup" \in o.value => "setup" \in root'.ints /\ task.pc # "desc"
                 /\ task.pc = "poll" /\ "setup" \in root'.ints => "setup" \in o.value
  BY <1>10
<1> QED
  BY <1>1, <1>3, <1>5, <1>10, <1>11, <1>13, <1>14, AccessShare

\* TransferContinue, EncodeEnd and TransferDone: none before the first packet.
LEMMA ContinueCore ==
  ASSUME Typed, ~polled, ControlInv, TransferContinue \/ EncodeEnd \/ TransferDone
  PROVE  ControlInv'
<1>1. task.todo # <<>> /\ Op.op \in {"continue", "encode", "done"}
  BY DEF TransferContinue, EncodeEnd, TransferDone, Doing, Op
<1>2. /\ Op \in Ops /\ Op \in Todo /\ Fits(Op, task.pc, task.seen)
      /\ (\A e \in {"in0", "out0"} : ep[e] \in Endpoints /\ e \in Eps)
      /\ ep \in [Eps -> Endpoints] /\ root \in Roots
      /\ task.pc \notin {"setup", "clear"} /\ "in1" \notin root.ep_continue
      /\ task \in Tasks
  BY <1>1, AccessStart
<1>3. task.pc = "in1" /\ Op.e = "in0"
  <2>1. task.pc \in Pcs
    BY <1>2 DEF Tasks
  <2> QED
    BY <1>1, <1>2, <2>1 DEF Fits, Pcs
<1>4. /\ UNCHANGED <<setup_packet, app, host, new_devaddr, desc_request>> /\ root' = root
  BY DEF TransferContinue, EncodeEnd, TransferDone, IsrAside
<1>5. ~Virgin
  BY <1>1, <1>2 DEF ControlInv, VirginKept, Calm
<1>6. Elems(<<>>) = {} /\ <<>> \in Seq(Ops) /\ ListOK(<<>>)
  BY ElemsOf, ShortLists
<1>7. ASSUME NEW f, ep' = [ep EXCEPT !["in0"] = f], f.is_tx = ep["in0"].is_tx, f.size = ep["in0"].size
      PROVE  \A e \in {"in0", "out0"} : ep'[e].is_tx = ep[e].is_tx /\ ep'[e].size = ep[e].size
  BY <1>2, <1>7
<1>8. CASE TransferContinue
  <2> DEFINE n == transaction_len(ep["in0"])
             f == transfer_progress(ep["in0"], n)
             a == Rmw("ints", {"complete"}, {})
             b == Rmw("ep_complete", {"in0"}, {})
             c == [op |-> "done", e |-> "in0"]
             d == [op |-> "encode", e |-> "in0"]
  <2>1. n \in Nat /\ f.is_tx = ep["in0"].is_tx /\ f.size = ep["in0"].size
    <3>1. n \in Nat
      BY <1>2, LenType
    <3> HIDE DEF n
    <3> QED
      BY <1>2, <3>1, ProgressFields
  <2>2. ep' = [ep EXCEPT !["in0"] = f]
    BY <1>3, <1>8 DEF TransferContinue
  <2>3. Then(<<a, b, c>>) \/ Then(<<d>>)
    BY <1>3, <1>8 DEF TransferContinue
  <2>4. /\ a.op = "load" /\ a.field = "ints" /\ a.add = {"complete"}
        /\ b.op = "load" /\ b.field = "ep_complete" /\ c.op = "done" /\ c.e = "in0"
        /\ d.op = "encode" /\ d.e = "in0"
    BY DEF Rmw
  <2>5. a \in Ops /\ b \in Ops /\ c \in Ops /\ d \in Ops
    <3>1. {"complete"} \in SUBSET DeviceInts /\ {} \in SUBSET DeviceInts
          /\ {"in0"} \in SUBSET Eps /\ {} \in SUBSET Eps
      BY DEF DeviceInts, Eps
    <3> QED
      BY <3>1, OpsMade
  <2> HIDE DEF a, b, c, d, f
  <2>6. \A o \in {a, b, c, d} : Fits(o, task.pc, task.seen) /\ ~StoreInts(o)
    BY <1>3, <2>4 DEF Fits, StoreInts
  <2>7. \A e \in {"in0", "out0"} : ep'[e].is_tx = ep[e].is_tx /\ ep'[e].size = ep[e].size
    BY <1>7, <2>1, <2>2
  <2>8. NoHead(b) /\ NoHead(c)
    BY <2>4 DEF NoHead
  <2>9. /\ Elems(<<a, b, c>>) = {a, b, c} /\ <<a, b, c>> \in Seq(Ops) /\ ListOK(<<a, b, c>>)
        /\ <<a, b, c>> # <<>>
        /\ Elems(<<d>>) = {d} /\ <<d>> \in Seq(Ops) /\ ListOK(<<d>>) /\ <<d>> # <<>>
    BY <2>5, <2>8, ElemsOf, ShortLists
  <2>10. CASE Then(<<a, b, c>>)
    BY <1>1, <1>2, <1>3, <1>4, <1>5, <2>6, <2>7, <2>9, <2>10, AccessShare
  <2>11. CASE Then(<<d>>)
    BY <1>1, <1>2, <1>3, <1>4, <1>5, <2>6, <2>7, <2>9, <2>11, AccessShare
  <2> QED
    BY <2>3, <2>10, <2>11
<1>9. CASE EncodeEnd
  <2> DEFINE f == prepare_tx_data(ep["in0"])
  <2>1. f.is_tx = ep["in0"].is_tx /\ f.size = ep["in0"].size
    BY <1>2, PrepareFields
  <2>2. ep' = [ep EXCEPT !["in0"] = f] /\ Then(<<>>)
    BY <1>3, <1>9 DEF EncodeEnd
  <2> HIDE DEF f
  <2>3. \A e \in {"in0", "out0"} : ep'[e].is_tx = ep[e].is_tx /\ ep'[e].size = ep[e].size
    BY <1>7, <2>1, <2>2
  <2> QED
    BY <1>1, <1>2, <1>3, <1>4, <1>5, <1>6, <2>2, <2>3, AccessShare
<1>10. CASE TransferDone
  <2> DEFINE f == [ep["in0"] EXCEPT !.has_transfer = FALSE]
  <2>1. f.is_tx = ep["in0"].is_tx /\ f.size = ep["in0"].size
    BY <1>2 DEF Endpoints
  <2>2. ep' = [ep EXCEPT !["in0"] = f] /\ Then(<<>>)
    BY <1>3, <1>10 DEF TransferDone
  <2> HIDE DEF f
  <2>3. \A e \in {"in0", "out0"} : ep'[e].is_tx = ep[e].is_tx /\ ep'[e].size = ep[e].size
    BY <1>7, <2>1, <2>2
  <2> QED
    BY <1>1, <1>2, <1>3, <1>4, <1>5, <1>6, <2>2, <2>3, AccessShare
<1> QED
  BY <1>8, <1>9, <1>10

\* What a new list has to be made of for the task to go on.
LEMMA GoOnList ==
  ASSUME Typed, ControlInv, task.todo = <<>>, NEW pc \in Pcs, NEW ops \in Seq(Ops), ListOK(ops),
         GoOn(pc, ops), app' = app, root'.ints = root.ints, root'.ep_continue = root.ep_continue,
         pc \in {"poll", "desc"} => Len(ops) <= 1,
         pc # "setup",
         pc \in {"complete", "in0", "in1", "clear"} \/ (pc = "desc" /\ ops # <<>>) => InHandler,
         \A o \in Elems(ops) : Fits(o, pc, task.seen) /\ o.op \notin {"store", "publish"}
  PROVE  /\ Plan' /\ SetupBit'
         /\ ~Publishing("in0")' /\ ~Publishing("out0")' /\ Todo' = Elems(ops)
         /\ task'.pc = pc /\ task'.seen = task.seen /\ task'.todo = ops
<1>1. task \in Tasks
  BY DEF Typed
<1>2. task'.pc = pc /\ task'.seen = task.seen /\ task'.todo = ops /\ Todo' = Elems(ops)
  BY <1>1, GoOnTyped
<1>3. Plan'
  BY <1>2 DEF ControlInv, Plan
<1>4. InHandler' => pc \in {"complete", "in0", "in1", "clear"}
  BY <1>2 DEF InHandler
<1>5. \A o \in Elems(ops) : ~StoreInts(o)
  BY DEF StoreInts
<1>6. SetupBit'
  BY <1>2, <1>4, <1>5 DEF ControlInv, SetupBit
<1>7. ~Publishing("in0")' /\ ~Publishing("out0")'
  <2>1. ops # <<>> => Head(ops) \in Elems(ops)
    BY ElemsParts
  <2> QED
    BY <1>2, <2>1 DEF Publishing, Doing, Op
<1> QED
  BY <1>2, <1>3, <1>6, <1>7

\* What has to stay when it goes on.
LEMMA GoOnShare ==
  ASSUME Typed, ~polled, ControlInv, task.todo = <<>>, NEW pc \in Pcs, NEW ops \in Seq(Ops), ListOK(ops),
         GoOn(pc, ops), UNCHANGED <<ep, root, host, app, setup_packet, new_devaddr>>,
         desc_request' \in {desc_request, None},
         pc \in {"poll", "desc"} => Len(ops) <= 1,
         pc # "setup",
         pc \in {"complete", "in0", "in1", "clear"} \/ (pc = "desc" /\ ops # <<>>) => InHandler,
         pc = "desc" => ops # <<>>,
         pc \in {"poll", "line"} => task.pc \in {"desc", "line"},
         Unhandled => pc \in {"poll", "line"} /\ (desc_request = None => ops = <<>>),
         \A o \in Elems(ops) :
           Fits(o, pc, task.seen) /\ o.op \notin {"store", "publish"} /\ (Virgin => Calm(o))
  PROVE  ControlInv'
<1>1. /\ Plan' /\ SetupBit'
      /\ ~Publishing("in0")' /\ Todo' = Elems(ops)
      /\ task'.pc = pc /\ task'.seen = task.seen /\ task'.todo = ops
  BY GoOnList
<1>2. Unhandled' => Unhandled
  BY <1>1 DEF Unhandled, At
<1>3. Unhandled => Unhandled'
  BY <1>1 DEF Unhandled
<1>4. SetupKept'
  <2>1. Unhandled => desc_request = None
    BY DEF ControlInv, SetupKept
  <2>2. Unhandled => desc_request' = None /\ ops = <<>>
    BY <2>1
  <2> QED
    BY <1>1, <1>2, <2>2 DEF ControlInv, SetupKept, Away
<1>5. StageKept'
  BY DEF ControlInv, StageKept, Away
<1>6. AddressKept'
  BY <1>3 DEF ControlInv, AddressKept
<1>7. VirginKept'
  <2>1. InHandler' => InHandler
    BY <1>1 DEF InHandler
  <2>2. Virgin' <=> Virgin
    BY DEF Virgin
  <2> QED
    BY <1>1, <2>1, <2>2 DEF ControlInv, VirginKept
<1> QED
  BY <1>1, <1>4, <1>5, <1>6, <1>7 DEF ControlInv

\* The task looks at the interrupt bits.
LEMMA PollCore ==
  ASSUME Typed, ~polled, ControlInv, TaskPoll
  PROVE  ControlInv'
<1>1. /\ task.pc = "poll" /\ task.todo = <<>>
      /\ task' = [task EXCEPT !.pc = IF root.ints = {} THEN "desc" ELSE "setup", !.seen = root.ints]
      /\ UNCHANGED <<ep, root, host, app, setup_packet, new_devaddr, desc_request>>
  BY DEF TaskPoll, At, IsrAside
<1>2. /\ task'.pc = (IF root.ints = {} THEN "desc" ELSE "setup") /\ task'.seen = root.ints
      /\ task'.todo = <<>>
  BY <1>1 DEF Typed, Tasks
<1>3. Todo' = {} /\ ~Publishing("in0")'
  BY <1>2, ElemsOf DEF Todo, Publishing, Doing
<1>4. Unhandled' <=> Unhandled
  BY <1>1, <1>2 DEF Unhandled, At
<1>5. Plan'
  <2>1. Len(<<>>) <= 1
    OBVIOUS
  <2> QED
    BY <1>1, <1>2, <1>3, <2>1 DEF ControlInv, Plan
<1>6. SetupBit'
  BY <1>1, <1>2, <1>3 DEF SetupBit
<1>7. SetupKept' /\ StageKept' /\ AddressKept'
  BY <1>1, <1>2, <1>4 DEF ControlInv, SetupKept, StageKept, AddressKept, Away
<1>8. VirginKept'
  BY <1>1, <1>2, <1>3 DEF ControlInv, VirginKept, Virgin
<1> QED
  BY <1>5, <1>6, <1>7, <1>8 DEF ControlInv

\* Handling SETUP.  A packet the handler has seen is the host's last.
LEMMA HandleSetupSeen ==
  ASSUME ControlInv, At("setup")
  PROVE  /\ "setup" \in task.seen => Unhandled
         /\ "setup" \in task.seen /\ ~Away =>
              setup_packet = host.request /\ host.stage = FirstStage(host.request) /\ host.got = <<>>
         /\ "setup" \in task.seen /\ Away => setup_packet.kind # "address"
         /\ "setup" \notin task.seen => ~Unhandled
BY DEF ControlInv, SetupBit, SetupKept, Unhandled, At, InHandler

\* Handling SETUP keeps it.
LEMMA HandleSetupCore ==
  ASSUME Typed, ~polled, ControlInv, HandleSetup
  PROVE  ControlInv'
<1> DEFINE r == IF "setup" \in task.seen THEN setup_packet ELSE None
<1>1. /\ At("setup") /\ task.pc = "setup" /\ task.todo = <<>>
      /\ GoOn("complete", SetupTransfers(r))
      /\ UNCHANGED <<root, host, app, setup_packet>>
      /\ ep'["in0"] = ep["in0"] /\ ep'["out0"] = ep["out0"]
      /\ new_devaddr' = (IF r.kind = "address" THEN Address ELSE new_devaddr)
      /\ desc_request' = (IF r.kind = "config" THEN r ELSE desc_request)
  BY DEF HandleSetup, At, IsrAside, Typed, TypeOK, Eps
<1>2. /\ "setup" \in task.seen => Unhandled
      /\ "setup" \in task.seen /\ ~Away =>
           setup_packet = host.request /\ host.stage = FirstStage(host.request) /\ host.got = <<>>
      /\ "setup" \in task.seen /\ Away => setup_packet.kind # "address"
      /\ "setup" \notin task.seen => ~Unhandled
  BY <1>1, HandleSetupSeen
<1>3. /\ SetupTransfers(r) \in Seq(Ops) /\ ListOK(SetupTransfers(r))
      /\ \A o \in Elems(SetupTransfers(r)) : o.op = "start"
  <2>1. r \in Packets
    <3>1. None \in Packets
      BY DEF None, Packets, U16
    <3> QED
      BY <3>1 DEF Typed
  <2> QED
    BY <2>1, CallsTyped
<1>4. r.kind = "address" \/ r.kind = "config" => "setup" \in task.seen /\ r = setup_packet
  BY DEF None
<1>5. "complete" \in Pcs /\ InHandler
  BY <1>1 DEF Pcs, InHandler
<1> HIDE DEF r
<1>6. \A o \in Elems(SetupTransfers(r)) :
        Fits(o, "complete", task.seen) /\ o.op \notin {"store", "publish"} /\ Calm(o)
  BY <1>3 DEF Fits, Calm, StoreInts
<1>7. /\ Plan' /\ SetupBit'
      /\ ~Publishing("in0")' /\ Todo' = Elems(SetupTransfers(r))
      /\ task'.pc = "complete" /\ task'.seen = task.seen
  BY <1>1, <1>3, <1>5, <1>6, GoOnList
<1>8. ~Unhandled'
  BY <1>7 DEF Unhandled, At
<1>9. StageKept'
  BY <1>1, <1>2, <1>4 DEF ControlInv, StageKept, Away
<1>10. AddressKept'
  <2>1. new_devaddr' # 0 => host.stage = "status_in" /\ host.request.kind = "address"
    <3>1. CASE r.kind = "address"
      <4>1. ~Away /\ host.request.kind = "address" /\ host.stage = FirstStage(host.request)
        BY <1>2, <1>4, <3>1
      <4> QED
        BY <4>1 DEF FirstStage, InKinds
    <3>2. CASE r.kind # "address"
      BY <1>1, <3>2 DEF ControlInv, AddressKept
    <3> QED
      BY <3>1, <3>2
  <2>2. host.stage = "status_in" /\ host.request.kind = "address" => new_devaddr' = Address
    <3> SUFFICES ASSUME host.stage = "status_in", host.request.kind = "address"
                 PROVE  new_devaddr' = Address
      OBVIOUS
    <3>1. CASE "setup" \in task.seen
      <4>1. r = host.request
        BY <1>2, <3>1 DEF Away, r
      <4> QED
        BY <1>1, <4>1
    <3>2. CASE "setup" \notin task.seen
      <4>1. new_devaddr = Address /\ r.kind # "address"
        BY <1>2, <3>2 DEF ControlInv, AddressKept, r, None
      <4> QED
        BY <1>1, <4>1
    <3> QED
      BY <3>1, <3>2
  <2> QED
    BY <1>1, <2>1, <2>2 DEF ControlInv, AddressKept
<1>11. SetupKept'
  BY <1>8 DEF SetupKept
<1>12. VirginKept'
  <2>1. InHandler' => InHandler
    BY <1>5
  <2> QED
    BY <1>1, <1>6, <1>7, <2>1 DEF ControlInv, VirginKept, Virgin
<1> QED
  BY <1>7, <1>9, <1>10, <1>11, <1>12 DEF ControlInv

\* Handling completions: an answer on endpoint 0 IN, and a clearing of the bits.
LEMMA CompleteList ==
  ASSUME Typed, HandleComplete
  PROVE  \E ops \in Seq(Ops) :
           /\ ListOK(ops) /\ GoOn("in0", ops)
           /\ \A o \in Elems(ops) :
                \/ o.op = "start" /\ o.e = "in0"
                \/ o.op = "load" /\ o.field = "ep_complete"
           /\ "complete" \notin task.seen => ops = <<>>
<1> DEFINE all == IF "complete" \in task.seen THEN root.ep_complete ELSE {}
           answer == IF "out0" \in all /\ stage = "data" THEN PrepareData("none", 0) ELSE <<>>
           clear == IF "complete" \in task.seen THEN <<Rmw("ep_complete", {}, all)>> ELSE <<>>
           a == Start("in0", "none", 0)
           b == Rmw("ep_complete", {}, all)
<1>1. GoOn("in0", answer \o clear)
  BY DEF HandleComplete
<1>2. all \subseteq Eps
  BY DEF Typed, Roots
<1>3. PrepareData("none", 0) = <<a>>
  BY DEF PrepareData, U8
<1>4. a \in Ops /\ b \in Ops
  BY <1>2, OpsMade DEF Sources
<1>5. a.op = "start" /\ a.e = "in0" /\ b.op = "load" /\ b.field = "ep_complete" /\ NoHead(b)
  BY DEF Start, Rmw, NoHead
<1>6. /\ answer = <<>> \/ answer = <<a>>
      /\ clear = <<>> \/ clear = <<b>>
      /\ "complete" \notin task.seen => answer = <<>> /\ clear = <<>>
  BY <1>3
<1> HIDE DEF a, b, answer, clear
<1>7. /\ <<>> \o <<>> = <<>> /\ <<>> \o <<b>> = <<b>> /\ <<a>> \o <<>> = <<a>> /\ <<a>> \o <<b>> = <<a, b>>
  <2>1. <<>> \o <<>> = <<>> /\ <<>> \o <<b>> = <<b>> /\ <<a>> \o <<>> = <<a>>
    BY <1>4, ConcatEmptySeq, ShortLists
  <2>2. <<a>> \o <<b>> = <<a, b>>
    <3>1. <<a>> \in Seq(Ops) /\ Append(<<a>>, b) = <<a>> \o <<b>>
      BY <1>4, ShortLists, AppendIsConcat
    <3>2. <<a, b>> \in Seq(Ops) /\ Len(<<a, b>>) = 2 /\ <<a, b>>[1] = a /\ <<a, b>>[2] = b
      BY <1>4
    <3>3. /\ Append(<<a>>, b) \in Seq(Ops) /\ Len(Append(<<a>>, b)) = 2
          /\ Append(<<a>>, b)[1] = a /\ Append(<<a>>, b)[2] = b
      <4>1. Len(<<a>>) = 1 /\ <<a>>[1] = a /\ 1 \in 1 .. 1
        OBVIOUS
      <4> QED
        BY <1>4, <3>1, <4>1, AppendProperties
    <3>4. \A i \in 1 .. 2 : i = 1 \/ i = 2
      OBVIOUS
    <3>5. Append(<<a>>, b) = <<a, b>>
      BY <3>2, <3>3, <3>4, SeqEqual
    <3> QED
      BY <3>1, <3>5
  <2> QED
    BY <2>1, <2>2
<1>8. answer \o clear \in {<<>>, <<b>>, <<a>>, <<a, b>>}
  BY <1>6, <1>7
<1>9. \A ops \in {<<>>, <<b>>, <<a>>, <<a, b>>} :
        ops \in Seq(Ops) /\ ListOK(ops) /\ \A o \in Elems(ops) : o = a \/ o = b
  <2>1. /\ <<>> \in Seq(Ops) /\ ListOK(<<>>) /\ Elems(<<>>) = {}
        /\ <<a>> \in Seq(Ops) /\ ListOK(<<a>>) /\ Elems(<<a>>) = {a}
        /\ <<b>> \in Seq(Ops) /\ ListOK(<<b>>) /\ Elems(<<b>>) = {b}
    BY <1>4, ShortLists, ElemsOf
  <2>2. <<a, b>> \in Seq(Ops) /\ ListOK(<<a, b>>) /\ Elems(<<a, b>>) = {a, b}
    BY <1>4, <1>5, ShortLists, ElemsOf
  <2> QED
    BY <2>1, <2>2
<1>10. "complete" \notin task.seen => answer \o clear = <<>>
  BY <1>6, <1>7
<1>11. \A o \in Elems(answer \o clear) :
         \/ o.op = "start" /\ o.e = "in0"
         \/ o.op = "load" /\ o.field = "ep_complete"
  BY <1>5, <1>8, <1>9
<1> QED
  BY <1>1, <1>8, <1>9, <1>10, <1>11

\* Handling completions keeps it.
LEMMA HandleCompleteCore ==
  ASSUME Typed, ~polled, ControlInv, HandleComplete
  PROVE  ControlInv'
<1>1. PICK ops \in Seq(Ops) :
        /\ ListOK(ops) /\ GoOn("in0", ops)
        /\ \A o \in Elems(ops) :
             \/ o.op = "start" /\ o.e = "in0"
             \/ o.op = "load" /\ o.field = "ep_complete"
  BY CompleteList
<1>2. /\ task.pc = "complete" /\ task.todo = <<>>
      /\ UNCHANGED <<ep, root, host, app, setup_packet, new_devaddr, desc_request>>
  BY DEF HandleComplete, At, IsrAside
<1>3. "in0" \in Pcs /\ InHandler /\ ~Unhandled
  BY <1>2 DEF Pcs, InHandler, Unhandled, At
<1>4. \A o \in Elems(ops) :
        Fits(o, "in0", task.seen) /\ o.op \notin {"store", "publish"} /\ (Virgin => Calm(o))
  BY <1>1 DEF Fits, Calm, StoreInts
<1> QED
  BY <1>1, <1>2, <1>3, <1>4, GoOnShare

\* Continuing: endpoint 0's transfer, and then none.
LEMMA ContinueList ==
  ASSUME Typed, ControlInv, HandleContinue
  PROVE  \/ GoOn("in1", <<>>) /\ task.pc = "in0"
         \/ GoOn("clear", <<>>) /\ task.pc = "in1"
         \/ /\ GoOn("in1", <<[op |-> "continue", e |-> "in0"], Rmw("ep_continue", {}, {"in0"})>>)
            /\ task.pc = "in0" /\ "continue" \in task.seen /\ "in0" \in root.ep_continue
<1>1. "in1" \notin root.ep_continue
  BY DEF ControlInv, Plan
<1>2. CASE task.pc = "in0"
  BY <1>2 DEF HandleContinue
<1>3. CASE task.pc = "in1"
  BY <1>1, <1>3 DEF HandleContinue
<1> QED
  BY <1>2, <1>3 DEF HandleContinue, At

\* Handling a CONTINUE keeps it.
LEMMA HandleContinueCore ==
  ASSUME Typed, ~polled, ControlInv, HandleContinue
  PROVE  ControlInv'
<1>1. /\ task.pc \in {"in0", "in1"} /\ task.todo = <<>>
      /\ UNCHANGED <<ep, root, host, app, setup_packet, new_devaddr, desc_request>>
  BY DEF HandleContinue, At, IsrAside
<1>2. "in1" \in Pcs /\ "clear" \in Pcs /\ InHandler /\ ~Unhandled
  BY <1>1 DEF Pcs, InHandler, Unhandled, At
<1>3. Elems(<<>>) = {} /\ <<>> \in Seq(Ops) /\ ListOK(<<>>)
  BY ElemsOf, ShortLists
<1>4. CASE GoOn("in1", <<>>) \/ GoOn("clear", <<>>)
  BY <1>1, <1>2, <1>3, <1>4, GoOnShare
<1> DEFINE a == [op |-> "continue", e |-> "in0"]
           b == Rmw("ep_continue", {}, {"in0"})
<1>5. CASE GoOn("in1", <<a, b>>) /\ "continue" \in task.seen
  <2>1. a.op = "continue" /\ a.e = "in0"
    OBVIOUS
  <2>2. b.op = "load" /\ b.field = "ep_continue" /\ b.add = {} /\ b.del = {"in0"} /\ NoHead(b)
    BY DEF Rmw, NoHead
  <2>3. a \in Ops /\ b \in Ops
    <3>1. {} \in SUBSET {"in0", "in1"} /\ {"in0"} \in SUBSET {"in0", "in1"}
      OBVIOUS
    <3> QED
      BY <3>1, OpsMade
  <2> HIDE DEF a, b
  <2>4. ~Virgin
    BY <1>2, <1>5 DEF ControlInv, VirginKept
  <2>5. Elems(<<a, b>>) = {a, b} /\ <<a, b>> \in Seq(Ops) /\ ListOK(<<a, b>>)
    BY <2>2, <2>3, ElemsOf, ShortLists
  <2>6. \A o \in Elems(<<a, b>>) : Fits(o, "in1", task.seen) /\ o.op \notin {"store", "publish"}
    BY <2>1, <2>2, <2>5 DEF Fits
  <2> QED
    BY <1>1, <1>2, <1>5, <2>4, <2>5, <2>6, GoOnShare
<1> QED
  BY <1>4, <1>5, ContinueList

\* The end of the handler keeps it.
LEMMA HandlerEndCore ==
  ASSUME Typed, ~polled, ControlInv, HandlerEnd
  PROVE  ControlInv'
<1> DEFINE a == Rmw("ints", {}, task.seen)
<1>1. /\ task.pc = "clear" /\ task.todo = <<>> /\ GoOn("desc", <<a>>)
      /\ UNCHANGED <<ep, root, host, app, setup_packet, new_devaddr, desc_request>>
  BY DEF HandlerEnd, At, IsrAside
<1>2. "desc" \in Pcs /\ InHandler /\ ~Unhandled
  BY <1>1 DEF Pcs, InHandler, Unhandled, At
<1>3. a.op = "load" /\ a.field = "ints" /\ a.add = {} /\ a.del = task.seen
  BY DEF Rmw
<1>4. a \in Ops
  <2>1. task.seen \in SUBSET DeviceInts /\ {} \in SUBSET DeviceInts
    BY DEF Typed, Tasks
  <2> QED
    BY <2>1, OpsMade
<1> HIDE DEF a
<1>5. /\ Elems(<<a>>) = {a} /\ <<a>> \in Seq(Ops) /\ ListOK(<<a>>) /\ <<a>> # <<>> /\ Len(<<a>>) = 1
  BY <1>4, ElemsOf, ShortLists
<1>6. \A o \in Elems(<<a>>) :
        Fits(o, "desc", task.seen) /\ o.op \notin {"store", "publish"} /\ (Virgin => Calm(o))
  BY <1>3, <1>5 DEF Fits, Calm, StoreInts
<1>7. desc_request' \in {desc_request, None} /\ Len(<<a>>) <= 1
  BY <1>1, <1>5
<1> QED
  BY <1>1, <1>2, <1>5, <1>6, <1>7, GoOnShare

\* The descriptor's length is cut to the one asked for.
LEMMA DescList ==
  ASSUME Typed, TaskDesc
  PROVE  LET len == DescLen["config"]
             n == IF desc_request.len > len THEN len ELSE desc_request.len
             ops == IF desc_request = None THEN <<>> ELSE PrepareData("config", n)
         IN  /\ n \in Nat /\ ops \in Seq(Ops) /\ ListOK(ops) /\ GoOn("line", ops)
             /\ \A o \in Elems(ops) : o.op = "start"
<1> DEFINE len == DescLen["config"]
           n == IF desc_request.len > len THEN len ELSE desc_request.len
           ops == IF desc_request = None THEN <<>> ELSE PrepareData("config", n)
<1>1. len \in Nat
  BY DeviceAssumption DEF InKinds
<1>2. desc_request.len \in Nat
  <2>1. desc_request.len \in 0 .. U16 - 1
    BY DEF Typed, Packets
  <2>2. U16 - 1 \in Int
    BY DEF U16
  <2> QED
    BY <2>1, <2>2
<1>3. n \in Nat /\ "config" \in Sources
  BY <1>1, <1>2 DEF Sources
<1>4. GoOn("line", ops)
  BY DEF TaskDesc
<1> HIDE DEF n
<1>5. ops \in Seq(Ops) /\ ListOK(ops) /\ \A o \in Elems(ops) : o.op = "start"
  BY <1>3, CallsTyped, ShortLists, ElemsOf
<1> QED
  BY <1>3, <1>4, <1>5 DEF n

\* Preparing a descriptor keeps it.
LEMMA TaskDescCore ==
  ASSUME Typed, ~polled, ControlInv, TaskDesc
  PROVE  ControlInv'
<1> DEFINE len == DescLen["config"]
           n == IF desc_request.len > len THEN len ELSE desc_request.len
           ops == IF desc_request = None THEN <<>> ELSE PrepareData("config", n)
<1>1. /\ task.pc = "desc" /\ task.todo = <<>> /\ desc_request' = None
      /\ UNCHANGED <<ep, root, host, app, setup_packet, new_devaddr>>
  BY DEF TaskDesc, At, IsrAside
<1>2. ops \in Seq(Ops) /\ ListOK(ops) /\ GoOn("line", ops) /\ \A o \in Elems(ops) : o.op = "start"
  BY DescList
<1>3. desc_request = None => ops = <<>>
  OBVIOUS
<1> HIDE DEF ops
<1>4. "line" \in Pcs
  BY DEF Pcs
<1>5. \A o \in Elems(ops) :
        Fits(o, "line", task.seen) /\ o.op \notin {"store", "publish"} /\ (Virgin => Calm(o))
  BY <1>2 DEF Fits, Calm, StoreInts
<1> QED
  BY <1>1, <1>2, <1>3, <1>4, <1>5, GoOnShare

\* A bus that is not reset keeps it.
LEMMA LineIdleCore ==
  ASSUME Typed, ~polled, ControlInv, LineIdle
  PROVE  ControlInv'
<1>1. /\ task.pc = "line" /\ task.todo = <<>> /\ GoOn("poll", <<>>)
      /\ UNCHANGED <<ep, root, host, app, setup_packet, new_devaddr, desc_request>>
  BY DEF LineIdle, At, IsrAside
<1>2. "poll" \in Pcs
  BY DEF Pcs
<1>3. Elems(<<>>) = {} /\ <<>> \in Seq(Ops) /\ ListOK(<<>>) /\ Len(<<>>) <= 1
  BY ElemsOf, ShortLists
<1> QED
  BY <1>1, <1>2, <1>3, GoOnShare

\* The device sees the bus reset.
LEMMA BusResetCore ==
  ASSUME Typed, ~polled, ControlInv, BusReset
  PROVE  ControlInv'
<1> DEFINE a == Rmw("ints", {"reset"}, {})
<1>1. /\ task.pc = "line" /\ task.todo = <<>> /\ GoOn("poll", <<a>>) /\ host.stage = "reset"
      /\ ep' = [out0 |-> Ep0(FALSE), in0 |-> Ep0(TRUE), in1 |-> UnusedEndpoint]
      /\ app' = app /\ setup_packet' = setup_packet /\ new_devaddr' = new_devaddr
      /\ desc_request' = desc_request
  BY DEF BusReset, At
<1>2. /\ root'.ints = root.ints /\ root'.ep_continue = root.ep_continue /\ root'.dev_addr = 0
      /\ host'.stage = "idle" /\ host'.request = host.request /\ host'.addr = host.addr
  BY DEF BusReset, Typed, Roots, Hosts
<1>3. a.op = "load" /\ a.field = "ints" /\ a.add = {"reset"} /\ a.del = {}
  BY DEF Rmw
<1>4. a \in Ops
  <2>1. {"reset"} \in SUBSET DeviceInts /\ {} \in SUBSET DeviceInts
    BY DEF DeviceInts
  <2> QED
    BY <2>1, OpsMade
<1> HIDE DEF a
<1>5. /\ Elems(<<a>>) = {a} /\ <<a>> \in Seq(Ops) /\ ListOK(<<a>>) /\ Len(<<a>>) = 1
  BY <1>4, ElemsOf, ShortLists
<1>6. \A o \in Elems(<<a>>) : Fits(o, "poll", task.seen) /\ o.op \notin {"store", "publish"}
  BY <1>3, <1>5 DEF Fits
<1>7. Plan' /\ SetupBit' /\ task'.pc = "poll"
  <2>1. "poll" \in Pcs /\ Len(<<a>>) <= 1
    BY <1>5 DEF Pcs
  <2> QED
    BY <1>1, <1>2, <1>5, <1>6, <2>1, GoOnList
<1>8. /\ ~ep'["in0"].has_transfer /\ ~ep'["out0"].has_transfer
      /\ ep'["in0"].is_tx /\ ~ep'["out0"].is_tx
      /\ ep'["in0"].size = EpSize /\ ep'["out0"].size = EpSize
  BY <1>1 DEF Ep0, UnusedEndpoint
<1>9. Unhandled' => Unhandled
  BY <1>1, <1>2, <1>7 DEF Unhandled, At
<1>10. SetupKept'
  BY <1>1, <1>2, <1>7, <1>8, <1>9 DEF ControlInv, SetupKept, Away
<1>11. StageKept' /\ VirginKept'
  BY <1>1, <1>2 DEF ControlInv, StageKept, VirginKept, Virgin, Away
<1>12. AddressKept'
  BY <1>1, <1>2, <1>8 DEF ControlInv, AddressKept
<1> QED
  BY <1>7, <1>10, <1>11, <1>12 DEF ControlInv

\* A step that changes nothing keeps it.
LEMMA CoreStutter ==
  ASSUME ControlInv, UNCHANGED vars
  PROVE  ControlInv'
<1>1. /\ task' = task /\ UNCHANGED <<ep, root, host, app, setup_packet, new_devaddr, desc_request>>
  BY DEF vars
<1>2. /\ Todo' = Todo /\ (InHandler' <=> InHandler) /\ (Unhandled' <=> Unhandled)
      /\ (Publishing("in0")' <=> Publishing("in0"))
  BY <1>1, AsideFrame DEF Unhandled
<1>3. Plan' /\ SetupBit' /\ SetupKept'
  BY <1>1, <1>2 DEF ControlInv, Plan, SetupBit, SetupKept, Away
<1>4. StageKept' /\ AddressKept'
  BY <1>1, <1>2 DEF ControlInv, StageKept, AddressKept, Away
<1>5. VirginKept'
  BY <1>1, <1>2 DEF ControlInv, VirginKept, Virgin
<1> QED
  BY <1>3, <1>4, <1>5 DEF ControlInv

\* Every step keeps it.
LEMMA CoreStep ==
  ASSUME Patient, Typed, PatientInv, [Next]_vars
  PROVE  PatientInv'
<1>1. polled' = polled
  BY DEF Next, Isr, IsrIn0, IsrIn1, IsrOut0, HostReset, IsrSetup, TaskAside, TaskStep, TransferFill,
         TransferPublish, Load, Store, TransferContinue, EncodeEnd, TransferDone, TaskPoll,
         HandleSetup, HandleComplete, HandleContinue, HandlerEnd, TaskDesc, BusReset, LineIdle,
         IsrAside, SetOutData, SetOutPublish, vars
<1> SUFFICES ASSUME ~polled PROVE ControlInv'
  BY <1>1 DEF PatientInv
<1>2. ControlInv
  BY DEF PatientInv
<1>3. ASSUME Isr PROVE ControlInv'
  <2>1. ~IsrIn1
    BY DEF IsrIn1
  <2>2. ASSUME NEW r \in Requests[polled], IsrSetup(r) PROVE ControlInv'
    <3>1. polled = FALSE
      BY DEF Typed
    <3> QED
      BY <1>2, <2>2, <3>1, SetupCore
  <2> QED
    BY <1>2, <1>3, <2>1, <2>2, In0Core, Out0Core, ResetCore DEF Isr
<1>4. ASSUME TaskStep PROVE ControlInv'
  BY <1>2, <1>4, FillCore, PublishCore, LoadCore, StoreCore, ContinueCore, PollCore, HandleSetupCore,
     HandleCompleteCore, HandleContinueCore, HandlerEndCore, TaskDescCore, LineIdleCore,
     BusResetCore DEF TaskStep
<1>5. ~SetOutData /\ ~SetOutPublish
  BY <1>2 DEF SetOutData, SetOutPublish, ControlInv, Plan
<1> QED
  BY <1>2, <1>3, <1>4, <1>5, CoreStutter DEF Next

\* The initial state has it.
LEMMA CoreInit == Init => PatientInv
<1> SUFFICES ASSUME Init PROVE ControlInv
  BY DEF PatientInv
<1>1. /\ task.todo = <<>> /\ task.pc = "poll" /\ app = "idle" /\ root.ints = {}
      /\ root.ep_continue = {} /\ host.stage = "reset" /\ host.addr = 0 /\ new_devaddr = 0
      /\ desc_request = None
  BY DEF Init
<1>2. Todo = {} /\ Len(task.todo) <= 1
  BY <1>1, NothingToDo
<1> QED
  BY <1>1, <1>2 DEF ControlInv, Plan, SetupBit, SetupKept, StageKept, AddressKept, VirginKept,
                    Virgin, Away, Unhandled, InHandler

\* The inductive invariant of a host that waits for the task.
LEMMA AlwaysCore ==
  ASSUME Patient
  PROVE  Spec => [](Typed /\ PatientInv)
<1>1. Init => Typed /\ PatientInv
  BY InitTyped, CoreInit
<1>2. ASSUME Typed, PatientInv, [Next]_vars PROVE Typed' /\ PatientInv'
  <2>1. Typed'
    BY <1>2, IsrTyped, AccessTyped, HandlerTyped, AppTyped, StutterTyped DEF Next, TaskStep
  <2> QED
    BY <1>2, <2>1, CoreStep
<1> QED
  BY <1>1, <1>2, PTL DEF Spec

\* Host and device agree on the address at every moment: the device takes a new
\* one with the ACK of the status stage, neither earlier nor later (device.c:168), for a
\* host that neither gives up a SET_ADDRESS nor resets the bus during one (MayStart).
THEOREM AddressesAgree ==
  ASSUME Patient
  PROVE  Spec => []AddressAgreed
<1>1. Typed /\ PatientInv => AddressAgreed
  BY DEF PatientInv, ControlInv, AddressKept, AddressAgreed
<1> QED
  BY <1>1, AlwaysCore, PTL

\* The data and the status stage start with DATA1, as device.c:242 says.
THEOREM StagesStartWithData1 ==
  ASSUME Patient
  PROVE  Spec => []StartsWithData1Alone
<1>1. Typed /\ PatientInv => StartsWithData1Alone
  <2> SUFFICES ASSUME Typed, PatientInv, ~polled,
                      host.stage \in {"in", "status_in"}, host.got = <<>> \/ host.stage = "status_in",
                      ep["in0"].has_transfer
               PROVE  ep["in0"].encoded.pid = "DATA1"
    BY DEF StartsWithData1Alone, StartsWithData1
  <2> QED
    BY DEF PatientInv, ControlInv, VirginKept, Virgin
<1> QED
  BY <1>1, AlwaysCore, PTL

-----------------------------------------------------------------------------
(* Reports: what follows holds of every patient host, with endpoint 1 polled  *)
(* or not.                                                                    *)

\* What is being prepared for a report is the report.
Report == data["out0"] = "report" /\ ep["out0"].total_len = ReportRoom /\ ep["out0"].actual_len = 0

\* While the host has a report to send, the task knows of no request but that one.
ReportInv ==
  /\ host.stage = "out" =>
       /\ host.request.kind = "report"
       /\ setup_packet \in {host.request, None} /\ desc_request = None
       /\ ep["out0"].has_transfer \/ Publishing("out0") => Report
       /\ \A o \in Todo : o.op = "start" /\ o.e = "out0" => o.data = "report" /\ o.len = ReportRoom
  /\ host.stage = "in" => host.request.kind \in InKinds
  /\ host.stage # "reset" => ep["out0"].size = EpSize
  /\ host.request.kind = "report" /\ host.got # <<>> =>
       host.got = <<[data |-> "report", off |-> 0, len |-> Stored(host.request.len)]>>

\* The room for a report is no more than a packet (8 bytes and 64 in the code).
ReportFits == ReportRoom <= EpSize /\ ReportRoom < U16

\* The report's packet is taken as far as there is room.
LEMMA ReportTaken ==
  ASSUME ReportFits, Report, ep["out0"].size = EpSize
  PROVE  transaction_len(ep["out0"]) = ReportRoom
<1>1. ReportRoom % U16 = ReportRoom
  <2>1. \A n \in Nat : n < 65536 => n % 65536 = n
    OBVIOUS
  <2>2. ReportRoom \in Nat /\ ReportRoom < U16
    BY DeviceAssumption DEF ReportFits
  <2> QED
    BY <2>1, <2>2 DEF U16
<1>2. (ep["out0"].total_len - ep["out0"].actual_len) % U16 = ReportRoom
  BY <1>1, DeviceAssumption DEF Report
<1>3. transaction_len(ep["out0"]) = IF ReportRoom < EpSize THEN ReportRoom ELSE EpSize
  BY <1>2 DEF transaction_len
<1> QED
  BY <1>3, DeviceAssumption DEF ReportFits

\* The packet interrupt.
LEMMA ReportIsr ==
  ASSUME ReportFits, Patient, Typed, ReportInv, Isr
  PROVE  ReportInv'
<1>1. task' = task /\ data' = data /\ desc_request' = desc_request
  BY DEF Isr, IsrIn0, IsrIn1, IsrOut0, HostReset, IsrSetup, TaskAside
<1>2. Todo' = Todo /\ (Publishing("out0")' <=> Publishing("out0"))
  BY <1>1, AsideFrame
<1>3. ep["out0"] \in Endpoints /\ "out0" \in Eps /\ ep \in [Eps -> Endpoints] /\ host \in Hosts
  BY DEF Typed, TypeOK, Eps
<1>4. ASSUME NEW r \in Requests[polled], IsrSetup(r) PROVE ReportInv'
  <2>1. task.todo = <<>> /\ desc_request = None
    BY <1>4 DEF IsrSetup, Caught
  <2>2. Todo = {} /\ ~Publishing("out0")
    BY <2>1, NothingToDo
  <2>3. /\ host'.request = r /\ host'.stage = FirstStage(r) /\ host'.got = <<>>
        /\ setup_packet' = r /\ host.stage # "reset"
    BY <1>3, <1>4 DEF IsrSetup, MayStart, Started, Hosts
  <2>4. ~ep'["out0"].has_transfer /\ ep'["out0"].size = ep["out0"].size
    <3>1. ep'["out0"] = [ep["out0"] EXCEPT !.has_transfer = FALSE, !.data_id = 1]
      BY <1>3, <1>4 DEF IsrSetup
    <3>2. \A f \in Endpoints : LET g == [f EXCEPT !.has_transfer = FALSE, !.data_id = 1]
                               IN  ~g.has_transfer /\ g.size = f.size
      BY DEF Endpoints
    <3> QED
      BY <1>3, <3>1, <3>2
  <2>5. host'.stage # "reset" /\ (host'.stage = "out" => r.kind = "report")
        /\ (host'.stage = "in" => r.kind \in InKinds)
    BY <2>3 DEF FirstStage
  <2> QED
    BY <1>1, <1>2, <2>1, <2>2, <2>3, <2>4, <2>5 DEF ReportInv
<1>5. CASE IsrIn0
  <2>1. host.stage \in {"in", "status_in"} /\ ep' = ep /\ setup_packet' = setup_packet
    BY <1>5 DEF IsrIn0
  <2>2. /\ host'.stage # "out" /\ host'.stage # "reset" /\ host'.request = host.request
        /\ host'.stage = "in" => host.stage = "in"
        /\ host.stage = "status_in" => host'.got = host.got
    <3>1. \/ host' = host
          \/ /\ host.stage = "status_in"
             /\ \E a, c : host' = [host EXCEPT !.stage = "idle", !.addr = a, !.configured = c]
          \/ /\ host.stage = "in"
             /\ \E g, p : \E s \in {"in", "status_out"} :
                  host' = [host EXCEPT !.got = g, !.pid = p, !.stage = s]
      <4>1. HostTakes("in0")
        BY <1>5 DEF IsrIn0
      <4> QED
        BY <2>1, <4>1 DEF HostTakes
    <3> QED
      BY <1>3, <2>1, <3>1 DEF Hosts
  <2>3. host.stage = "in" => host.request.kind # "report"
    BY DEF ReportInv, InKinds
  <2> QED
    BY <2>1, <2>2, <2>3 DEF ReportInv
<1>6. CASE IsrIn1
  <2>1. host' = host /\ ep' = ep /\ setup_packet' = setup_packet
    BY <1>6 DEF IsrIn1
  <2> QED
    BY <1>1, <1>2, <2>1 DEF ReportInv, Report
<1>7. CASE IsrOut0
  <2> DEFINE len == IF host.stage = "out" THEN host.request.len ELSE 0
             res == IF len > transaction_len(ep["out0"]) THEN transaction_len(ep["out0"]) ELSE len
             packet == [data |-> data["out0"], off |-> 0, len |-> res]
  <2>1. host.stage \in {"out", "status_out"} /\ setup_packet' = None
    BY <1>7 DEF IsrOut0
  <2>2. ep'["out0"].size = ep["out0"].size
    <3>1. res \in Nat
      <4>1. len \in Nat
        BY <1>3 DEF Hosts, Packets
      <4> QED
        BY <1>3, <4>1, LenType
    <3>2. ep' = ep \/ ep' = [ep EXCEPT !["out0"] = transfer_continue(@, res)]
      BY <1>7 DEF IsrOut0
    <3> HIDE DEF res
    <3>3. transfer_continue(ep["out0"], res).size = ep["out0"].size
      BY <1>3, <3>1, ContinueFields
    <3> QED
      BY <1>3, <3>2, <3>3
  <2>3. CASE host.stage = "status_out"
    <3>1. host'.stage \in {"status_out", "idle"} /\ host'.request = host.request /\ host'.got = host.got
      BY <1>3, <1>7, <2>3 DEF IsrOut0, Hosts
    <3> QED
      BY <2>2, <2>3, <3>1 DEF ReportInv
  <2>4. CASE host.stage = "out" /\ ~ep["out0"].has_transfer
    <3>1. host' = host /\ ep' = ep
      BY <1>7, <2>4 DEF IsrOut0
    <3> QED
      BY <1>1, <1>2, <2>1, <3>1 DEF ReportInv, Report
  <2>5. CASE host.stage = "out" /\ ep["out0"].has_transfer
    <3>1. host' = [host EXCEPT !.stage = "status_in", !.pid = "DATA1", !.got = <<packet>>]
      BY <1>7, <2>5 DEF IsrOut0
    <3>2. Report /\ ep["out0"].size = EpSize
      BY <2>5 DEF ReportInv
    <3>3. res = Stored(host.request.len)
      BY <2>5, <3>2, ReportTaken DEF Stored
    <3>4. packet = [data |-> "report", off |-> 0, len |-> Stored(host.request.len)]
      BY <3>2, <3>3 DEF Report
    <3> HIDE DEF packet, res
    <3>5. host'.stage = "status_in" /\ host'.got = <<packet>> /\ host'.request = host.request
      BY <1>3, <3>1 DEF Hosts
    <3> QED
      BY <2>2, <3>2, <3>4, <3>5 DEF ReportInv
  <2> QED
    BY <2>1, <2>3, <2>4, <2>5
<1>8. CASE HostReset
  <2>1. host'.stage = "reset" /\ host'.request = host.request /\ host'.got = host.got
    BY <1>3, <1>8 DEF HostReset, Hosts
  <2> QED
    BY <2>1 DEF ReportInv
<1> QED
  BY <1>4, <1>5, <1>6, <1>7, <1>8 DEF Isr

\* An access that starts and publishes nothing on endpoint 0 OUT.
LEMMA ReportThen ==
  ASSUME Typed, ReportInv, task.todo # <<>>, NEW ops \in Seq(Ops), ListOK(ops), Then(ops),
         \A o \in Elems(ops) : o.op # "start" /\ (o.op = "publish" => o.e = "in0"),
         UNCHANGED <<host, setup_packet, desc_request>>,
         ep'["out0"] = ep["out0"], data'["out0"] = data["out0"]
  PROVE  ReportInv'
<1>1. task \in Tasks /\ ListOK(task.todo)
  BY DEF Typed
<1>2. /\ Todo' = Elems(ops) \cup Rest
      /\ ops # <<>> => Head(task'.todo) = ops[1]
      /\ ops = <<>> => (task'.todo # <<>> => NoHead(Head(task'.todo)))
  BY <1>1, ThenTyped
<1>3. ops # <<>> => ops[1] \in Elems(ops)
  BY ElemsParts
<1>4. ~Publishing("out0")'
  BY <1>2, <1>3 DEF Publishing, Doing, Op, NoHead
<1>5. Todo = {Op} \cup Rest
  BY <1>1, HeadOp
<1> QED
  BY <1>2, <1>4, <1>5 DEF ReportInv, Report

\* The accesses.
LEMMA ReportAccess ==
  ASSUME Typed, ReportInv,
         TransferFill \/ TransferPublish \/ Load \/ Store \/ TransferContinue \/ EncodeEnd \/ TransferDone
  PROVE  ReportInv'
<1>1. task.todo # <<>> /\ UNCHANGED <<host, setup_packet, desc_request>>
  BY DEF TransferFill, TransferPublish, Load, Store, TransferContinue, EncodeEnd, TransferDone,
         Doing, IsrAside
<1>2. /\ ep \in [Eps -> Endpoints] /\ data \in [Eps -> Sources] /\ root \in Roots
      /\ task \in Tasks /\ ListOK(task.todo) /\ "out0" \in Eps /\ "in0" \in Eps /\ "in1" \in Eps
  BY DEF Typed, TypeOK, Eps
<1>3. Op \in Ops /\ Op \in Todo /\ Todo = {Op} \cup Rest /\ \A o \in Rest : NoHead(o)
  BY <1>1, <1>2, HeadOp
<1>4. <<>> \in Seq(Ops) /\ ListOK(<<>>) /\ Elems(<<>>) = {}
  BY ShortLists, ElemsOf
<1>5. CASE TransferFill
  <2> DEFINE o == [op |-> "publish", e |-> Op.e]
             f == transfer_fill(ep[Op.e], Op.len)
  <2>1. Op.op = "start"
    BY <1>5 DEF TransferFill, Doing, Op
  <2>2. Op.e \in {"out0", "in0"} /\ Op.len \in Nat
    BY <1>3, <2>1, OpsRead
  <2>3. CASE Then(<<>>) /\ ep' = ep /\ data' = data
    BY <1>1, <1>4, <2>3, ReportThen
  <2>4. CASE /\ ep' = [ep EXCEPT ![Op.e] = f] /\ data' = [data EXCEPT ![Op.e] = Op.data]
             /\ Then(<<o>>)
    <3>1. o \in Ops /\ o.op = "publish" /\ o.e = Op.e
      BY <2>2, OpsMade
    <3> HIDE DEF o
    <3>2. <<o>> \in Seq(Ops) /\ ListOK(<<o>>) /\ Elems(<<o>>) = {o}
      BY <3>1, ShortLists, ElemsOf
    <3>3. CASE Op.e = "in0"
      <4>1. ep'["out0"] = ep["out0"] /\ data'["out0"] = data["out0"]
        BY <1>2, <2>4, <3>3
      <4>2. \A p \in Elems(<<o>>) : p.op # "start" /\ (p.op = "publish" => p.e = "in0")
        BY <3>1, <3>2, <3>3
      <4> QED
        BY <1>1, <2>4, <3>2, <4>1, <4>2, ReportThen
    <3>4. CASE Op.e = "out0"
      <4>1. ep'["out0"] = f /\ data'["out0"] = Op.data
        BY <1>2, <2>4, <3>4
      <4>2. f.total_len = Op.len /\ f.actual_len = 0 /\ f.size = ep["out0"].size
        <5>1. ep[Op.e] \in Endpoints
          BY <1>2, <3>4
        <5>2. f.total_len = Op.len /\ f.actual_len = 0 /\ f.size = ep[Op.e].size
          BY <2>2, <5>1, FillFields
        <5> QED
          BY <3>4, <5>2
      <4> HIDE DEF f
      <4>3. host.stage = "out" => Report'
        BY <1>3, <2>1, <3>4, <4>1, <4>2 DEF ReportInv, Report
      <4>4. Todo' = {o} \cup Rest
        BY <1>1, <1>2, <2>4, <3>2, ThenTyped
      <4> QED
        BY <1>1, <1>3, <3>1, <4>1, <4>2, <4>3, <4>4 DEF ReportInv
    <3> QED
      BY <2>2, <3>3, <3>4
  <2> QED
    BY <1>5, <2>3, <2>4 DEF TransferFill
<1>6. CASE TransferPublish
  <2>1. Op.op = "publish" /\ Doing("publish") /\ Then(<<>>) /\ data' = data
        /\ ep' = [ep EXCEPT ![Op.e] = transfer_publish(@)]
    BY <1>6 DEF TransferPublish, Doing, Op
  <2>2. Op.e \in {"out0", "in0"}
    BY <1>3, <2>1, OpsRead
  <2>3. CASE Op.e = "in0"
    <3>1. ep'["out0"] = ep["out0"]
      BY <1>2, <2>1, <2>3
    <3> QED
      BY <1>1, <1>4, <2>1, <3>1, ReportThen
  <2>4. CASE Op.e = "out0"
    <3> DEFINE f == transfer_publish(ep["out0"])
    <3>1. ep'["out0"] = f
      BY <1>2, <2>1, <2>4
    <3>2. f.total_len = ep["out0"].total_len /\ f.actual_len = ep["out0"].actual_len
          /\ f.size = ep["out0"].size
      BY <1>2, PublishFields
    <3> HIDE DEF f
    <3>3. host.stage = "out" => Report
      BY <2>1, <2>4 DEF ReportInv, Publishing
    <3>4. host.stage = "out" => Report'
      BY <2>1, <3>1, <3>2, <3>3 DEF Report
    <3>5. Todo' = Rest
      BY <1>1, <1>2, <1>4, <2>1, ThenTyped
    <3> QED
      BY <1>1, <1>3, <3>1, <3>2, <3>4, <3>5 DEF ReportInv
  <2> QED
    BY <2>2, <2>3, <2>4
<1>7. CASE Load
  <2> DEFINE o == [op |-> "store", field |-> Op.field,
                   value |-> (root[Op.field] \ Op.del) \union Op.add]
  <2>1. Then(<<o>>) /\ ep' = ep /\ data' = data /\ Op.op = "load"
    BY <1>7 DEF Load, Doing, Op
  <2>2. o \in Ops /\ o.op = "store"
    BY <1>2, <1>3, <2>1, LoadMade
  <2> HIDE DEF o
  <2>3. <<o>> \in Seq(Ops) /\ ListOK(<<o>>) /\ Elems(<<o>>) = {o}
    BY <2>2, ShortLists, ElemsOf
  <2>4. \A p \in Elems(<<o>>) : p.op # "start" /\ (p.op = "publish" => p.e = "in0")
    BY <2>2, <2>3
  <2> QED
    BY <1>1, <2>1, <2>3, <2>4, ReportThen
<1>8. CASE Store
  <2>1. Then(<<>>) /\ ep' = ep /\ data' = data
    BY <1>8 DEF Store
  <2> QED
    BY <1>1, <1>4, <2>1, ReportThen
<1>9. CASE TransferContinue \/ EncodeEnd \/ TransferDone
  <2>1. Op.op \in {"continue", "encode", "done"} /\ data' = data
    BY <1>9 DEF TransferContinue, EncodeEnd, TransferDone, Doing, Op
  <2>2. Op.e \in {"in0", "in1"}
    BY <1>3, <2>1, OpsRead
  <2>3. ep'["out0"] = ep["out0"]
    BY <1>2, <1>9, <2>2 DEF TransferContinue, EncodeEnd, TransferDone
  <2> DEFINE a == Rmw("ints", {"complete"}, {})
             b == Rmw("ep_complete", {Op.e}, {})
             c == [op |-> "done", e |-> Op.e]
             d == [op |-> "encode", e |-> Op.e]
  <2>4. Then(<<>>) \/ Then(<<a, b, c>>) \/ Then(<<d>>)
    BY <1>9 DEF TransferContinue, EncodeEnd, TransferDone
  <2>5. a \in Ops /\ b \in Ops /\ c \in Ops /\ d \in Ops
    <3>1. {"complete"} \in SUBSET DeviceInts /\ {} \in SUBSET DeviceInts
          /\ {Op.e} \in SUBSET Eps /\ {} \in SUBSET Eps
      BY <1>2, <2>2 DEF DeviceInts
    <3> QED
      BY <2>2, <3>1, OpsMade
  <2>6. NoHead(b) /\ NoHead(c) /\ a.op = "load" /\ b.op = "load" /\ c.op = "done" /\ d.op = "encode"
    BY DEF NoHead, Rmw
  <2> HIDE DEF a, b, c, d
  <2>7. /\ Elems(<<a, b, c>>) = {a, b, c} /\ <<a, b, c>> \in Seq(Ops) /\ ListOK(<<a, b, c>>)
        /\ Elems(<<d>>) = {d} /\ <<d>> \in Seq(Ops) /\ ListOK(<<d>>)
    BY <2>5, <2>6, ElemsOf, ShortLists
  <2>8. /\ \A p \in Elems(<<a, b, c>>) : p.op # "start" /\ (p.op = "publish" => p.e = "in0")
        /\ \A p \in Elems(<<d>>) : p.op # "start" /\ (p.op = "publish" => p.e = "in0")
    BY <2>6, <2>7
  <2>9. CASE Then(<<>>)
    BY <1>1, <1>4, <2>1, <2>3, <2>9, ReportThen
  <2>10. CASE Then(<<a, b, c>>)
    BY <1>1, <2>1, <2>3, <2>7, <2>8, <2>10, ReportThen
  <2>11. CASE Then(<<d>>)
    BY <1>1, <2>1, <2>3, <2>7, <2>8, <2>11, ReportThen
  <2> QED
    BY <2>4, <2>9, <2>10, <2>11
<1> QED
  BY <1>5, <1>6, <1>7, <1>8, <1>9

\* The task goes on to accesses that start nothing but the report on endpoint 0 OUT.
LEMMA ReportGoOn ==
  ASSUME Typed, ReportInv, NEW pc \in Pcs, NEW ops \in Seq(Ops), ListOK(ops), GoOn(pc, ops),
         \A o \in Elems(ops) :
           /\ o.op # "publish"
           /\ host.stage = "out" /\ o.op = "start" /\ o.e = "out0" => o.data = "report" /\ o.len = ReportRoom,
         UNCHANGED <<host, setup_packet>>,
         host.stage = "out" => desc_request' = None,
         ep'["out0"] = ep["out0"], data'["out0"] = data["out0"]
  PROVE  ReportInv'
<1>1. task'.todo = ops /\ Todo' = Elems(ops)
  BY GoOnTyped DEF Typed
<1>2. ops # <<>> => Head(ops) \in Elems(ops)
  BY ElemsParts
<1>3. ~Publishing("out0")'
  BY <1>1, <1>2 DEF Publishing, Doing, Op
<1> QED
  BY <1>1, <1>3 DEF ReportInv, Report

\* What the task starts for a SETUP packet while the host has a report to send.
LEMMA ReportSetup ==
  ASSUME Typed, NEW r, r.kind = "report" \/ r = None
  PROVE  \A o \in Elems(SetupTransfers(r)) :
           o.op = "start" /\ o.e = "out0" => o.data = "report" /\ o.len = ReportRoom
<1> DEFINE a == Start("out0", "report", ReportRoom)
           b == Start("in0", "none", 0)
<1>1. a.data = "report" /\ a.len = ReportRoom /\ b.e = "in0"
  BY DEF Start
<1>2. CASE r.kind = "report"
  <2>1. SetupTransfers(r) = <<a, b>>
    BY <1>2 DEF SetupTransfers, PrepareRx
  <2> HIDE DEF a, b
  <2>2. Elems(<<a, b>>) = {a, b}
    BY ElemsOf
  <2> QED
    BY <1>1, <2>1, <2>2
<1>3. CASE r = None
  <2>1. SetupTransfers(r) = <<>>
    BY <1>3 DEF SetupTransfers, None
  <2> QED
    BY <2>1, ElemsOf
<1> QED
  BY <1>2, <1>3

\* The task's calls.
LEMMA ReportHandler ==
  ASSUME Typed, ReportInv,
         \/ TaskPoll \/ HandleSetup \/ HandleComplete \/ HandleContinue \/ HandlerEnd
         \/ TaskDesc \/ BusReset \/ LineIdle
  PROVE  ReportInv'
<1>1. "poll" \in Pcs /\ "setup" \in Pcs /\ "complete" \in Pcs /\ "in0" \in Pcs /\ "in1" \in Pcs
      /\ "clear" \in Pcs /\ "desc" \in Pcs /\ "line" \in Pcs
  BY DEF Pcs
<1>2. ep \in [Eps -> Endpoints] /\ "out0" \in Eps /\ task \in Tasks /\ host \in Hosts
  BY DEF Typed, TypeOK, Eps
<1>3. <<>> \in Seq(Ops) /\ ListOK(<<>>) /\ Elems(<<>>) = {}
  BY ShortLists, ElemsOf
<1>4. CASE TaskPoll
  <2>1. /\ task.todo = <<>> /\ UNCHANGED <<host, setup_packet, desc_request, ep, data>>
        /\ task' = [task EXCEPT !.pc = IF root.ints = {} THEN "desc" ELSE "setup", !.seen = root.ints]
    BY <1>4 DEF TaskPoll, At, IsrAside
  <2>2. task'.todo = <<>>
    BY <1>2, <2>1 DEF Tasks
  <2>3. Todo' = Elems(<<>>) /\ ~Publishing("out0")'
    BY <2>2 DEF Todo, Publishing, Doing
  <2> QED
    BY <1>3, <2>1, <2>3 DEF ReportInv, Report
<1>5. CASE HandleSetup
  <2> DEFINE r == IF "setup" \in task.seen THEN setup_packet ELSE None
  <2>1. /\ UNCHANGED <<host, setup_packet, data>> /\ ep'["out0"] = ep["out0"]
        /\ desc_request' = (IF r.kind = "config" THEN r ELSE desc_request)
        /\ GoOn("complete", SetupTransfers(r))
    BY <1>2, <1>5 DEF HandleSetup, IsrAside
  <2>2. r \in Packets
    <3>1. None \in Packets
      BY DEF None, Packets, U16
    <3> QED
      BY <3>1 DEF Typed
  <2>3. host.stage = "out" => r.kind = "report" \/ r = None
    BY DEF ReportInv
  <2> HIDE DEF r
  <2>4. /\ SetupTransfers(r) \in Seq(Ops) /\ ListOK(SetupTransfers(r))
        /\ \A o \in Elems(SetupTransfers(r)) : o.op = "start"
    BY <2>2, CallsTyped
  <2>5. \A o \in Elems(SetupTransfers(r)) :
          /\ o.op # "publish"
          /\ host.stage = "out" /\ o.op = "start" /\ o.e = "out0" => o.data = "report" /\ o.len = ReportRoom
    BY <2>3, <2>4, ReportSetup
  <2>6. host.stage = "out" => desc_request' = None
    BY <2>1, <2>3 DEF ReportInv, None
  <2> QED
    BY <1>1, <2>1, <2>4, <2>5, <2>6, ReportGoOn
<1>6. CASE HandleComplete
  <2>1. PICK ops \in Seq(Ops) :
          /\ ListOK(ops) /\ GoOn("in0", ops)
          /\ \A o \in Elems(ops) :
               \/ o.op = "start" /\ o.e = "in0"
               \/ o.op = "load" /\ o.field = "ep_complete"
    BY <1>6, CompleteList
  <2>2. UNCHANGED <<host, setup_packet, desc_request, ep, data>>
    BY <1>6 DEF HandleComplete, IsrAside
  <2>3. \A o \in Elems(ops) :
          /\ o.op # "publish"
          /\ host.stage = "out" /\ o.op = "start" /\ o.e = "out0" => o.data = "report" /\ o.len = ReportRoom
    BY <2>1
  <2>4. host.stage = "out" => desc_request' = None
    BY <2>2 DEF ReportInv
  <2> QED
    BY <1>1, <2>1, <2>2, <2>3, <2>4, ReportGoOn
<1>7. CASE HandleContinue
  <2> DEFINE a == [op |-> "continue", e |-> task.pc]
             b == Rmw("ep_continue", {}, {task.pc})
  <2>1. /\ task.pc \in {"in0", "in1"}
        /\ UNCHANGED <<host, setup_packet, desc_request, ep, data>>
        /\ \E pc \in {"in1", "clear"} : GoOn(pc, <<>>) \/ GoOn(pc, <<a, b>>)
    BY <1>7 DEF HandleContinue, At, IsrAside
  <2>2. a \in Ops /\ b \in Ops /\ NoHead(b) /\ a.op = "continue" /\ b.op = "load"
    <3>1. {} \in SUBSET {"in0", "in1"} /\ {task.pc} \in SUBSET {"in0", "in1"}
      BY <2>1
    <3> QED
      BY <2>1, <3>1, OpsMade DEF Rmw, NoHead
  <2> HIDE DEF a, b
  <2>3. <<a, b>> \in Seq(Ops) /\ ListOK(<<a, b>>) /\ Elems(<<a, b>>) = {a, b}
    BY <2>2, ShortLists, ElemsOf
  <2>4. PICK pc \in {"in1", "clear"} : GoOn(pc, <<>>) \/ GoOn(pc, <<a, b>>)
    BY <2>1
  <2>5. host.stage = "out" => desc_request' = None
    BY <2>1 DEF ReportInv
  <2>6. \A o \in Elems(<<a, b>>) :
          /\ o.op # "publish"
          /\ host.stage = "out" /\ o.op = "start" /\ o.e = "out0" => o.data = "report" /\ o.len = ReportRoom
    BY <2>2, <2>3
  <2>7. CASE GoOn(pc, <<>>)
    BY <1>1, <1>3, <2>1, <2>5, <2>7, ReportGoOn
  <2>8. CASE GoOn(pc, <<a, b>>)
    BY <1>1, <2>1, <2>3, <2>5, <2>6, <2>8, ReportGoOn
  <2> QED
    BY <2>4, <2>7, <2>8
<1>8. CASE HandlerEnd
  <2> DEFINE a == Rmw("ints", {}, task.seen)
  <2>1. /\ GoOn("desc", <<a>>) /\ UNCHANGED <<host, setup_packet, desc_request, ep, data>>
    BY <1>8 DEF HandlerEnd, IsrAside
  <2>2. a \in Ops /\ a.op = "load"
    <3>1. task.seen \in SUBSET DeviceInts /\ {} \in SUBSET DeviceInts
      BY <1>2 DEF Tasks
    <3> QED
      BY <3>1, OpsMade DEF Rmw
  <2> HIDE DEF a
  <2>3. <<a>> \in Seq(Ops) /\ ListOK(<<a>>) /\ Elems(<<a>>) = {a}
    BY <2>2, ShortLists, ElemsOf
  <2>4. \A o \in Elems(<<a>>) :
          /\ o.op # "publish"
          /\ host.stage = "out" /\ o.op = "start" /\ o.e = "out0" => o.data = "report" /\ o.len = ReportRoom
    BY <2>2, <2>3
  <2>5. host.stage = "out" => desc_request' = None
    BY <2>1 DEF ReportInv
  <2> QED
    BY <1>1, <2>1, <2>3, <2>4, <2>5, ReportGoOn
<1>9. CASE TaskDesc
  <2> DEFINE len == DescLen["config"]
             n == IF desc_request.len > len THEN len ELSE desc_request.len
             ops == IF desc_request = None THEN <<>> ELSE PrepareData("config", n)
  <2>1. /\ UNCHANGED <<host, setup_packet, ep, data>> /\ desc_request' = None
    BY <1>9 DEF TaskDesc, IsrAside
  <2>2. ops \in Seq(Ops) /\ ListOK(ops) /\ GoOn("line", ops) /\ \A o \in Elems(ops) : o.op = "start"
    BY <1>9, DescList
  <2>3. host.stage = "out" => ops = <<>>
    BY DEF ReportInv
  <2> HIDE DEF ops
  <2>4. \A o \in Elems(ops) :
          /\ o.op # "publish"
          /\ host.stage = "out" /\ o.op = "start" /\ o.e = "out0" => o.data = "report" /\ o.len = ReportRoom
    BY <1>3, <2>2, <2>3
  <2> QED
    BY <1>1, <2>1, <2>2, <2>4, ReportGoOn
<1>10. CASE BusReset
  <2>1. /\ host.stage = "reset" /\ host' = [host EXCEPT !.stage = "idle"]
        /\ ep'["out0"] = Ep0(FALSE)
    BY <1>10 DEF BusReset
  <2>2. host'.stage = "idle" /\ host'.request = host.request /\ host'.got = host.got
    BY <1>2, <2>1 DEF Hosts
  <2>3. Ep0(FALSE).size = EpSize
    BY DEF Ep0, UnusedEndpoint
  <2> QED
    BY <2>1, <2>2, <2>3 DEF ReportInv
<1>11. CASE LineIdle
  <2>1. /\ GoOn("poll", <<>>) /\ UNCHANGED <<host, setup_packet, desc_request, ep, data>>
    BY <1>11 DEF LineIdle, IsrAside
  <2>2. host.stage = "out" => desc_request' = None
    BY <2>1 DEF ReportInv
  <2> QED
    BY <1>1, <1>3, <2>1, <2>2, ReportGoOn
<1> QED
  BY <1>4, <1>5, <1>6, <1>7, <1>8, <1>9, <1>10, <1>11

\* Endpoint 1 is filled apart from all this.
LEMMA ReportApp ==
  ASSUME Typed, ReportInv, SetOutData \/ SetOutPublish \/ UNCHANGED vars
  PROVE  ReportInv'
<1>1. /\ task' = task /\ UNCHANGED <<host, setup_packet, desc_request>>
      /\ ep'["out0"] = ep["out0"] /\ data'["out0"] = data["out0"]
  BY DEF SetOutData, SetOutPublish, TaskAside, vars, Typed, TypeOK, Eps
<1>2. Todo' = Todo /\ (Publishing("out0")' <=> Publishing("out0"))
  BY <1>1, AsideFrame
<1> QED
  BY <1>1, <1>2 DEF ReportInv, Report

\* Of a report that has been acknowledged the device has what it made room for, whole or
\* its first ReportRoom bytes (device.c:498 and the clamp of device.c:218), with endpoint 1
\* polled or not.
THEOREM ReportsArrive ==
  ASSUME Patient, ReportFits
  PROVE  Spec => []ReportStored
<1>1. Init => ReportInv
  <2>1. ASSUME Init PROVE host.stage = "reset" /\ host.request.kind = "none"
    BY <2>1 DEF Init, None
  <2> QED
    BY <2>1 DEF ReportInv
<1>2. ASSUME Typed, ReportInv, [Next]_vars PROVE ReportInv'
  BY <1>2, ReportIsr, ReportAccess, ReportHandler, ReportApp DEF Next, TaskStep
<1>3. ReportInv => ReportStored
  BY DEF ReportInv, ReportStored
<1> QED
  BY <1>1, <1>2, <1>3, AlwaysTyped, PTL DEF Spec

-----------------------------------------------------------------------------
(* Descriptors, with endpoint 0 alone in use.                                 *)

\* The requests the device answers in full: device_descriptor is sent whole
\* (device.c:460), prepare_ep0_data takes a uint8_t, and nothing ends a
\* descriptor that fills its last packet when the host asked for more.
Answerable ==
  /\ \A k \in InKinds : DescLen[k] < U8
  /\ \A r \in Requests[FALSE] : r.kind \in InKinds =>
       /\ r.kind = "device" => r.len >= DescLen["device"]
       /\ r.len > DescLen[r.kind] =>
            \A n \in 1 .. DescLen[r.kind] : DescLen[r.kind] # n * EpSize

Total == DescLenOf(host.request)
PacketLen(n) == IF Total - Sent(n) < EpSize THEN Total - Sent(n) ELSE EpSize
Got == Len(host.got)

\* The endpoint is at packet n, whose toggle is pid.
AtPacket(n, pid) ==
  ep["in0"].actual_len = Sent(n) /\ ep["in0"].data_id \in {0, 1} /\ DataPid(ep["in0"].data_id) = pid

\* It still holds the packet the host took last ...
Taken ==
  /\ host.got # <<>> /\ AtPacket(Got, Other(host.pid))
  /\ ep["in0"].encoded.pid = Other(host.pid)

\* ... or has the next, or is encoding it.
Awaited ==
  /\ AtPacket(Got + 1, host.pid)
  /\ "in0" \in torn \/
       ep["in0"].encoded = [pid |-> host.pid, off |-> Sent(Got + 1), len |-> PacketLen(Got + 1)]

\* The task has yet to clear the CONTINUE of endpoint 0.
Continuing == \E o \in Todo : o.op \in {"load", "store"} /\ o.field = "ep_continue"

\* A packet is encoded before its CONTINUE is cleared.
ContinueKept ==
  Doing("continue") \/ Doing("encode") =>
    \E o \in Rest : o.op = "load" /\ o.field = "ep_continue"

\* What the host has.
GotRight ==
  /\ host.stage \in {"in", "status_out"} =>
       \A i \in 1 .. Got :
         /\ host.got[i].data = host.request.kind
         /\ host.got[i].off = Sent(i) /\ host.got[i].len = PacketLen(i)
  /\ host.stage = "status_out" => Sent(Got) + EpSize >= Total

\* The transfer goes on to the descriptor's last packet.
More == host.got # <<>> => Sent(Got + 1) < Total /\ ep["in0"].has_transfer

\* The transfer is the descriptor's.
Loaded ==
  ep["in0"].has_transfer \/ Publishing("in0") =>
    /\ data["in0"] = host.request.kind /\ ep["in0"].total_len = Total
    /\ Taken \/ Awaited

\* No access has to do with a completion, and a start is the descriptor's.
NotComplete(o) ==
  /\ o.op = "load" /\ o.field = "ints" => "complete" \notin o.add
  /\ StoreInts(o) => "complete" \notin o.value
Answers(o) == o.op = "start" /\ o.e = "in0" => o.data = host.request.kind /\ o.len = Total

Fresh ==
  host.got = <<>> =>
    /\ "complete" \notin root.ints
    /\ InHandler => "complete" \notin task.seen
    /\ \A o \in Todo : NotComplete(o) /\ Answers(o)

\* A CONTINUE is for the packet the host took last.
Settled ==
  /\ host.got # <<>> /\ "in0" \in root.ep_continue /\ ~Continuing => Taken
  /\ Doing("continue") => Taken
  /\ \A o \in Todo : o.op # "done"

AnswerKept ==
  /\ ContinueKept /\ GotRight
  /\ host.stage = "in" => More /\ Loaded /\ Fresh /\ Settled
AnswerInv == ~polled => AnswerKept

\* The offset of a packet, and the one after it.
LEMMA SentNext ==
  /\ \A n \in Nat : Sent(n + 1) = Sent(n) + EpSize /\ Sent(n + 1) = n * EpSize
  /\ \A n \in Nat : Sent(n + 1) \in Nat
  /\ Sent(1) = 0
<1>1. EpSize \in Nat \ {0}
  BY DeviceAssumption
<1>2. \A n \in Nat : (n + 1) - 1 = n /\ n * EpSize = (n - 1) * EpSize + EpSize /\ n * EpSize \in Nat
  BY <1>1
<1>3. 0 * EpSize = 0
  BY <1>1
<1> QED
  BY <1>1, <1>2, <1>3 DEF Sent

\* The descriptor's length is a byte.
LEMMA TotalFits ==
  ASSUME Answerable, ControlInv, host.stage \in {"in", "status_out"}
  PROVE  /\ Total \in Nat /\ Total < U8 /\ Total <= host.request.len
         /\ host.request \in Requests[FALSE] /\ host.request.kind \in InKinds
         /\ host.request.len \in Nat
         /\ Total = host.request.len \/ Total = DescLen[host.request.kind]
<1>1. host.request \in Requests[FALSE] /\ host.request.kind \in InKinds
  BY DEF ControlInv, StageKept, Away
<1>2. host.request \in [kind : Kinds, len : 0 .. U16 - 1]
  BY <1>1, DeviceAssumption
<1>3. host.request.len \in Nat
  <2>1. U16 - 1 \in Int
    BY DEF U16
  <2> QED
    BY <1>2, <2>1
<1>4. DescLen[host.request.kind] \in Nat /\ DescLen[host.request.kind] < U8
  BY <1>1, DeviceAssumption DEF Answerable
<1> DEFINE n == host.request.len
           m == DescLen[host.request.kind]
<1>5. Total = IF n < m THEN n ELSE m
  BY DEF Total, DescLenOf
<1>6. n \in Nat /\ m \in Nat /\ m < U8
  BY <1>3, <1>4
<1>7. U8 \in Nat
  BY DEF U8
<1> HIDE DEF n, m
<1>8. Total \in Nat /\ Total < U8 /\ Total <= n /\ (Total = n \/ Total = m)
  BY <1>5, <1>6, <1>7
<1> QED
  BY <1>1, <1>3, <1>8 DEF n, m

\* The packet an endpoint of the descriptor's transfer encodes.
LEMMA PacketEncoded ==
  ASSUME NEW f, NEW t \in Nat, NEW s \in Nat, s <= t, t < U8,
         f.size = EpSize, f.total_len = t, f.actual_len = s
  PROVE  transaction_len(f) = IF t - s < EpSize THEN t - s ELSE EpSize
<1>1. \A m \in Nat : m < 65536 => m % 65536 = m
  OBVIOUS
<1>2. t - s \in Nat /\ t - s < 65536
  BY DEF U8
<1>3. (t - s) % U16 = t - s
  BY <1>1, <1>2 DEF U16
<1> QED
  BY <1>3 DEF transaction_len

\* What only depends on the host.
LEMMA SameHost ==
  ASSUME host' = host
  PROVE  /\ Total' = Total /\ Got' = Got /\ (GotRight' <=> GotRight)
         /\ \A n : PacketLen(n)' = PacketLen(n)
BY DEF Total, Got, PacketLen, GotRight

\* What only depends on the host and on endpoint 0's packet.
LEMMA SamePacket ==
  ASSUME host' = host, "in0" \in torn' <=> "in0" \in torn,
         ep'["in0"].actual_len = ep["in0"].actual_len, ep'["in0"].data_id = ep["in0"].data_id,
         ep'["in0"].encoded = ep["in0"].encoded
  PROVE  (Taken' <=> Taken) /\ (Awaited' <=> Awaited)
<1>1. Total' = Total /\ Got' = Got /\ \A n : PacketLen(n)' = PacketLen(n)
  BY SameHost
<1>2. \A n, pid : AtPacket(n, pid)' <=> AtPacket(n, pid)
  BY DEF AtPacket
<1> QED
  BY <1>1, <1>2 DEF Taken, Awaited

\* An access keeps the invariant if it keeps the clauses that are about it.
LEMMA AnswerThen ==
  ASSUME Typed, AnswerKept, task.todo # <<>>, NEW ops \in Seq(Ops), ListOK(ops), Then(ops), host' = host,
         ops # <<>> => ops[1].op # "continue" /\ (ops[1].op = "encode" => ContinueKept'),
         host.stage = "in" =>
           /\ host.got # <<>> => ep'["in0"].has_transfer
           /\ Loaded'
           /\ host.got = <<>> => "complete" \notin root'.ints
           /\ host.got # <<>> /\ "in0" \in root'.ep_continue /\ ~Continuing' => Taken'
           /\ \A o \in Elems(ops) : o.op \notin {"start", "done"} /\ (host.got = <<>> => NotComplete(o))
  PROVE  AnswerKept'
<1>1. task \in Tasks /\ ListOK(task.todo)
  BY DEF Typed
<1>2. /\ task'.pc = task.pc /\ task'.seen = task.seen /\ Todo' = Elems(ops) \cup Rest
      /\ ops # <<>> => Head(task'.todo) = ops[1]
      /\ ops = <<>> => (task'.todo # <<>> => NoHead(Head(task'.todo)))
  BY <1>1, ThenTyped
<1>3. Todo = {Op} \cup Rest
  BY <1>1, HeadOp
<1>4. ~Doing("continue")' /\ (Doing("encode")' => ops # <<>> /\ ops[1].op = "encode")
  BY <1>2 DEF Doing, NoHead
<1>5. ContinueKept'
  BY <1>4 DEF ContinueKept
<1>6. Total' = Total /\ Got' = Got /\ GotRight'
  BY SameHost DEF AnswerKept
<1>7. ASSUME host.stage = "in" PROVE More' /\ Loaded' /\ Fresh' /\ Settled'
  <2>1. More'
    BY <1>6, <1>7 DEF AnswerKept, More
  <2>2. Fresh'
    <3>1. InHandler' <=> InHandler
      BY <1>2 DEF InHandler
    <3>2. \A o \in Todo' : host.got = <<>> => NotComplete(o) /\ Answers(o)
      BY <1>2, <1>3, <1>7 DEF AnswerKept, Fresh, Answers
    <3>3. \A o : Answers(o)' <=> Answers(o)
      BY <1>6 DEF Answers
    <3> QED
      BY <1>2, <1>7, <3>1, <3>2, <3>3 DEF AnswerKept, Fresh, NotComplete, StoreInts
  <2>3. Settled'
    BY <1>2, <1>3, <1>4, <1>7 DEF AnswerKept, Settled
  <2> QED
    BY <1>7, <2>1, <2>2, <2>3
<1> QED
  BY <1>5, <1>6, <1>7 DEF AnswerKept

\* The CONTINUE's clearing is ahead before an access other than its own as it is after.
LEMMA StillContinuing ==
  ASSUME Typed, task.todo # <<>>, NEW ops \in Seq(Ops), ListOK(ops), Then(ops),
         ops = <<>> => ~(Op.op \in {"load", "store"} /\ Op.field = "ep_continue"),
         ops # <<>> => Op.op = "start" \/ (Op.op = "load" /\ ops[1].op = "store" /\ ops[1].field = Op.field)
  PROVE  Continuing => Continuing'
<1>1. task \in Tasks /\ ListOK(task.todo)
  BY DEF Typed
<1>2. Todo' = Elems(ops) \cup Rest /\ Todo = {Op} \cup Rest
  BY <1>1, ThenTyped, HeadOp
<1>3. ops # <<>> => ops[1] \in Elems(ops)
  BY ElemsParts
<1> QED
  BY <1>2, <1>3 DEF Continuing

\* transfer_start, up to the store that publishes.
LEMMA AnswerFill ==
  ASSUME Answerable, Typed, ~polled, ControlInv, AnswerKept, TransferFill
  PROVE  AnswerKept'
<1>1. task.todo # <<>> /\ Op.op = "start" /\ host' = host /\ torn' = torn /\ root' = root
  BY DEF TransferFill, Doing, Op, IsrAside
<1>2. /\ Op \in Ops /\ Op \in Todo /\ Op.e \in {"out0", "in0"} /\ Op.len \in Nat
      /\ ep \in [Eps -> Endpoints] /\ "in0" \in Eps /\ ep["in0"] \in Endpoints
      /\ data \in [Eps -> Sources]
      /\ task \in Tasks /\ ListOK(task.todo)
  <2>1. task \in Tasks /\ ListOK(task.todo) /\ ep \in [Eps -> Endpoints] /\ data \in [Eps -> Sources]
    BY DEF Typed, TypeOK
  <2>2. Op \in Ops /\ Op \in Todo
    BY <1>1, <2>1, HeadOp
  <2> QED
    BY <1>1, <2>1, <2>2, OpsRead DEF Eps
<1>3. <<>> \in Seq(Ops) /\ ListOK(<<>>) /\ Elems(<<>>) = {}
  BY ShortLists, ElemsOf
<1>4. ASSUME NEW ops \in Seq(Ops), ListOK(ops), Then(ops), host.stage = "in",
             host.got # <<>>, "in0" \in root'.ep_continue, ~Continuing',
             ep'["in0"] = ep["in0"]
      PROVE  Taken'
  <2>1. ~Continuing
    BY <1>1, <1>4, StillContinuing
  <2>2. Taken
    BY <1>1, <1>4, <2>1 DEF AnswerKept, Settled
  <2> QED
    BY <1>1, <1>4, <2>2, SamePacket
<1>5. ASSUME host.stage = "in", ep'["in0"] = ep["in0"], data'["in0"] = data["in0"],
             Publishing("in0")' => Publishing("in0")
      PROVE  Loaded'
  BY <1>1, <1>5, SamePacket, SameHost DEF AnswerKept, Loaded
<1>6. CASE Then(<<>>) /\ ep' = ep /\ data' = data
  <2>1. ~Publishing("in0")'
    BY <1>1, <1>2, <1>3, <1>6, ThenTyped DEF Publishing, Doing, Op, NoHead
  <2>2. host.stage = "in" /\ host.got # <<>> => ep'["in0"].has_transfer
    BY <1>6 DEF AnswerKept, More
  <2>3. host.stage = "in" /\ host.got = <<>> => "complete" \notin root'.ints
    BY <1>1 DEF AnswerKept, Fresh
  <2> QED
    BY <1>1, <1>3, <1>4, <1>5, <1>6, <2>1, <2>2, <2>3, AnswerThen
<1> DEFINE o == [op |-> "publish", e |-> Op.e]
           f == transfer_fill(ep[Op.e], Op.len)
<1>7. CASE /\ ep' = [ep EXCEPT ![Op.e] = f] /\ data' = [data EXCEPT ![Op.e] = Op.data]
           /\ Then(<<o>>) /\ ~ep[Op.e].has_transfer
  <2>1. o \in Ops /\ o.op = "publish" /\ o.e = Op.e
    BY <1>2, OpsMade
  <2> HIDE DEF o
  <2>2. <<o>> \in Seq(Ops) /\ ListOK(<<o>>) /\ Elems(<<o>>) = {o} /\ <<o>>[1] = o /\ <<o>> # <<>>
    BY <2>1, ShortLists, ElemsOf
  <2>3. /\ <<o>> # <<>> => <<o>>[1].op # "continue" /\ (<<o>>[1].op = "encode" => ContinueKept')
        /\ \A p \in Elems(<<o>>) : p.op \notin {"start", "done"} /\ (host.got = <<>> => NotComplete(p))
    BY <2>1, <2>2 DEF NotComplete, StoreInts
  <2>4. host.stage = "in" /\ host.got = <<>> => "complete" \notin root'.ints
    BY <1>1 DEF AnswerKept, Fresh
  <2>5. Op.e = "out0" => ep'["in0"] = ep["in0"] /\ data'["in0"] = data["in0"]
    BY <1>2, <1>7
  <2>6. Op.e = "out0" => ~Publishing("in0")'
    BY <1>1, <1>2, <1>7, <2>1, <2>2, ThenTyped DEF Publishing, Op
  <2>7. host.stage = "in" /\ Op.e = "in0" => host.got = <<>>
    BY <1>7 DEF AnswerKept, More
  <2>8. host.stage = "in" /\ host.got # <<>> => ep'["in0"].has_transfer
    BY <1>2, <2>5, <2>7 DEF AnswerKept, More
  <2>9. host.stage = "in" => Loaded'
    <3>1. CASE Op.e = "out0"
      BY <1>5, <2>5, <2>6, <3>1
    <3>2. CASE Op.e = "in0" /\ host.stage = "in"
      <4>1. Op.data = host.request.kind /\ Op.len = Total /\ host.got = <<>>
        BY <1>1, <1>2, <2>7, <3>2 DEF AnswerKept, Fresh, Answers
      <4>2. ep["in0"].data_id = 1 /\ host.pid = "DATA1" /\ ep["in0"].is_tx /\ ep["in0"].size = EpSize
        BY <3>2, <4>1 DEF ControlInv, VirginKept, Virgin, AddressKept
      <4>3. f = transfer_fill(ep["in0"], Op.len)
        BY <3>2
      <4> HIDE DEF f
      <4>4. /\ f.data_id = 1 /\ f.size = EpSize /\ f.total_len = Total /\ f.actual_len = 0
            /\ f.encoded = [pid |-> DataPid(1), off |-> 0, len |-> transaction_len(f)]
        BY <1>2, <4>1, <4>2, <4>3, FillFields
      <4>5. Got = 0 /\ Sent(1) = 0 /\ Got + 1 = 1
        BY <4>1, SentNext DEF Got
      <4>6. transaction_len(f) = PacketLen(1)
        <5>1. Total \in Nat /\ Total < U8 /\ 0 <= Total
          BY <3>2, TotalFits
        <5>2. transaction_len(f) = IF Total - 0 < EpSize THEN Total - 0 ELSE EpSize
          BY <4>4, <5>1, PacketEncoded
        <5> QED
          BY <4>5, <5>2 DEF PacketLen
      <4>7. ep'["in0"] = f /\ data'["in0"] = Op.data
        BY <1>2, <1>7, <3>2
      <4>8. DataPid(1) = "DATA1"
        BY DEF DataPid
      <4>9. Total' = Total /\ Got' = Got /\ PacketLen(1)' = PacketLen(1)
        BY <1>1, SameHost
      <4>10. Awaited'
        BY <1>1, <4>2, <4>4, <4>5, <4>6, <4>7, <4>8, <4>9 DEF Awaited, AtPacket
      <4> QED
        BY <1>1, <4>1, <4>4, <4>7, <4>9, <4>10 DEF Loaded
    <3> QED
      BY <1>2, <3>1, <3>2
  <2>10. host.stage = "in" => (host.got # <<>> /\ "in0" \in root'.ep_continue /\ ~Continuing' => Taken')
    BY <1>2, <1>4, <1>7, <2>2, <2>5, <2>7
  <2> HIDE DEF f
  <2> QED
    BY <1>1, <1>7, <2>2, <2>3, <2>4, <2>8, <2>9, <2>10, AnswerThen
<1> QED
  BY <1>6, <1>7 DEF TransferFill

\* The store that publishes.
LEMMA AnswerPublish ==
  ASSUME Typed, AnswerKept, TransferPublish
  PROVE  AnswerKept'
<1>1. /\ task.todo # <<>> /\ Op.op = "publish" /\ Doing("publish") /\ Then(<<>>)
      /\ UNCHANGED <<host, torn, root, data>> /\ ep' = [ep EXCEPT ![Op.e] = transfer_publish(@)]
  BY DEF TransferPublish, Doing, Op, IsrAside
<1>2. /\ Op \in Ops /\ Op.e \in {"out0", "in0"}
      /\ ep \in [Eps -> Endpoints] /\ "in0" \in Eps /\ ep["in0"] \in Endpoints
      /\ task \in Tasks /\ ListOK(task.todo)
  <2>1. task \in Tasks /\ ListOK(task.todo) /\ ep \in [Eps -> Endpoints]
    BY DEF Typed, TypeOK
  <2>2. Op \in Ops
    BY <1>1, <2>1, HeadOp
  <2> QED
    BY <1>1, <2>1, <2>2, OpsRead DEF Eps
<1>3. <<>> \in Seq(Ops) /\ ListOK(<<>>) /\ Elems(<<>>) = {}
  BY ShortLists, ElemsOf
<1>4. /\ ep'["in0"].actual_len = ep["in0"].actual_len /\ ep'["in0"].data_id = ep["in0"].data_id
      /\ ep'["in0"].encoded = ep["in0"].encoded /\ ep'["in0"].total_len = ep["in0"].total_len
      /\ ep["in0"].has_transfer => ep'["in0"].has_transfer
      /\ ep'["in0"].has_transfer => ep["in0"].has_transfer \/ Publishing("in0")
  <2> DEFINE f == transfer_publish(ep["in0"])
  <2>1. ep'["in0"] = IF Op.e = "in0" THEN f ELSE ep["in0"]
    BY <1>1, <1>2
  <2>2. /\ f.actual_len = ep["in0"].actual_len /\ f.data_id = ep["in0"].data_id
        /\ f.encoded = ep["in0"].encoded /\ f.total_len = ep["in0"].total_len /\ f.has_transfer
    BY <1>2, PublishFields
  <2> HIDE DEF f
  <2> QED
    BY <1>1, <2>1, <2>2 DEF Publishing
<1>5. (Taken' <=> Taken) /\ (Awaited' <=> Awaited) /\ Total' = Total
  BY <1>1, <1>4, SamePacket, SameHost
<1>6. ~Publishing("in0")'
  BY <1>1, <1>2, <1>3, ThenTyped DEF Publishing, Doing, Op, NoHead
<1>7. Continuing => Continuing'
  BY <1>1, <1>3, StillContinuing
<1>8. host.stage = "in" =>
        /\ host.got # <<>> => ep'["in0"].has_transfer
        /\ Loaded'
        /\ host.got = <<>> => "complete" \notin root'.ints
        /\ host.got # <<>> /\ "in0" \in root'.ep_continue /\ ~Continuing' => Taken'
  BY <1>1, <1>4, <1>5, <1>6, <1>7 DEF AnswerKept, More, Loaded, Fresh, Settled
<1> QED
  BY <1>1, <1>3, <1>8, AnswerThen

\* A read-modify-write's load and store.
LEMMA AnswerLoad ==
  ASSUME Typed, ~polled, ControlInv, AnswerKept, Load
  PROVE  AnswerKept'
<1> DEFINE o == [op |-> "store", field |-> Op.field,
                 value |-> (root[Op.field] \ Op.del) \union Op.add]
<1>1. /\ task.todo # <<>> /\ Op.op = "load" /\ Then(<<o>>)
      /\ UNCHANGED <<host, torn, root, data, ep>>
  BY DEF Load, Doing, Op, IsrAside
<1>2. Op \in Ops /\ Op \in Todo /\ root \in Roots /\ task \in Tasks /\ ListOK(task.todo)
  BY <1>1, AccessStart
<1>3. o \in Ops /\ o.op = "store" /\ o.field = Op.field
      /\ o.value = (root[Op.field] \ Op.del) \union Op.add
  BY <1>1, <1>2, LoadMade
<1> HIDE DEF o
<1>4. <<o>> \in Seq(Ops) /\ ListOK(<<o>>) /\ Elems(<<o>>) = {o} /\ <<o>>[1] = o /\ <<o>> # <<>>
  BY <1>3, ShortLists, ElemsOf
<1>5. host.stage = "in" /\ host.got = <<>> => "complete" \notin root.ints /\ NotComplete(Op)
  BY <1>2 DEF AnswerKept, Fresh
<1>6. o.field = "ints" => o.value = (root.ints \ Op.del) \union Op.add
  BY <1>3
<1>7. host.stage = "in" /\ host.got = <<>> => NotComplete(o)
  BY <1>1, <1>3, <1>5, <1>6 DEF NotComplete, StoreInts
<1>8. (Taken' <=> Taken) /\ (Awaited' <=> Awaited) /\ Total' = Total
  BY <1>1, SamePacket, SameHost
<1>9. ~Publishing("in0")'
  BY <1>1, <1>2, <1>3, <1>4, ThenTyped DEF Publishing, Doing, Op
<1>10. Continuing => Continuing'
  BY <1>1, <1>3, <1>4, StillContinuing
<1>11. host.stage = "in" =>
        /\ host.got # <<>> => ep'["in0"].has_transfer
        /\ Loaded'
        /\ host.got = <<>> => "complete" \notin root'.ints
        /\ host.got # <<>> /\ "in0" \in root'.ep_continue /\ ~Continuing' => Taken'
        /\ \A p \in Elems(<<o>>) : p.op \notin {"start", "done"} /\ (host.got = <<>> => NotComplete(p))
  BY <1>1, <1>3, <1>4, <1>7, <1>8, <1>9, <1>10 DEF AnswerKept, More, Loaded, Fresh, Settled
<1>12. <<o>> # <<>> => <<o>>[1].op # "continue" /\ (<<o>>[1].op = "encode" => ContinueKept')
  BY <1>3, <1>4
<1> QED
  BY <1>1, <1>4, <1>11, <1>12, AnswerThen

\* ... and the store: what it writes has neither a completion nor a CONTINUE.
LEMMA AnswerStore ==
  ASSUME Typed, ~polled, ControlInv, AnswerKept, Store
  PROVE  AnswerKept'
<1>1. /\ task.todo # <<>> /\ Op.op = "store" /\ Then(<<>>)
      /\ UNCHANGED <<host, torn, data, ep>> /\ root' = [root EXCEPT ![Op.field] = Op.value]
  BY DEF Store, Doing, Op, IsrAside
<1>2. /\ Op \in Ops /\ Op \in Todo /\ root \in Roots /\ task \in Tasks /\ ListOK(task.todo)
      /\ Fits(Op, task.pc, task.seen)
  BY <1>1, AccessStart
<1>3. Op.field \in {"ints", "ep_complete", "ep_continue"}
  BY <1>1, <1>2, OpsRead
<1>4. /\ root'.ints = IF Op.field = "ints" THEN Op.value ELSE root.ints
      /\ root'.ep_continue = IF Op.field = "ep_continue" THEN Op.value ELSE root.ep_continue
  BY <1>1, <1>2, <1>3 DEF Roots
<1>5. Op.field = "ep_continue" => Op.value = {}
  <2>1. task.pc \in Pcs
    BY <1>2 DEF Tasks
  <2> QED
    BY <1>1, <1>2, <2>1 DEF Fits, Pcs
<1>6. <<>> \in Seq(Ops) /\ ListOK(<<>>) /\ Elems(<<>>) = {}
  BY ShortLists, ElemsOf
<1>7. host.stage = "in" /\ host.got = <<>> => "complete" \notin root'.ints
  <2>1. host.stage = "in" /\ host.got = <<>> => "complete" \notin root.ints /\ NotComplete(Op)
    BY <1>2 DEF AnswerKept, Fresh
  <2> QED
    BY <1>1, <1>4, <2>1 DEF NotComplete, StoreInts
<1>8. (Taken' <=> Taken) /\ (Awaited' <=> Awaited) /\ Total' = Total
  BY <1>1, SamePacket, SameHost
<1>9. ~Publishing("in0")'
  BY <1>1, <1>2, <1>6, ThenTyped DEF Publishing, Doing, Op, NoHead
<1>10. Op.field # "ep_continue" => (Continuing => Continuing')
  BY <1>1, <1>6, StillContinuing
<1>11. host.stage = "in" =>
        /\ host.got # <<>> => ep'["in0"].has_transfer
        /\ Loaded'
        /\ host.got = <<>> => "complete" \notin root'.ints
        /\ host.got # <<>> /\ "in0" \in root'.ep_continue /\ ~Continuing' => Taken'
  BY <1>1, <1>4, <1>5, <1>7, <1>8, <1>9, <1>10 DEF AnswerKept, More, Loaded, Settled
<1> QED
  BY <1>1, <1>6, <1>11, AnswerThen

\* Toggles: the next packet's is the other one.
LEMMA Toggled ==
  ASSUME NEW d \in {0, 1}
  PROVE  /\ Toggle(d) \in {0, 1} /\ DataPid(Toggle(d)) = Other(DataPid(d))
         /\ \A pid \in DataPids : Other(pid) # pid /\ Other(Other(pid)) = pid
<1>1. Toggle(0) = 1 /\ Toggle(1) = 0
  BY DEF Toggle
<1> QED
  BY <1>1 DEF DataPid, Other, DataPids

\* What is left after the head is replaced by one access.
LEMMA TailAppend ==
  ASSUME NEW d \in Ops, NEW s \in Seq(Ops)
  PROVE  Tail(<<d>> \o s) = s
<1>1. <<d>> \in Seq(Ops) /\ Len(<<d>>) = 1
  OBVIOUS
<1> DEFINE t == <<d>> \o s
<1>2. /\ t \in Seq(Ops) /\ Len(t) = 1 + Len(s)
      /\ \A i \in 1 .. 1 + Len(s) : i > 1 => t[i] = s[i - 1]
  BY <1>1, ConcatProperties
<1>3. Len(s) \in Nat
  BY LenProperties
<1> HIDE DEF t
<1>4. t # <<>>
  BY <1>2, <1>3, EmptySeq
<1>5. /\ Tail(t) \in Seq(Ops) /\ Len(Tail(t)) = Len(t) - 1
      /\ \A i \in 1 .. Len(Tail(t)) : Tail(t)[i] = t[i + 1]
  BY <1>2, <1>4, HeadTailProperties
<1>6. \A i \in 1 .. Len(s) : Tail(t)[i] = s[i]
  BY <1>2, <1>3, <1>5
<1>7. Len(Tail(t)) = Len(s)
  BY <1>2, <1>3, <1>5
<1> QED
  BY <1>5, <1>6, <1>7, SeqEqual DEF t

\* A packet is encoded in the place of the one the host took.
LEMMA AnswerContinue ==
  ASSUME Answerable, Typed, ~polled, ControlInv, AnswerKept, TransferContinue
  PROVE  AnswerKept'
<1>1. task.todo # <<>> /\ Doing("continue") /\ Op.op = "continue"
      /\ UNCHANGED <<host, data, root>>
  BY DEF TransferContinue, Doing, Op, IsrAside
<1>2. /\ Op \in Ops /\ Op \in Todo /\ Fits(Op, task.pc, task.seen)
      /\ ep["in0"] \in Endpoints /\ "in0" \in Eps
      /\ ep \in [Eps -> Endpoints] /\ task \in Tasks /\ ListOK(task.todo)
  BY <1>1, AccessStart
<1>3. Op.e = "in0"
  <2>1. task.pc \in Pcs
    BY <1>2 DEF Tasks
  <2> QED
    BY <1>1, <1>2, <2>1 DEF Fits, Pcs
<1> DEFINE n == transaction_len(ep["in0"])
           f == transfer_progress(ep["in0"], n)
           a == Rmw("ints", {"complete"}, {})
           b == Rmw("ep_complete", {"in0"}, {})
           c == [op |-> "done", e |-> "in0"]
           d == [op |-> "encode", e |-> "in0"]
<1>4. /\ ep' = [ep EXCEPT !["in0"] = f]
      /\ IF transfer_finished(ep["in0"], n) THEN Then(<<a, b, c>>)
         ELSE Then(<<d>>) /\ torn' = torn \cup {"in0"}
  BY <1>3 DEF TransferContinue
<1>5. /\ n \in Nat /\ f.data_id = Toggle(ep["in0"].data_id) /\ f.total_len = ep["in0"].total_len
      /\ f.actual_len = (ep["in0"].actual_len + n) % U16
      /\ f.has_transfer = ep["in0"].has_transfer
  <2>1. n \in Nat
    BY <1>2, LenType
  <2> HIDE DEF n
  <2> QED
    BY <1>2, <2>1, ProgressFields
<1>6. /\ a.op = "load" /\ b.op = "load" /\ c.op = "done" /\ d.op = "encode"
      /\ NoHead(b) /\ NoHead(c)
  BY DEF Rmw, NoHead
<1>7. a \in Ops /\ b \in Ops /\ c \in Ops /\ d \in Ops
  <2>1. {"complete"} \in SUBSET DeviceInts /\ {} \in SUBSET DeviceInts
        /\ {"in0"} \in SUBSET Eps /\ {} \in SUBSET Eps
    BY DEF DeviceInts, Eps
  <2> QED
    BY <2>1, OpsMade
<1> HIDE DEF a, b, c, d
<1>8. /\ Elems(<<a, b, c>>) = {a, b, c} /\ <<a, b, c>> \in Seq(Ops) /\ ListOK(<<a, b, c>>)
      /\ <<a, b, c>> # <<>> /\ <<a, b, c>>[1] = a
      /\ Elems(<<d>>) = {d} /\ <<d>> \in Seq(Ops) /\ ListOK(<<d>>) /\ <<d>> # <<>> /\ <<d>>[1] = d
  BY <1>6, <1>7, ElemsOf, ShortLists
<1>9. PICK o \in Rest : o.op = "load" /\ o.field = "ep_continue"
  BY <1>1 DEF AnswerKept, ContinueKept
<1>10. Then(<<d>>) => ContinueKept' /\ Continuing'
  <2> SUFFICES ASSUME Then(<<d>>) PROVE ContinueKept' /\ Continuing'
    OBVIOUS
  <2>1. Todo' = {d} \cup Rest
    BY <1>1, <1>2, <1>8, ThenTyped
  <2>2. Rest' = Rest
    <3>1. task'.todo = <<d>> \o Tail(task.todo)
      BY <1>2 DEF Then, Tasks
    <3>2. Tail(task.todo) \in Seq(Ops)
      <4>1. task.todo \in Seq(Ops)
        BY <1>2 DEF Tasks
      <4> QED
        BY <1>1, <4>1, ElemsParts
    <3>3. Tail(<<d>> \o Tail(task.todo)) = Tail(task.todo)
      BY <1>7, <3>2, TailAppend
    <3> QED
      BY <3>1, <3>3 DEF Rest
  <2> QED
    BY <1>9, <2>1, <2>2 DEF ContinueKept, Continuing
<1>11. host.stage = "in" =>
         /\ Taken /\ Sent(Got + 1) < Total /\ ep["in0"].has_transfer
         /\ data["in0"] = host.request.kind /\ ep["in0"].total_len = Total
  BY <1>1, <1>2 DEF AnswerKept, Settled, More, Loaded, Taken
<1>12. host.stage = "in" =>
         /\ n = EpSize /\ ~transfer_finished(ep["in0"], n) /\ f.actual_len = Sent(Got + 1)
  <2> SUFFICES ASSUME host.stage = "in"
               PROVE  n = EpSize /\ ~transfer_finished(ep["in0"], n) /\ f.actual_len = Sent(Got + 1)
    OBVIOUS
  <2>1. Total \in Nat /\ Total < U8 /\ ep["in0"].size = EpSize /\ EpSize \in Nat \ {0}
    BY TotalFits, DeviceAssumption DEF ControlInv, AddressKept
  <2>2. Got \in Nat /\ Got # 0
    <3>1. host.got \in Seq([data : Sources, off : Nat, len : Nat])
      BY DEF Typed, Hosts
    <3> QED
      BY <1>11, <3>1, EmptySeq, LenProperties DEF Taken, Got
  <2> DEFINE s == Sent(Got)
             t == Sent(Got + 1)
  <2>3. s \in Nat /\ t = s + EpSize /\ t < Total /\ ep["in0"].actual_len = s
    <3>1. Got - 1 \in Nat /\ Got = (Got - 1) + 1
      BY <2>2
    <3>2. s \in Nat
      BY <3>1, SentNext
    <3> QED
      BY <1>11, <2>2, <3>2, SentNext DEF Taken, AtPacket
  <2> HIDE DEF s, t
  <2>4. s <= Total /\ ~(Total - s < EpSize)
    BY <2>1, <2>3
  <2>5. n = EpSize
    BY <1>11, <2>1, <2>3, <2>4, PacketEncoded
  <2>6. (s + EpSize) % U16 = t
    <3>1. \A m \in Nat : m < 65536 => m % 65536 = m
      OBVIOUS
    <3>2. t \in Nat /\ t < 65536
      BY <2>1, <2>3 DEF U8
    <3> QED
      BY <2>3, <3>1, <3>2 DEF U16
  <2> HIDE DEF n
  <2>7. ~transfer_finished(ep["in0"], n)
    BY <1>11, <2>1, <2>3, <2>5, <2>6 DEF transfer_finished
  <2>8. f.actual_len = t
    BY <1>5, <2>3, <2>5, <2>6
  <2> QED
    BY <2>5, <2>7, <2>8 DEF t
<1>13. ep'["in0"] = f
  BY <1>2, <1>4
<1>14. host.stage = "in" => Loaded' /\ ep'["in0"].has_transfer
  <2> SUFFICES ASSUME host.stage = "in" PROVE Loaded' /\ ep'["in0"].has_transfer
    OBVIOUS
  <2>1. /\ ep["in0"].data_id \in {0, 1} /\ DataPid(ep["in0"].data_id) = Other(host.pid)
    BY <1>11 DEF Taken, AtPacket
  <2>2. host.pid \in DataPids
    BY DEF Typed, Hosts
  <2>3. f.data_id \in {0, 1} /\ DataPid(f.data_id) = host.pid
    BY <1>5, <2>1, <2>2, Toggled
  <2>4. Total' = Total /\ Got' = Got
    BY <1>1, SameHost
  <2>5. "in0" \in torn'
    BY <1>4, <1>12
  <2>6. AtPacket(Got + 1, host.pid)'
    BY <1>1, <1>12, <1>13, <2>3, <2>4 DEF AtPacket
  <2> QED
    BY <1>1, <1>5, <1>11, <1>13, <2>4, <2>5, <2>6 DEF Loaded, Awaited
<1>15. CASE Then(<<d>>)
  <2>1. host.stage = "in" =>
          /\ host.got # <<>> => ep'["in0"].has_transfer
          /\ Loaded'
          /\ host.got = <<>> => "complete" \notin root'.ints
          /\ host.got # <<>> /\ "in0" \in root'.ep_continue /\ ~Continuing' => Taken'
          /\ \A p \in Elems(<<d>>) : p.op \notin {"start", "done"} /\ (host.got = <<>> => NotComplete(p))
    BY <1>1, <1>6, <1>8, <1>10, <1>11, <1>14, <1>15 DEF Taken
  <2>2. <<d>> # <<>> => <<d>>[1].op # "continue" /\ (<<d>>[1].op = "encode" => ContinueKept')
    BY <1>6, <1>8, <1>10, <1>15
  <2> QED
    BY <1>1, <1>8, <1>15, <2>1, <2>2, AnswerThen
<1>16. CASE Then(<<a, b, c>>) /\ transfer_finished(ep["in0"], n)
  <2>1. host.stage # "in"
    BY <1>12, <1>16
  <2>2. <<a, b, c>> # <<>> =>
          <<a, b, c>>[1].op # "continue" /\ (<<a, b, c>>[1].op = "encode" => ContinueKept')
    BY <1>6, <1>8
  <2> QED
    BY <1>1, <1>8, <1>16, <2>1, <2>2, AnswerThen
<1> QED
  BY <1>4, <1>15, <1>16

\* The packet is encoded.
LEMMA AnswerEncoded ==
  ASSUME Answerable, Typed, ~polled, ControlInv, AnswerKept, EncodeEnd
  PROVE  AnswerKept'
<1>1. /\ task.todo # <<>> /\ Op.op = "encode" /\ Doing("encode") /\ Then(<<>>)
      /\ UNCHANGED <<host, data, root>>
  BY DEF EncodeEnd, Doing, Op, IsrAside
<1>2. /\ Op \in Ops /\ Op \in Todo /\ Fits(Op, task.pc, task.seen)
      /\ ep["in0"] \in Endpoints /\ "in0" \in Eps
      /\ ep \in [Eps -> Endpoints] /\ task \in Tasks /\ ListOK(task.todo)
  BY <1>1, AccessStart
<1>3. Op.e = "in0"
  <2>1. task.pc \in Pcs
    BY <1>2 DEF Tasks
  <2> QED
    BY <1>1, <1>2, <2>1 DEF Fits, Pcs
<1> DEFINE f == prepare_tx_data(ep["in0"])
<1>4. ep'["in0"] = f
  BY <1>2, <1>3 DEF EncodeEnd
<1>5. /\ f.encoded = [pid |-> DataPid(ep["in0"].data_id), off |-> ep["in0"].actual_len,
                      len |-> transaction_len(ep["in0"])]
      /\ f.data_id = ep["in0"].data_id /\ f.actual_len = ep["in0"].actual_len
      /\ f.total_len = ep["in0"].total_len /\ f.has_transfer = ep["in0"].has_transfer
  BY <1>2, PrepareFields
<1> HIDE DEF f
<1>6. <<>> \in Seq(Ops) /\ ListOK(<<>>) /\ Elems(<<>>) = {}
  BY ShortLists, ElemsOf
<1>7. Continuing'
  <2>1. Todo' = Rest
    BY <1>1, <1>2, <1>6, ThenTyped
  <2> QED
    BY <1>1, <2>1 DEF AnswerKept, ContinueKept, Continuing
<1>8. host.stage = "in" => host.got # <<>>
  BY <1>1, <1>2 DEF ControlInv, VirginKept, Virgin, Calm
<1>9. host.stage = "in" =>
        /\ Sent(Got + 1) < Total /\ ep["in0"].has_transfer
        /\ data["in0"] = host.request.kind /\ ep["in0"].total_len = Total /\ (Taken \/ Awaited)
  BY <1>8 DEF AnswerKept, More, Loaded
<1>10. Total' = Total /\ Got' = Got /\ \A n : PacketLen(n)' = PacketLen(n)
  BY <1>1, SameHost
<1>11. \A n, pid : AtPacket(n, pid)' <=> AtPacket(n, pid)
  BY <1>4, <1>5 DEF AtPacket
<1>12. Taken => Taken'
  BY <1>1, <1>4, <1>5, <1>10, <1>11 DEF Taken, AtPacket
<1>13. host.stage = "in" /\ Awaited => Awaited'
  <2> SUFFICES ASSUME host.stage = "in", Awaited PROVE Awaited'
    OBVIOUS
  <2>1. Total \in Nat /\ Total < U8 /\ ep["in0"].size = EpSize
    BY TotalFits DEF ControlInv, AddressKept
  <2>2. Got \in Nat
    <3>1. host.got \in Seq([data : Sources, off : Nat, len : Nat])
      BY DEF Typed, Hosts
    <3> QED
      BY <3>1, LenProperties DEF Got
  <2> DEFINE t == Sent(Got + 1)
  <2>3. t \in Nat /\ t <= Total /\ ep["in0"].actual_len = t /\ ep["in0"].total_len = Total
    BY <1>9, <2>1, <2>2, SentNext DEF Awaited, AtPacket
  <2> HIDE DEF t
  <2>4. transaction_len(ep["in0"]) = IF Total - t < EpSize THEN Total - t ELSE EpSize
    BY <2>1, <2>3, PacketEncoded
  <2>5. transaction_len(ep["in0"]) = PacketLen(Got + 1)
    BY <2>4 DEF PacketLen, t
  <2>6. f.encoded = [pid |-> host.pid, off |-> Sent(Got + 1), len |-> PacketLen(Got + 1)]
    BY <1>5, <2>3, <2>5 DEF Awaited, AtPacket, t
  <2> QED
    BY <1>1, <1>4, <1>10, <1>11, <2>6 DEF Awaited
<1>14. host.stage = "in" =>
        /\ host.got # <<>> => ep'["in0"].has_transfer
        /\ Loaded'
        /\ host.got = <<>> => "complete" \notin root'.ints
        /\ host.got # <<>> /\ "in0" \in root'.ep_continue /\ ~Continuing' => Taken'
  BY <1>1, <1>4, <1>5, <1>7, <1>8, <1>9, <1>10, <1>12, <1>13 DEF Loaded
<1> QED
  BY <1>1, <1>6, <1>14, AnswerThen

\* The transfer is over: not while the host waits for more.
LEMMA AnswerDone ==
  ASSUME Typed, AnswerKept, TransferDone
  PROVE  AnswerKept'
<1>1. task.todo # <<>> /\ Op.op = "done" /\ Then(<<>>) /\ host' = host
  BY DEF TransferDone, Doing, Op, IsrAside
<1>2. Op \in Todo
  BY <1>1, HeadOp DEF Typed
<1>3. host.stage # "in"
  BY <1>1, <1>2 DEF AnswerKept, Settled
<1>4. <<>> \in Seq(Ops) /\ ListOK(<<>>)
  BY ShortLists
<1> QED
  BY <1>1, <1>3, <1>4, AnswerThen

\* The task goes on to its next call, and the accesses of the call keep the invariant.
LEMMA AnswerGoOn ==
  ASSUME Typed, AnswerKept, task.todo = <<>>, NEW pc \in Pcs, NEW ops \in Seq(Ops), ListOK(ops),
         GoOn(pc, ops), UNCHANGED <<root, host, data, torn>>, ep'["in0"] = ep["in0"],
         pc \in {"setup", "complete", "in0", "in1", "clear"} => InHandler,
         \A o \in Elems(ops) :
           /\ o.op \notin {"publish", "encode", "done"}
           /\ host.stage = "in" /\ host.got = <<>> => NotComplete(o) /\ Answers(o),
         ops # <<>> /\ Head(ops).op = "continue" =>
           /\ host.stage = "in" => Taken
           /\ \E o \in Elems(Tail(ops)) : o.op = "load" /\ o.field = "ep_continue"
  PROVE  AnswerKept'
<1>1. task'.pc = pc /\ task'.seen = task.seen /\ task'.todo = ops /\ Todo' = Elems(ops)
  BY GoOnTyped DEF Typed
<1>2. ops # <<>> => Head(ops) \in Elems(ops)
  BY ElemsParts
<1>3. ~Doing("encode")' /\ ~Publishing("in0")' /\ (Doing("continue")' => ops # <<>> /\ Head(ops).op = "continue")
  BY <1>1, <1>2 DEF Doing, Op, Publishing
<1>4. ContinueKept'
  BY <1>1, <1>3 DEF ContinueKept, Rest
<1>5. Total' = Total /\ Got' = Got /\ GotRight'
  BY SameHost DEF AnswerKept
<1>6. (Taken' <=> Taken) /\ (Awaited' <=> Awaited)
  BY SamePacket
<1>7. ASSUME host.stage = "in" PROVE More' /\ Loaded' /\ Fresh' /\ Settled'
  <2>1. More' /\ Loaded'
    BY <1>3, <1>5, <1>6, <1>7 DEF AnswerKept, More, Loaded
  <2>2. Fresh'
    <3>1. InHandler' => InHandler
      BY <1>1 DEF InHandler
    <3>2. \A o : Answers(o)' <=> Answers(o)
      BY <1>5 DEF Answers
    <3> QED
      BY <1>1, <1>7, <3>1, <3>2 DEF AnswerKept, Fresh, NotComplete, StoreInts
  <2>3. ~Continuing
    BY NothingToDo DEF Continuing
  <2>4. Settled'
    BY <1>1, <1>3, <1>6, <1>7, <2>3 DEF AnswerKept, Settled
  <2> QED
    BY <2>1, <2>2, <2>4
<1> QED
  BY <1>4, <1>5, <1>7 DEF AnswerKept

\* The handler is called with no completion while the host has no packet.
LEMMA AnswerPoll ==
  ASSUME Typed, AnswerKept, TaskPoll
  PROVE  AnswerKept'
<1>1. /\ task.todo = <<>> /\ UNCHANGED <<root, host, data, torn, ep>>
      /\ task' = [task EXCEPT !.pc = IF root.ints = {} THEN "desc" ELSE "setup", !.seen = root.ints]
  BY DEF TaskPoll, At, IsrAside
<1>2. task'.seen = root.ints /\ task'.todo = <<>>
  BY <1>1 DEF Typed, Tasks
<1>3. Todo' = {} /\ ~Publishing("in0")' /\ ~Doing("continue")' /\ ~Doing("encode")'
  BY <1>2, ElemsOf DEF Todo, Publishing, Doing
<1>4. ContinueKept' /\ GotRight' /\ Total' = Total /\ Got' = Got
  BY <1>1, <1>3, SameHost DEF AnswerKept, ContinueKept
<1>5. (Taken' <=> Taken) /\ (Awaited' <=> Awaited) /\ ~Continuing
  BY <1>1, SamePacket, NothingToDo DEF Continuing
<1>6. ASSUME host.stage = "in" PROVE More' /\ Loaded' /\ Fresh' /\ Settled'
  <2>1. More' /\ Loaded'
    BY <1>1, <1>3, <1>4, <1>5, <1>6 DEF AnswerKept, More, Loaded
  <2>2. Fresh'
    BY <1>1, <1>2, <1>3, <1>6 DEF AnswerKept, Fresh
  <2>3. Settled'
    BY <1>1, <1>3, <1>5, <1>6 DEF AnswerKept, Settled
  <2> QED
    BY <2>1, <2>2, <2>3
<1> QED
  BY <1>1, <1>4, <1>6 DEF AnswerKept

\* What prepare_ep0_data starts for the descriptor asked for is its transfer.
LEMMA PrepareAnswers ==
  ASSUME Total \in Nat, Total < U8
  PROVE  \A o \in Elems(PrepareData(host.request.kind, Total)) : Answers(o)
<1> DEFINE d == host.request.kind
           a == Start("in0", d, Total)
           b == Start("out0", "none", 0)
<1>1. Total % U8 = Total
  <2>1. \A m \in Nat : m < 256 => m % 256 = m
    OBVIOUS
  <2> QED
    BY <2>1 DEF U8
<1>2. Answers(a) /\ Answers(b)
  BY DEF Answers, Start
<1>3. PrepareData(d, Total) = IF Total = 0 THEN <<a>> ELSE <<a, b>>
  BY <1>1 DEF PrepareData
<1> HIDE DEF a, b, d
<1>4. Elems(<<a>>) = {a} /\ Elems(<<a, b>>) = {a, b}
  BY ElemsOf
<1> QED
  BY <1>2, <1>3, <1>4 DEF d

\* What is started for a SETUP packet.
LEMMA AnswerSetup ==
  ASSUME Answerable, Typed, ~polled, ControlInv, AnswerKept, HandleSetup
  PROVE  AnswerKept'
<1> DEFINE r == IF "setup" \in task.seen THEN setup_packet ELSE None
<1>1. /\ At("setup") /\ task.pc = "setup" /\ task.todo = <<>>
      /\ GoOn("complete", SetupTransfers(r))
      /\ UNCHANGED <<root, host, data, torn>> /\ ep'["in0"] = ep["in0"]
  BY DEF HandleSetup, At, IsrAside, Typed, TypeOK, Eps
<1>2. /\ SetupTransfers(r) \in Seq(Ops) /\ ListOK(SetupTransfers(r))
      /\ \A o \in Elems(SetupTransfers(r)) : o.op = "start"
  <2>1. r \in Packets
    <3>1. None \in Packets
      BY DEF None, Packets, U16
    <3> QED
      BY <3>1 DEF Typed
  <2> QED
    BY <2>1, CallsTyped
<1>3. host.stage = "in" => \A o \in Elems(SetupTransfers(r)) : Answers(o)
  <2> SUFFICES ASSUME host.stage = "in" PROVE \A o \in Elems(SetupTransfers(r)) : Answers(o)
    OBVIOUS
  <2>1. /\ Total \in Nat /\ Total < U8
        /\ host.request \in Requests[FALSE] /\ host.request.kind \in InKinds
    BY TotalFits
  <2>2. r = host.request \/ r = None
    BY <1>1, HandleSetupSeen DEF Away
  <2>3. CASE r = host.request /\ r.kind = "device"
    <3>1. r.len >= DescLen["device"]
      BY <2>1, <2>3 DEF Answerable
    <3>2. r.len \in Nat /\ DescLen["device"] \in Nat
      BY <2>1, <2>3, TotalFits, DeviceAssumption DEF InKinds
    <3>3. Total = DescLen["device"]
      BY <2>3, <3>1, <3>2 DEF Total, DescLenOf
    <3>4. SetupTransfers(r) = PrepareData(host.request.kind, Total)
      BY <2>3, <3>3 DEF SetupTransfers
    <3> QED
      BY <2>1, <3>4, PrepareAnswers
  <2>4. CASE r = None \/ r.kind = "config"
    <3>1. SetupTransfers(r) = <<>>
      BY <2>4 DEF SetupTransfers, None
    <3> QED
      BY <3>1, ElemsOf
  <2> QED
    BY <2>1, <2>2, <2>3, <2>4 DEF InKinds
<1>4. "complete" \in Pcs /\ InHandler
  BY <1>1 DEF Pcs, InHandler
<1> HIDE DEF r
<1> DEFINE ops == SetupTransfers(r)
<1>5. ops # <<>> => Head(ops) \in Elems(ops)
  BY <1>2, ElemsParts
<1>6. \A o \in Elems(ops) :
        /\ o.op \notin {"publish", "encode", "done"}
        /\ host.stage = "in" /\ host.got = <<>> => NotComplete(o) /\ Answers(o)
  BY <1>2, <1>3 DEF NotComplete, StoreInts
<1>7. ~(ops # <<>> /\ Head(ops).op = "continue")
  BY <1>2, <1>5
<1> HIDE DEF ops
<1> QED
  BY <1>1, <1>2, <1>4, <1>6, <1>7, AnswerGoOn DEF ops

\* There is nothing to complete before the host has its first packet.
LEMMA AnswerComplete ==
  ASSUME Typed, AnswerKept, HandleComplete
  PROVE  AnswerKept'
<1>1. PICK ops \in Seq(Ops) :
        /\ ListOK(ops) /\ GoOn("in0", ops)
        /\ \A o \in Elems(ops) :
             \/ o.op = "start" /\ o.e = "in0"
             \/ o.op = "load" /\ o.field = "ep_complete"
        /\ "complete" \notin task.seen => ops = <<>>
  BY CompleteList
<1>2. /\ task.pc = "complete" /\ task.todo = <<>> /\ UNCHANGED <<root, host, data, torn, ep>>
  BY DEF HandleComplete, At, IsrAside
<1>3. "in0" \in Pcs /\ InHandler
  BY <1>2 DEF Pcs, InHandler
<1>4. host.stage = "in" /\ host.got = <<>> => ops = <<>>
  BY <1>1, <1>3 DEF AnswerKept, Fresh
<1>5. Elems(<<>>) = {}
  BY ElemsOf
<1>6. \A o \in Elems(ops) :
        /\ o.op \notin {"publish", "encode", "done"}
        /\ host.stage = "in" /\ host.got = <<>> => NotComplete(o) /\ Answers(o)
  BY <1>1, <1>4, <1>5
<1>7. ~(ops # <<>> /\ Head(ops).op = "continue")
  BY <1>1, ElemsParts
<1> QED
  BY <1>1, <1>2, <1>3, <1>6, <1>7, AnswerGoOn

\* A CONTINUE that is handled is for the packet the host took last.
LEMMA AnswerHandleContinue ==
  ASSUME Typed, ControlInv, AnswerKept, HandleContinue
  PROVE  AnswerKept'
<1>1. /\ task.pc \in {"in0", "in1"} /\ task.todo = <<>> /\ UNCHANGED <<root, host, data, torn, ep>>
  BY DEF HandleContinue, At, IsrAside
<1>2. "in1" \in Pcs /\ "clear" \in Pcs /\ InHandler
  BY <1>1 DEF Pcs, InHandler
<1>3. Elems(<<>>) = {} /\ <<>> \in Seq(Ops) /\ ListOK(<<>>)
  BY ElemsOf, ShortLists
<1>4. CASE GoOn("in1", <<>>) \/ GoOn("clear", <<>>)
  BY <1>1, <1>2, <1>3, <1>4, AnswerGoOn
<1> DEFINE a == [op |-> "continue", e |-> "in0"]
           b == Rmw("ep_continue", {}, {"in0"})
<1>5. CASE GoOn("in1", <<a, b>>) /\ "continue" \in task.seen /\ "in0" \in root.ep_continue
  <2>1. a.op = "continue"
    OBVIOUS
  <2>2. b.op = "load" /\ b.field = "ep_continue" /\ NoHead(b)
    BY DEF Rmw, NoHead
  <2>3. a \in Ops /\ b \in Ops
    <3>1. {} \in SUBSET {"in0", "in1"} /\ {"in0"} \in SUBSET {"in0", "in1"}
      OBVIOUS
    <3> QED
      BY <3>1, OpsMade
  <2> HIDE DEF a, b
  <2>4. Elems(<<a, b>>) = {a, b} /\ <<a, b>> \in Seq(Ops) /\ ListOK(<<a, b>>)
    BY <2>2, <2>3, ElemsOf, ShortLists
  <2>5. b \in Elems(Tail(<<a, b>>))
    <3>1. Len(<<a, b>>) = 2 /\ <<a, b>>[2] = b /\ <<a, b>> # <<>>
      OBVIOUS
    <3>2. Len(Tail(<<a, b>>)) = 1 /\ Tail(<<a, b>>)[1] = b
      BY <2>4, <3>1, HeadTailProperties
    <3> QED
      BY <3>2 DEF Elems
  <2>6. host.stage = "in" => host.got # <<>> /\ Taken
    <3>1. host.stage = "in" => host.got # <<>>
      BY <1>2, <1>5 DEF ControlInv, VirginKept, Virgin
    <3>2. ~Continuing
      BY <1>1, NothingToDo DEF Continuing
    <3> QED
      BY <1>5, <3>1, <3>2 DEF AnswerKept, Settled
  <2>7. \A o \in Elems(<<a, b>>) :
          /\ o.op \notin {"publish", "encode", "done"}
          /\ host.stage = "in" /\ host.got = <<>> => NotComplete(o) /\ Answers(o)
    BY <2>1, <2>2, <2>4, <2>6
  <2> QED
    BY <1>1, <1>2, <1>5, <2>2, <2>4, <2>5, <2>6, <2>7, AnswerGoOn
<1> QED
  BY <1>4, <1>5, ContinueList

\* The end of the handler clears bits.
LEMMA AnswerHandlerEnd ==
  ASSUME Typed, AnswerKept, HandlerEnd
  PROVE  AnswerKept'
<1> DEFINE a == Rmw("ints", {}, task.seen)
<1>1. /\ task.pc = "clear" /\ task.todo = <<>> /\ GoOn("desc", <<a>>)
      /\ UNCHANGED <<root, host, data, torn, ep>>
  BY DEF HandlerEnd, At, IsrAside
<1>2. "desc" \in Pcs
  BY DEF Pcs
<1>3. a.op = "load" /\ a.add = {}
  BY DEF Rmw
<1>4. a \in Ops
  <2>1. task.seen \in SUBSET DeviceInts /\ {} \in SUBSET DeviceInts
    BY DEF Typed, Tasks
  <2> QED
    BY <2>1, OpsMade
<1> HIDE DEF a
<1>5. /\ Elems(<<a>>) = {a} /\ <<a>> \in Seq(Ops) /\ ListOK(<<a>>)
  BY <1>4, ElemsOf, ShortLists
<1>6. \A o \in Elems(<<a>>) :
        /\ o.op \notin {"publish", "encode", "done"}
        /\ host.stage = "in" /\ host.got = <<>> => NotComplete(o) /\ Answers(o)
  BY <1>3, <1>5 DEF NotComplete, Answers, StoreInts
<1>7. ~(<<a>> # <<>> /\ Head(<<a>>).op = "continue")
  BY <1>3
<1> QED
  BY <1>1, <1>2, <1>5, <1>6, <1>7, AnswerGoOn

\* What is started for a descriptor the task was asked for.
LEMMA AnswerDesc ==
  ASSUME Answerable, Typed, ControlInv, AnswerKept, TaskDesc
  PROVE  AnswerKept'
<1> DEFINE len == DescLen["config"]
           n == IF desc_request.len > len THEN len ELSE desc_request.len
           ops == IF desc_request = None THEN <<>> ELSE PrepareData("config", n)
<1>1. task.pc = "desc" /\ task.todo = <<>> /\ UNCHANGED <<root, host, data, torn, ep>>
  BY DEF TaskDesc, At, IsrAside
<1>2. ops \in Seq(Ops) /\ ListOK(ops) /\ GoOn("line", ops) /\ \A o \in Elems(ops) : o.op = "start"
  BY DescList
<1>3. host.stage = "in" => \A o \in Elems(ops) : Answers(o)
  <2> SUFFICES ASSUME host.stage = "in" PROVE \A o \in Elems(ops) : Answers(o)
    OBVIOUS
  <2>1. CASE desc_request = None
    BY <2>1, ElemsOf
  <2>2. CASE desc_request # None
    <3>1. desc_request = host.request /\ host.request.kind = "config"
      BY <2>2 DEF ControlInv, StageKept, Away
    <3>2. Total \in Nat /\ Total < U8 /\ host.request.len \in Nat
      BY TotalFits
    <3>3. len \in Nat
      BY DeviceAssumption DEF InKinds
    <3>4. n = Total
      BY <3>1, <3>2, <3>3 DEF Total, DescLenOf
    <3>5. ops = PrepareData(host.request.kind, Total)
      BY <2>2, <3>1, <3>4
    <3> HIDE DEF ops
    <3> QED
      BY <3>2, <3>5, PrepareAnswers
  <2> QED
    BY <2>1, <2>2
<1> HIDE DEF ops
<1>4. "line" \in Pcs
  BY DEF Pcs
<1>5. \A o \in Elems(ops) :
        /\ o.op \notin {"publish", "encode", "done"}
        /\ host.stage = "in" /\ host.got = <<>> => NotComplete(o) /\ Answers(o)
  BY <1>2, <1>3 DEF NotComplete, StoreInts
<1>6. ~(ops # <<>> /\ Head(ops).op = "continue")
  BY <1>2, ElemsParts
<1> QED
  BY <1>1, <1>2, <1>4, <1>5, <1>6, AnswerGoOn

\* A bus that is not reset.
LEMMA AnswerLineIdle ==
  ASSUME Typed, AnswerKept, LineIdle
  PROVE  AnswerKept'
<1>1. /\ task.pc = "line" /\ task.todo = <<>> /\ GoOn("poll", <<>>)
      /\ UNCHANGED <<root, host, data, torn, ep>>
  BY DEF LineIdle, At, IsrAside
<1>2. "poll" \in Pcs
  BY DEF Pcs
<1>3. Elems(<<>>) = {} /\ <<>> \in Seq(Ops) /\ ListOK(<<>>)
  BY ElemsOf, ShortLists
<1> QED
  BY <1>1, <1>2, <1>3, AnswerGoOn

\* A bus reset ends the transfer.
LEMMA AnswerBusReset ==
  ASSUME Typed, BusReset
  PROVE  AnswerKept'
<1> DEFINE a == Rmw("ints", {"reset"}, {})
<1>1. GoOn("poll", <<a>>) /\ host'.stage = "idle" /\ a.op = "load"
  BY DEF BusReset, Typed, Hosts, Rmw
<1> HIDE DEF a
<1>2. task'.todo = <<a>>
  BY <1>1 DEF GoOn, Typed, Tasks
<1>3. ~Doing("continue")' /\ ~Doing("encode")'
  BY <1>1, <1>2 DEF Doing
<1> QED
  BY <1>1, <1>3 DEF AnswerKept, ContinueKept, GotRight

\* SETUP starts a transfer of which the device knows nothing yet.
LEMMA AnswerSetupIsr ==
  ASSUME Typed, Patient, NEW r \in Requests[FALSE], IsrSetup(r)
  PROVE  AnswerKept'
<1>1. /\ task'.todo = <<>> /\ root'.ints = {"setup"} /\ host'.got = <<>>
      /\ host'.stage = FirstStage(r) /\ Todo' = {} /\ ~InHandler' /\ ~Publishing("in0")'
      /\ ~ep'["in0"].has_transfer
  BY SetupFacts
<1>2. ~Doing("continue")' /\ ~Doing("encode")'
  BY <1>1 DEF Doing
<1>3. ContinueKept' /\ GotRight'
  <2>1. FirstStage(r) # "status_out"
    BY DEF FirstStage
  <2>2. Got' = 0 /\ \A i \in 1 .. 0 : FALSE
    BY <1>1 DEF Got
  <2> QED
    BY <1>1, <1>2, <2>1, <2>2 DEF ContinueKept, GotRight
<1>4. More' /\ Loaded' /\ Fresh' /\ Settled'
  BY <1>1, <1>2 DEF More, Loaded, Fresh, Settled
<1> QED
  BY <1>3, <1>4 DEF AnswerKept

\* A packet the host takes is the next of the descriptor's.
LEMMA PacketTaken ==
  ASSUME Answerable, Typed, ControlInv, AnswerKept, host.stage = "in",
         data["in0"] = host.request.kind, Awaited, "in0" \notin torn,
         NEW h, h = [host EXCEPT !.got = Append(@, Packet("in0")), !.pid = Other(@),
                                 !.stage = IF Packet("in0").len < EpSize
                                             \/ Packet("in0").off + Packet("in0").len >= Wanted
                                           THEN "status_out" ELSE "in"],
         host' = h, ep' = ep
  PROVE  GotRight' /\ (h.stage = "in" => Sent(Got' + 1) < Total' /\ Taken')
         /\ h.got # <<>> /\ h.stage \in {"in", "status_out"}
<1> DEFINE p == Packet("in0")
           g == Got
           t == Total
           s == Sent(g + 1)
<1>1. host \in Hosts /\ host.got \in Seq([data : Sources, off : Nat, len : Nat]) /\ host.pid \in DataPids
  BY DEF Typed, Hosts
<1>2. /\ t \in Nat /\ host.request \in Requests[FALSE] /\ host.request.kind \in InKinds
      /\ host.request.len \in Nat
      /\ t = host.request.len \/ t = DescLen[host.request.kind]
      /\ t <= host.request.len /\ DescLen[host.request.kind] \in Nat
  BY TotalFits, DeviceAssumption
<1>3. g \in Nat /\ (host.got = <<>> <=> g = 0)
  BY <1>1, LenProperties, EmptySeq DEF Got
<1>4. EpSize \in Nat \ {0}
  BY DeviceAssumption
<1>5. s \in Nat /\ Sent(g + 1 + 1) = s + EpSize /\ Sent(g + 1 + 1) = (g + 1) * EpSize
  <2>1. g + 1 \in Nat
    BY <1>3
  <2> QED
    BY <1>3, <2>1, SentNext
<1>6. s <= t
  <2>1. CASE g = 0
    BY <1>2, <2>1, SentNext
  <2>2. CASE g # 0
    BY <1>2, <1>3, <1>5, <2>2 DEF AnswerKept, More
  <2> QED
    BY <2>1, <2>2
<1>7. p.data = host.request.kind /\ p.off = s /\ p.len = PacketLen(g + 1)
  BY DEF Packet, Awaited
<1>8. PacketLen(g + 1) = IF t - s < EpSize THEN t - s ELSE EpSize
  BY DEF PacketLen
<1> HIDE DEF p
<1>9. /\ h.got = Append(host.got, p) /\ h.pid = Other(host.pid) /\ h.request = host.request
      /\ h.stage = (IF p.len < EpSize \/ p.off + p.len >= Wanted THEN "status_out" ELSE "in")
  BY <1>1 DEF Hosts, p
<1>10. /\ Len(h.got) = g + 1 /\ h.got[g + 1] = p /\ h.got # <<>>
       /\ \A i \in 1 .. g : h.got[i] = host.got[i]
  <2> DEFINE S == [data : Sources, off : Nat, len : Nat]
  <2>1. host.got \in Seq(S) /\ p \in S
    <3>1. p.off \in Nat /\ p.len \in Nat
      BY <1>2, <1>4, <1>5, <1>6, <1>7, <1>8
    <3>2. p = [data |-> data["in0"], off |-> p.off, len |-> p.len] /\ data["in0"] \in Sources
      BY DEF p, Packet, Typed, Eps
    <3> QED
      BY <1>1, <3>1, <3>2
  <2> HIDE DEF S
  <2>2. /\ h.got \in Seq(S) /\ Len(h.got) = Len(host.got) + 1
        /\ \A i \in 1 .. Len(host.got) : h.got[i] = host.got[i]
        /\ h.got[Len(host.got) + 1] = p
    BY <1>9, <2>1, AppendProperties
  <2>3. h.got # <<>>
    <3>1. Len(h.got) # 0
      BY <1>3, <2>2 DEF Got
    <3> QED
      BY <2>2, <3>1, EmptySeq
  <2> QED
    BY <2>2, <2>3 DEF Got
<1>11. Got' = g + 1 /\ Total' = t /\ \A n : PacketLen(n)' = PacketLen(n)
  BY <1>9, <1>10 DEF Got, Total, PacketLen
<1>12. GotRight'
  <2>1. \A i \in 1 .. g + 1 :
          h.got[i].data = h.request.kind /\ h.got[i].off = Sent(i) /\ h.got[i].len = PacketLen(i)
    <3> TAKE i \in 1 .. g + 1
    <3>1. CASE i = g + 1
      BY <1>7, <1>9, <1>10, <3>1
    <3>2. CASE i \in 1 .. g
      BY <1>9, <1>10, <3>2 DEF AnswerKept, GotRight
    <3>3. i = g + 1 \/ i \in 1 .. g
      BY <1>3
    <3> QED
      BY <3>1, <3>2, <3>3
  <2>2. h.stage = "status_out" => s + EpSize >= t
    <3>1. CASE t - s < EpSize
      BY <1>2, <1>4, <1>5, <3>1
    <3>2. CASE ~(t - s < EpSize)
      <4>1. p.len = EpSize
        BY <1>7, <1>8, <3>2
      <4>2. h.stage = "status_out" => s + EpSize >= host.request.len
        BY <1>4, <1>7, <1>9, <4>1 DEF Wanted
      <4> QED
        BY <1>2, <1>4, <1>5, <4>2
    <3> QED
      BY <3>1, <3>2
  <2> QED
    BY <1>11, <2>1, <2>2 DEF GotRight
<1>13. ASSUME h.stage = "in" PROVE Sent(g + 1 + 1) < t
  <2>1. ~(p.len < EpSize) /\ ~(p.off + p.len >= Wanted)
    BY <1>9, <1>13
  <2>2. p.len = EpSize /\ ~(t - s < EpSize)
    BY <1>2, <1>4, <1>5, <1>7, <1>8, <2>1
  <2>3. s + EpSize <= t /\ s + EpSize < host.request.len
    BY <1>2, <1>4, <1>5, <1>7, <2>1, <2>2 DEF Wanted
  <2>4. s + EpSize # t
    <3> SUFFICES ASSUME s + EpSize = t PROVE FALSE
      OBVIOUS
    <3>1. t = DescLen[host.request.kind] /\ host.request.len > DescLen[host.request.kind]
      BY <1>2, <2>3
    <3>2. DescLen[host.request.kind] = (g + 1) * EpSize
      BY <1>5, <3>1
    <3>3. g + 1 \in 1 .. (g + 1) * EpSize
      <4>1. (g + 1) * EpSize = (g + 1) * (EpSize - 1) + (g + 1) /\ (g + 1) * (EpSize - 1) \in Nat
        BY <1>3, <1>4
      <4> QED
        BY <1>3, <4>1
    <3> QED
      BY <1>2, <3>1, <3>2, <3>3 DEF Answerable
  <2> QED
    BY <1>2, <1>4, <1>5, <2>3, <2>4
<1>14. Taken'
  <2>1. Other(Other(host.pid)) = host.pid
    BY <1>1, Toggled
  <2>2. /\ ep'["in0"].actual_len = Sent(g + 1) /\ ep'["in0"].data_id \in {0, 1}
        /\ DataPid(ep'["in0"].data_id) = host.pid /\ ep'["in0"].encoded.pid = host.pid
    BY DEF Awaited, AtPacket
  <2> QED
    BY <1>9, <1>10, <1>11, <2>1, <2>2 DEF Taken, AtPacket
<1> QED
  BY <1>9, <1>10, <1>11, <1>12, <1>13, <1>14

\* IN to endpoint 0.
LEMMA AnswerIn0 ==
  ASSUME Answerable, Typed, ControlInv, AnswerKept, IsrIn0
  PROVE  AnswerKept'
<1>1. /\ task' = task /\ ep' = ep /\ data' = data /\ torn' = torn
      /\ host.stage \in {"in", "status_in"} /\ ep["in0"].has_transfer /\ HostTakes("in0")
  BY DEF IsrIn0, TaskAside
<1>2. /\ root'.ints = root.ints \cup {"continue"}
  <2>1. root' = Flagged("in0") \/ root' = [Flagged("in0") EXCEPT !.dev_addr = new_devaddr]
    BY DEF IsrIn0
  <2> QED
    BY <2>1 DEF Flagged, Typed, Roots
<1>3. /\ Todo' = Todo /\ Rest' = Rest /\ (InHandler' <=> InHandler)
      /\ \A x : Doing(x)' <=> Doing(x)
      /\ Publishing("in0")' <=> Publishing("in0")
  BY <1>1, AsideFrame
<1>4. ContinueKept'
  BY <1>3 DEF AnswerKept, ContinueKept
<1>5. CASE host.stage = "status_in"
  <2>1. "in0" \notin torn /\ ep["in0"].encoded.pid = host.pid
    BY <1>1, <1>5, VirginWhole DEF Virgin
  <2>2. host'.stage = "idle"
    BY <1>1, <1>5, <2>1 DEF HostTakes, Typed, Hosts
  <2> QED
    BY <1>4, <2>2 DEF AnswerKept, GotRight
<1>6. CASE host.stage = "in"
  <2>1. data["in0"] = host.request.kind /\ ep["in0"].total_len = Total /\ (Taken \/ Awaited)
    BY <1>1, <1>6 DEF AnswerKept, Loaded
  <2>2. host.pid \in DataPids
    BY DEF Typed, Hosts
  <2>3. CASE "in0" \in torn \/ ep["in0"].encoded.pid # host.pid
    <3>1. host' = host
      BY <1>1, <2>3 DEF HostTakes
    <3>2. (Taken' <=> Taken) /\ (Awaited' <=> Awaited) /\ Total' = Total /\ Got' = Got /\ GotRight'
      BY <1>1, <3>1, SamePacket, SameHost DEF AnswerKept
    <3>3. ~Continuing' => Taken'
      <4>1. Continuing' <=> Continuing
        BY <1>3 DEF Continuing
      <4>2. CASE "in0" \in torn
        <5>1. Doing("encode") /\ Todo = {Op} \cup Rest
          BY <4>2, HeadOp DEF Typed, TypeOK, Doing
        <5>2. Continuing
          BY <5>1 DEF AnswerKept, ContinueKept, Continuing
        <5> QED
          BY <4>1, <5>2
      <4>3. CASE "in0" \notin torn
        BY <2>1, <2>3, <3>2, <4>3 DEF Awaited
      <4> QED
        BY <4>2, <4>3
    <3>4. More' /\ Loaded'
      BY <1>1, <1>3, <1>6, <2>1, <3>1, <3>2 DEF AnswerKept, More, Loaded
    <3>5. Fresh'
      <4>1. \A o : Answers(o)' <=> Answers(o)
        BY <3>1, <3>2 DEF Answers
      <4> QED
        BY <1>1, <1>2, <1>3, <1>6, <3>1, <4>1 DEF AnswerKept, Fresh, NotComplete, StoreInts
    <3>6. Settled'
      BY <1>3, <1>6, <3>1, <3>2, <3>3 DEF AnswerKept, Settled
    <3> QED
      BY <1>4, <3>2, <3>4, <3>5, <3>6 DEF AnswerKept
  <2>4. CASE "in0" \notin torn /\ ep["in0"].encoded.pid = host.pid
    <3>1. Awaited
      BY <2>1, <2>2, <2>4, Toggled DEF Taken
    <3> DEFINE h == [host EXCEPT !.got = Append(@, Packet("in0")), !.pid = Other(@),
                                 !.stage = IF Packet("in0").len < EpSize
                                             \/ Packet("in0").off + Packet("in0").len >= Wanted
                                           THEN "status_out" ELSE "in"]
    <3>2. host' = h
      BY <1>1, <1>6, <2>4 DEF HostTakes
    <3>3. /\ GotRight' /\ (h.stage = "in" => Sent(Got' + 1) < Total' /\ Taken')
          /\ h.got # <<>> /\ h.stage \in {"in", "status_out"}
      BY <1>1, <1>6, <2>1, <2>4, <3>1, <3>2, PacketTaken
    <3> HIDE DEF h
    <3>4. h.request = host.request
      BY <3>2 DEF h, Typed, Hosts
    <3>5. Total' = Total
      BY <3>2, <3>4 DEF Total
    <3>6. ASSUME host'.stage = "in" PROVE More' /\ Loaded' /\ Fresh' /\ Settled'
      BY <1>1, <1>3, <1>6, <2>1, <3>2, <3>3, <3>4, <3>5, <3>6
         DEF AnswerKept, More, Loaded, Fresh, Settled
    <3> QED
      BY <1>4, <3>3, <3>6 DEF AnswerKept
  <2> QED
    BY <2>3, <2>4
<1> QED
  BY <1>1, <1>5, <1>6

\* OUT to endpoint 0.
LEMMA AnswerOut0 ==
  ASSUME Typed, AnswerKept, IsrOut0
  PROVE  AnswerKept'
<1>1. task' = task /\ host.stage \in {"out", "status_out"}
      /\ (host' = host \/ host'.stage \in {"status_in", "idle"})
  BY DEF IsrOut0, TaskAside, Typed, Hosts
<1>2. ContinueKept'
  BY <1>1, AsideFrame DEF AnswerKept, ContinueKept
<1>3. GotRight'
  BY <1>1, SameHost DEF AnswerKept, GotRight
<1> QED
  BY <1>1, <1>2, <1>3 DEF AnswerKept

\* The host drives SE0.
LEMMA AnswerReset ==
  ASSUME Typed, AnswerKept, HostReset
  PROVE  AnswerKept'
<1>1. task' = task /\ host'.stage = "reset"
  BY DEF HostReset, TaskAside, Typed, Hosts
<1>2. ContinueKept'
  BY <1>1, AsideFrame DEF AnswerKept, ContinueKept
<1> QED
  BY <1>1, <1>2 DEF AnswerKept, GotRight

\* A step that changes nothing.
LEMMA AnswerStutter ==
  ASSUME AnswerKept, UNCHANGED vars
  PROVE  AnswerKept'
<1>1. UNCHANGED <<task, host, torn, ep, root, data>>
  BY DEF vars
<1>2. /\ Todo' = Todo /\ Rest' = Rest /\ (InHandler' <=> InHandler)
      /\ \A x : Doing(x)' <=> Doing(x)
      /\ Publishing("in0")' <=> Publishing("in0")
  BY <1>1, AsideFrame
<1>3. (Taken' <=> Taken) /\ (Awaited' <=> Awaited) /\ Total' = Total /\ Got' = Got /\ GotRight'
  BY <1>1, SamePacket, SameHost DEF AnswerKept
<1>4. ContinueKept' /\ (Continuing' <=> Continuing)
  BY <1>2 DEF AnswerKept, ContinueKept, Continuing
<1>5. host.stage = "in" => More' /\ Loaded'
  BY <1>1, <1>2, <1>3 DEF AnswerKept, More, Loaded
<1>6. host.stage = "in" => Fresh' /\ Settled'
  <2>1. \A o : Answers(o)' <=> Answers(o)
    BY <1>1, <1>3 DEF Answers
  <2> QED
    BY <1>1, <1>2, <1>3, <1>4, <2>1 DEF AnswerKept, Fresh, Settled
<1> QED
  BY <1>1, <1>3, <1>4, <1>5, <1>6 DEF AnswerKept

\* Every step keeps it.
LEMMA AnswerStep ==
  ASSUME Answerable, Patient, Typed, PatientInv, AnswerInv, [Next]_vars
  PROVE  AnswerInv'
<1>1. polled' = polled
  BY DEF Next, Isr, IsrIn0, IsrIn1, IsrOut0, HostReset, IsrSetup, TaskAside, TaskStep, TransferFill,
         TransferPublish, Load, Store, TransferContinue, EncodeEnd, TransferDone, TaskPoll,
         HandleSetup, HandleComplete, HandleContinue, HandlerEnd, TaskDesc, BusReset, LineIdle,
         IsrAside, SetOutData, SetOutPublish, vars
<1> SUFFICES ASSUME ~polled PROVE AnswerKept'
  BY <1>1 DEF AnswerInv
<1>2. ControlInv /\ AnswerKept
  BY DEF PatientInv, AnswerInv
<1>3. ASSUME Isr PROVE AnswerKept'
  <2>1. ~IsrIn1
    BY DEF IsrIn1
  <2>2. ASSUME NEW r \in Requests[polled], IsrSetup(r) PROVE AnswerKept'
    <3>1. polled = FALSE
      BY DEF Typed
    <3> QED
      BY <2>2, <3>1, AnswerSetupIsr
  <2> QED
    BY <1>2, <1>3, <2>1, <2>2, AnswerIn0, AnswerOut0, AnswerReset DEF Isr
<1>4. ASSUME TaskStep PROVE AnswerKept'
  BY <1>2, <1>4, AnswerFill, AnswerPublish, AnswerLoad, AnswerStore, AnswerContinue, AnswerEncoded,
     AnswerDone, AnswerPoll, AnswerSetup, AnswerComplete, AnswerHandleContinue, AnswerHandlerEnd,
     AnswerDesc, AnswerLineIdle, AnswerBusReset DEF TaskStep
<1>5. ~SetOutData /\ ~SetOutPublish
  BY <1>2 DEF SetOutData, SetOutPublish, ControlInv, Plan
<1> QED
  BY <1>2, <1>3, <1>4, <1>5, AnswerStutter DEF Next

\* The initial state has it.
LEMMA AnswerInit == Init => AnswerInv
<1> SUFFICES ASSUME Init PROVE AnswerKept
  BY DEF AnswerInv
<1>1. task.todo = <<>> /\ host.stage = "reset"
  BY DEF Init
<1> QED
  BY <1>1, NothingToDo DEF AnswerKept, ContinueKept, GotRight

\* What the host has of a control IN is the descriptor it asked for, from its
\* start and without a gap, and all of it at the end, whatever the descriptors'
\* lengths and the packet size, if the request is one the device answers in full.
THEOREM AnswersInFull ==
  ASSUME Patient, Answerable
  PROVE  Spec => []AnswersRequest
<1>1. Init => Typed /\ PatientInv /\ AnswerInv
  BY InitTyped, CoreInit, AnswerInit
<1>2. ASSUME Typed, PatientInv, AnswerInv, [Next]_vars PROVE Typed' /\ PatientInv' /\ AnswerInv'
  <2>1. Typed'
    BY <1>2, IsrTyped, AccessTyped, HandlerTyped, AppTyped, StutterTyped DEF Next, TaskStep
  <2> QED
    BY <1>2, <2>1, CoreStep, AnswerStep
<1>3. AnswerInv => AnswersRequest
  BY DEF AnswerInv, AnswerKept, GotRight, AnswersRequest, Total, PacketLen, Got
<1> QED
  BY <1>1, <1>2, <1>3, PTL DEF Spec
=============================================================================
