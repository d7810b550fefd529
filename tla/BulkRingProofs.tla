---------------------------- MODULE BulkRingProofs ----------------------------
(* Proofs about BulkRing for every capacity, width of the positions, packet   *)
(* and read length: the two cores never touch one byte at a time, and the     *)
(* ring implements the bounded byte queue.                                    *)
EXTENDS BulkRing, SequenceTheorems, TLAPS

-----------------------------------------------------------------------------
(* Remainders.                                                                *)

LEMMA ModQuotient ==
  ASSUME NEW m \in Nat \ {0}, NEW a \in Int
  PROVE  /\ a % m \in 0 .. m - 1
         /\ \E q \in Int : a = m * q + (a % m)
<1>1. a % m \in 0 .. m - 1 BY SMT
<1>2. a = m * (a \div m) + (a % m) BY SMT
<1>3. a \div m \in Int BY SMT
<1> QED BY <1>1, <1>2, <1>3

\* A multiple of m less than m apart from 0 is 0.
LEMMA SmallMultiple ==
  ASSUME NEW m \in Nat \ {0}, NEW d \in Int, m * d < m, -m < m * d
  PROVE  d = 0
<1>1. CASE d >= 1 BY <1>1, SMT
<1>2. CASE d <= -1 BY <1>2, SMT
<1> QED BY <1>1, <1>2, SMT

LEMMA ModUnique ==
  ASSUME NEW m \in Nat \ {0}, NEW q \in Int, NEW r \in 0 .. m - 1
  PROVE  (m * q + r) % m = r
<1> DEFINE a == m * q + r
           s == a % m
<1>1. a \in Int BY SMT
<1>2. PICK p \in Int : a = m * p + (a % m) BY <1>1, ModQuotient
<1>3. s \in Int /\ 0 <= s /\ s < m BY <1>1, ModQuotient, SMT
<1>4. m * q + r = m * p + s BY <1>2
<1> HIDE DEF a, s
<1>5. m * (q - p) = s - r BY <1>4, <1>3, SMT
<1>6. q - p = 0
  <2>1. m * (q - p) < m /\ -m < m * (q - p) BY <1>5, <1>3, SMT
  <2> QED BY <2>1, SmallMultiple
<1>7. s = r
  <2>1. p = q BY <1>6, SMT
  <2> QED BY <2>1, <1>4, <1>3, SMT
<1> QED BY <1>7 DEF a, s

-----------------------------------------------------------------------------
(* Positions and cells.                                                       *)

LEMMA DistanceRange ==
  ASSUME NEW p \in Int, NEW q \in Int
  PROVE  /\ Distance(p, q) \in 0 .. PosMod - 1
         /\ \E k \in Int : p - q = PosMod * k + Distance(p, q)
<1>1. p - q \in Int BY SMT
<1> QED BY <1>1, RingAssumption, ModQuotient DEF Distance

LEMMA DistanceUnique ==
  ASSUME NEW p \in Int, NEW q \in Int, NEW k \in Int, NEW d \in 0 .. PosMod - 1,
         p - q = PosMod * k + d
  PROVE  Distance(p, q) = d
BY RingAssumption, ModUnique DEF Distance

\* Publishing n bytes puts n more of them between the positions.
LEMMA DistancePublish ==
  ASSUME NEW w \in Int, NEW r \in Int, NEW n \in Nat, Distance(w, r) + n < PosMod
  PROVE  Distance((w + n) % PosMod, r) = Distance(w, r) + n
<1> DEFINE v == (w + n) % PosMod
           d == Distance(w, r)
<1>0. PosMod \in Nat \ {0} BY RingAssumption
<1>1. d \in Int /\ 0 <= d BY DistanceRange, <1>0, SMT
<1>2. PICK k \in Int : w - r = PosMod * k + d BY DistanceRange
<1>3. w + n \in Int BY SMT
<1>4. PICK j \in Int : w + n = PosMod * j + v BY <1>0, <1>3, ModQuotient
<1>5. v \in Int BY <1>0, <1>3, ModQuotient, SMT
<1> HIDE DEF v, d
<1>6. v - r = PosMod * (k - j) + (d + n) BY <1>0, <1>1, <1>2, <1>4, <1>5, SMT
<1>7. k - j \in Int /\ d + n \in 0 .. PosMod - 1 BY <1>0, <1>1, SMT DEF d
<1>8. Distance(v, r) = d + n BY <1>5, <1>6, <1>7, DistanceUnique
<1> QED BY <1>8 DEF v, d

\* Releasing n bytes takes them away.
LEMMA DistanceRelease ==
  ASSUME NEW w \in Int, NEW r \in Int, NEW n \in Nat, n <= Distance(w, r)
  PROVE  Distance(w, (r + n) % PosMod) = Distance(w, r) - n
<1> DEFINE v == (r + n) % PosMod
           d == Distance(w, r)
<1>0. PosMod \in Nat \ {0} BY RingAssumption
<1>1. d \in Int /\ d < PosMod
  <2>1. d \in 0 .. PosMod - 1 BY DistanceRange
  <2> HIDE DEF d
  <2> QED BY <2>1, <1>0, SMT
<1>2. PICK k \in Int : w - r = PosMod * k + d BY DistanceRange
<1>3. r + n \in Int BY SMT
<1>4. PICK j \in Int : r + n = PosMod * j + v BY <1>0, <1>3, ModQuotient
<1>5. v \in Int BY <1>0, <1>3, ModQuotient, SMT
<1>6. n <= d OBVIOUS
<1> HIDE DEF v, d
<1>7. w - v = PosMod * (k + j) + (d - n)
  <2>1. v = r + n - PosMod * j BY <1>0, <1>4, <1>5, SMT
  <2>2. w = r + PosMod * k + d BY <1>0, <1>1, <1>2, SMT
  <2> QED BY <2>1, <2>2, <1>0, <1>1, SMT
<1>8. k + j \in Int /\ d - n \in 0 .. PosMod - 1 BY <1>0, <1>1, <1>6, SMT
<1>9. Distance(w, v) = d - n BY <1>5, <1>7, <1>8, DistanceUnique
<1> QED BY <1>9 DEF v, d

\* A cell is the position it stands for, up to laps of the storage.
LEMMA CellForm ==
  ASSUME NEW p \in Int, NEW i \in 0 .. Capacity - 1
  PROVE  /\ Cell(p, i) \in 0 .. Capacity - 1
         /\ \E k \in Int : p + i = Capacity * k + Cell(p, i)
<1> DEFINE o == p % Capacity
<1>0. Capacity \in Nat \ {0} BY RingAssumption
<1>1. o \in 0 .. Capacity - 1 BY <1>0, ModQuotient
<1>2. PICK q \in Int : p = Capacity * q + o BY <1>0, ModQuotient
<1>3. Cell(p, i) = IF i < Capacity - o THEN o + i ELSE i - (Capacity - o) BY DEF Cell
<1> HIDE DEF o
<1>4. CASE i < Capacity - o
  <2>1. Cell(p, i) = o + i BY <1>3, <1>4
  <2>2. p + i = Capacity * q + Cell(p, i) BY <2>1, <1>0, <1>1, <1>2, SMT
  <2>3. Cell(p, i) \in 0 .. Capacity - 1 BY <2>1, <1>0, <1>1, <1>4, SMT
  <2> QED BY <2>2, <2>3
<1>5. CASE ~(i < Capacity - o)
  <2>1. Cell(p, i) = i - (Capacity - o) BY <1>3, <1>5
  <2>2. p + i = Capacity * (q + 1) + Cell(p, i) BY <2>1, <1>0, <1>1, <1>2, SMT
  <2>3. Cell(p, i) \in 0 .. Capacity - 1 BY <2>1, <1>0, <1>1, <1>5, SMT
  <2>4. q + 1 \in Int BY SMT
  <2> QED BY <2>2, <2>3, <2>4
<1> QED BY <1>4, <1>5

\* Positions that are congruent share a cell, and only they do.
LEMMA CellOf ==
  ASSUME NEW p \in Int, NEW i \in 0 .. Capacity - 1,
         NEW q \in Int, NEW j \in 0 .. Capacity - 1,
         NEW k \in Int, p + i = (q + j) + Capacity * k
  PROVE  Cell(p, i) = Cell(q, j)
<1>0. Capacity \in Nat \ {0} BY RingAssumption
<1>1. PICK a \in Int : p + i = Capacity * a + Cell(p, i) BY CellForm
<1>2. PICK b \in Int : q + j = Capacity * b + Cell(q, j) BY CellForm
<1>3. Cell(p, i) \in 0 .. Capacity - 1 /\ Cell(q, j) \in 0 .. Capacity - 1 BY CellForm
<1> DEFINE x == Cell(p, i)
           y == Cell(q, j)
<1>4. x \in Int /\ 0 <= x /\ x < Capacity /\ y \in Int /\ 0 <= y /\ y < Capacity BY <1>0, <1>3, SMT
<1>5. p + i = Capacity * a + x /\ q + j = Capacity * b + y BY <1>1, <1>2
<1> HIDE DEF x, y
<1>6. Capacity * (b + k - a) = x - y BY <1>0, <1>4, <1>5, SMT
<1>7. b + k - a \in Int BY SMT
<1>8. Capacity * (b + k - a) < Capacity /\ -Capacity < Capacity * (b + k - a) BY <1>6, <1>4, <1>0, SMT
<1>9. b + k - a = 0 BY <1>0, <1>7, <1>8, SmallMultiple
<1>10. x = y BY <1>6, <1>9, <1>4, <1>0, SMT
<1> QED BY <1>10 DEF x, y

LEMMA CellsApart ==
  ASSUME NEW p \in Int, NEW i \in 0 .. Capacity - 1,
         NEW q \in Int, NEW j \in 0 .. Capacity - 1,
         NEW k \in Int, NEW d \in 1 .. Capacity - 1, p + i = (q + j) + Capacity * k + d
  PROVE  Cell(p, i) # Cell(q, j)
<1>0. Capacity \in Nat \ {0} BY RingAssumption
<1>1. PICK a \in Int : p + i = Capacity * a + Cell(p, i) BY CellForm
<1>2. PICK b \in Int : q + j = Capacity * b + Cell(q, j) BY CellForm
<1> SUFFICES ASSUME Cell(p, i) = Cell(q, j) PROVE FALSE OBVIOUS
<1> DEFINE x == Cell(p, i)
<1>3. x \in Int BY CellForm, <1>0, SMT
<1>4. p + i = Capacity * a + x /\ q + j = Capacity * b + x BY <1>1, <1>2
<1> HIDE DEF x
<1>5. Capacity * (a - b - k) = d BY <1>0, <1>3, <1>4, SMT
<1>6. a - b - k \in Int BY SMT
<1>7. Capacity * (a - b - k) < Capacity /\ -Capacity < Capacity * (a - b - k) BY <1>5, <1>0, SMT
<1>8. a - b - k = 0 BY <1>0, <1>6, <1>7, SmallMultiple
<1> QED BY <1>5, <1>8, <1>0, SMT

\* The positions' width is a whole number of laps.
LEMMA Laps == \E c \in Int : PosMod = Capacity * c
<1>1. PosMod \in Int /\ Capacity \in Nat \ {0} /\ PosMod % Capacity = 0 BY RingAssumption, SMT
<1>2. PICK c \in Int : PosMod = Capacity * c + (PosMod % Capacity) BY <1>1, ModQuotient
<1>3. PosMod = Capacity * c BY <1>1, <1>2, SMT
<1> QED BY <1>3

\* The cell i bytes past write_pos is the one Distance + i past read_pos.
LEMMA WriteCell ==
  ASSUME NEW w \in Int, NEW r \in Int, NEW i \in Nat, Distance(w, r) + i < Capacity
  PROVE  Cell(w, i) = Cell(r, Distance(w, r) + i)
<1> DEFINE d == Distance(w, r)
<1>0. Capacity \in Nat \ {0} /\ PosMod \in Nat \ {0} BY RingAssumption
<1>1. d \in 0 .. PosMod - 1 BY DistanceRange
<1>2. PICK k \in Int : w - r = PosMod * k + d BY DistanceRange
<1>3. PICK c \in Int : PosMod = Capacity * c BY Laps
<1>4. d + i < Capacity OBVIOUS
<1> HIDE DEF d
<1>5. d \in Int /\ i \in 0 .. Capacity - 1 /\ d + i \in 0 .. Capacity - 1 BY <1>0, <1>1, <1>4, SMT
<1>6. PosMod * k = Capacity * (c * k) BY <1>0, <1>3, SMT
<1>7. c * k \in Int BY SMT
<1>8. w + i = (r + (d + i)) + Capacity * (c * k) BY <1>0, <1>2, <1>5, <1>6, <1>7, SMT
<1>9. Cell(w, i) = Cell(r, d + i) BY <1>5, <1>7, <1>8, CellOf
<1> QED BY <1>9 DEF d

\* The cell i bytes past the released position.
LEMMA ReleasedCell ==
  ASSUME NEW r \in Int, NEW n \in Nat, NEW i \in Nat, n + i < Capacity
  PROVE  Cell((r + n) % PosMod, i) = Cell(r, n + i)
<1> DEFINE v == (r + n) % PosMod
<1>0. Capacity \in Nat \ {0} /\ PosMod \in Nat \ {0} /\ r + n \in Int BY RingAssumption, SMT
<1>1. v \in Int BY <1>0, ModQuotient, SMT
<1>2. PICK k \in Int : r + n = PosMod * k + v BY <1>0, ModQuotient
<1>3. PICK c \in Int : PosMod = Capacity * c BY Laps
<1> HIDE DEF v
<1>4. PosMod * k = Capacity * (c * k) BY <1>0, <1>3, SMT
<1>5. -(c * k) \in Int /\ i \in 0 .. Capacity - 1 /\ n + i \in 0 .. Capacity - 1 BY <1>0, SMT
<1>6. v + i = (r + (n + i)) + Capacity * (-(c * k)) BY <1>0, <1>1, <1>2, <1>4, SMT
<1>7. Cell(v, i) = Cell(r, n + i) BY <1>1, <1>5, <1>6, CellOf
<1> QED BY <1>7 DEF v

\* Cells of different offsets from one position differ.
LEMMA OffsetsApart ==
  ASSUME NEW p \in Int, NEW i \in 0 .. Capacity - 1, NEW j \in 0 .. Capacity - 1, i # j
  PROVE  Cell(p, i) # Cell(p, j)
<1>0. Capacity \in Nat \ {0} BY RingAssumption
<1>1. ASSUME NEW a \in 0 .. Capacity - 1, NEW b \in 0 .. Capacity - 1, b < a
      PROVE  Cell(p, a) # Cell(p, b)
  <2>1. a - b \in 1 .. Capacity - 1 BY <1>0, <1>1, SMT
  <2>2. p + a = (p + b) + Capacity * 0 + (a - b) BY <1>0, SMT
  <2> QED BY <2>1, <2>2, CellsApart
<1>2. i < j \/ j < i BY SMT
<1> QED BY <1>1, <1>2

-----------------------------------------------------------------------------
(* The inductive invariant.                                                   *)

Used == Distance(write_pos, read_pos)

\* A packet being stored fits, and what is copied of it is in place ...
StoreInv ==
  /\ prod.pc = "idle" => prod = ProdIdle
  /\ prod.pc = "copy" => Used + Len(prod.data) <= Capacity
  /\ \A i \in 1 .. prod.copied : buffer[Cell(write_pos, i - 1)] = prod.data[i]

\* ... and a read takes no more than there is, from the front.
LoadInv ==
  cons.pc = "copy" =>
    /\ cons.len <= Used
    /\ \A i \in 1 .. Len(cons.dest) : cons.dest[i] = buffer[Cell(read_pos, i - 1)]

Inv == TypeOK /\ Used <= Capacity /\ StoreInv /\ LoadInv

LEMMA UsedType ==
  ASSUME TypeOK
  PROVE  /\ write_pos \in Int /\ read_pos \in Int
         /\ Used \in Nat /\ Used < PosMod
<1>1. write_pos \in Int /\ read_pos \in Int BY RingAssumption, SMT DEF TypeOK, Positions
<1>2. Used \in 0 .. PosMod - 1 BY <1>1, DistanceRange DEF Used
<1> QED BY <1>1, <1>2, RingAssumption, SMT

LEMMA InitInv == Init => Inv
<1> SUFFICES ASSUME Init PROVE Inv OBVIOUS
<1>0. Capacity \in Nat \ {0} /\ PosMod \in Nat \ {0} BY RingAssumption
<1>1. TypeOK BY <1>0, SMT DEF Init, TypeOK, Positions, ProdIdle, ConsIdle
<1>2. Used = 0
  <2>1. 0 - 0 = PosMod * 0 + 0 /\ 0 \in 0 .. PosMod - 1 BY <1>0, SMT
  <2>2. Distance(0, 0) = 0 BY <2>1, DistanceUnique
  <2> QED BY <2>2 DEF Init, Used
<1>3. StoreInv /\ LoadInv BY SMT DEF Init, StoreInv, LoadInv, ProdIdle, ConsIdle
<1> QED BY <1>0, <1>1, <1>2, <1>3, SMT DEF Inv

\* A packet is a sequence of bytes.
LEMMA PacketType ==
  ASSUME NEW pkt \in Packets
  PROVE  pkt \in Seq(Bytes)
<1>1. PICK n \in PacketLens : pkt \in [1 .. n -> Bytes] BY DEF Packets
<1>2. n \in Nat BY RingAssumption
<1> QED BY <1>1, <1>2, SeqDef

LEMMA WriteBeginInv ==
  ASSUME Inv, NEW pkt \in Packets, WriteBegin(pkt)
  PROVE  Inv'
<1>1. pkt \in Seq(Bytes) /\ Len(pkt) \in Nat BY PacketType, LenProperties
<1>2. Used \in Nat /\ Capacity \in Nat BY UsedType, RingAssumption DEF Inv
<1>3. Used' = Used /\ Used + Len(pkt) <= Capacity
  <2>1. Used' = Used BY DEF WriteBegin, Used
  <2>2. Len(pkt) <= Capacity - Used BY DEF WriteBegin, Fits, Used
  <2> QED BY <2>1, <2>2, <1>1, <1>2, SMT
<1>4. TypeOK' BY <1>1, SMT DEF Inv, TypeOK, WriteBegin
<1>5. StoreInv' BY <1>1, <1>3, SMT DEF StoreInv, WriteBegin
<1>6. LoadInv' BY <1>3 DEF Inv, LoadInv, WriteBegin
<1> QED BY <1>3, <1>4, <1>5, <1>6 DEF Inv

\* A byte is stored where no byte waits to be read and none was stored before.
LEMMA CopyInInv ==
  ASSUME Inv, CopyIn
  PROVE  Inv'
<1> DEFINE i == prod.copied
           at == Cell(write_pos, i)
<1>1. /\ i \in Nat /\ i < Len(prod.data) /\ Len(prod.data) \in Nat
      /\ prod.data \in Seq(Bytes)
  <2>1. prod.data \in Seq(Bytes) /\ prod.copied \in Nat BY DEF Inv, TypeOK
  <2>2. Len(prod.data) \in Nat BY <2>1, LenProperties
  <2> QED BY <2>1, <2>2 DEF CopyIn
<1>2. Used \in Nat /\ Capacity \in Nat \ {0} /\ write_pos \in Int /\ read_pos \in Int
  BY UsedType, RingAssumption DEF Inv
<1>3. Used + Len(prod.data) <= Capacity BY DEF Inv, StoreInv, CopyIn
<1>4. i \in 0 .. Capacity - 1 /\ Used + i < Capacity /\ Used + i \in 0 .. Capacity - 1
  BY <1>1, <1>2, <1>3, SMT
<1>5. at \in 0 .. Capacity - 1 BY <1>2, <1>4, CellForm
<1>6. prod.data[i + 1] \in Bytes
  <2>1. i + 1 \in 1 .. Len(prod.data) BY <1>1, SMT
  <2> QED BY <1>1, <2>1, ElementOfSeq
<1>7. /\ prod' = [prod EXCEPT !.copied = i + 1]
      /\ buffer' = [buffer EXCEPT ![at] = prod.data[i + 1]]
      /\ UNCHANGED <<write_pos, read_pos, cons>>
  BY DEF CopyIn
<1>8. Used' = Used BY <1>7 DEF Used
<1>9. \A j \in 0 .. Capacity - 1 : j < Used => at # Cell(read_pos, j)
  <2> TAKE j \in 0 .. Capacity - 1
  <2> HAVE j < Used
  <2>1. at = Cell(read_pos, Used + i) BY <1>1, <1>2, <1>4, WriteCell DEF Used
  <2>2. Used + i # j BY <1>1, <1>2, SMT
  <2> QED BY <2>1, <2>2, <1>2, <1>4, OffsetsApart
<1>10. \A j \in 0 .. Capacity - 1 : j # i => at # Cell(write_pos, j)
  BY <1>2, <1>4, OffsetsApart
<1> HIDE DEF i, at
<1>11. buffer \in [0 .. Capacity - 1 -> Bytes] BY DEF Inv, TypeOK
<1>12. TypeOK'
  <2>1. buffer' \in [0 .. Capacity - 1 -> Bytes] BY <1>5, <1>6, <1>7, <1>11
  <2>2. prod' \in [pc : {"idle", "copy"}, data : Seq(Bytes), copied : Nat]
    <3>1. i + 1 \in Nat BY <1>1, SMT
    <3> QED BY <3>1, <1>7 DEF Inv, TypeOK
  <2>3. prod'.copied <= Len(prod'.data)
    <3>1. prod'.copied = i + 1 /\ prod'.data = prod.data BY <1>7 DEF Inv, TypeOK
    <3> QED BY <3>1, <1>1, SMT
  <2> QED BY <2>1, <2>2, <2>3, <1>7 DEF Inv, TypeOK
<1>13. StoreInv'
  <2>1. \A j \in 1 .. i + 1 : buffer'[Cell(write_pos, j - 1)] = prod.data[j]
    <3> TAKE j \in 1 .. i + 1
    <3>1. CASE j = i + 1
      <4>1. j - 1 = i BY <1>1, <3>1, SMT
      <4>2. buffer'[at] = prod.data[i + 1] BY <1>5, <1>7, <1>11
      <4> QED BY <4>1, <4>2, <3>1 DEF at, i
    <3>2. CASE j # i + 1
      <4>1. j \in 1 .. i /\ j - 1 \in 0 .. Capacity - 1 /\ j - 1 # i
        BY <1>1, <1>2, <1>4, <3>2, SMT
      <4>2. at # Cell(write_pos, j - 1) BY <4>1, <1>10
      <4>3. Cell(write_pos, j - 1) \in 0 .. Capacity - 1 BY <4>1, <1>2, CellForm
      <4>4. buffer'[Cell(write_pos, j - 1)] = buffer[Cell(write_pos, j - 1)]
        BY <4>2, <4>3, <1>7, <1>11
      <4>5. buffer[Cell(write_pos, j - 1)] = prod.data[j] BY <4>1 DEF Inv, StoreInv, i
      <4> QED BY <4>4, <4>5
    <3> QED BY <3>1, <3>2
  <2>2. prod'.copied = i + 1 /\ prod'.data = prod.data /\ prod'.pc = "copy"
    BY <1>7 DEF Inv, TypeOK, CopyIn
  <2> QED BY <2>1, <2>2, <1>3, <1>7, <1>8 DEF StoreInv
<1>14. LoadInv'
  <2> SUFFICES ASSUME cons.pc = "copy"
               PROVE  /\ cons.len <= Used
                      /\ \A j \in 1 .. Len(cons.dest) : cons.dest[j] = buffer'[Cell(read_pos, j - 1)]
    BY <1>7, <1>8 DEF LoadInv
  <2>1. cons.len <= Used BY DEF Inv, LoadInv
  <2>2. cons.len \in Nat /\ Len(cons.dest) \in Nat /\ Len(cons.dest) <= cons.len
    BY LenProperties DEF Inv, TypeOK
  <2>3. ASSUME NEW j \in 1 .. Len(cons.dest)
        PROVE  cons.dest[j] = buffer'[Cell(read_pos, j - 1)]
    <3>1. j - 1 \in 0 .. Capacity - 1 /\ j - 1 < Used
      BY <1>2, <2>1, <2>2, SMT DEF Inv
    <3>2. at # Cell(read_pos, j - 1) /\ Cell(read_pos, j - 1) \in 0 .. Capacity - 1
      BY <3>1, <1>2, <1>9, CellForm
    <3>3. buffer'[Cell(read_pos, j - 1)] = buffer[Cell(read_pos, j - 1)] BY <3>2, <1>7, <1>11
    <3> QED BY <3>3 DEF Inv, LoadInv
  <2> QED BY <2>1, <2>3
<1> QED BY <1>8, <1>12, <1>13, <1>14 DEF Inv

\* Publishing: the packet is now among the bytes to be read.
LEMMA PublishInv ==
  ASSUME Inv, Publish
  PROVE  /\ Inv'
         /\ Used' = Used + Len(prod.data)
<1>1. prod.data \in Seq(Bytes) /\ Len(prod.data) \in Nat BY LenProperties DEF Inv, TypeOK
<1>2. /\ Used \in Nat /\ write_pos \in Int /\ read_pos \in Int
      /\ Capacity \in Nat /\ PosMod \in Nat \ {0} /\ Capacity < PosMod
  BY UsedType, RingAssumption, SMT DEF Inv
<1>3. Used + Len(prod.data) <= Capacity BY DEF Inv, StoreInv, Publish
<1>4. Used' = Used + Len(prod.data)
  <2>1. Used + Len(prod.data) < PosMod BY <1>1, <1>2, <1>3, SMT
  <2> QED BY <2>1, <1>1, <1>2, DistancePublish DEF Publish, Used
<1>5. write_pos' \in Positions
  <2>1. write_pos + Len(prod.data) \in Int BY <1>1, <1>2, SMT
  <2> QED BY <2>1, <1>2, ModQuotient DEF Publish, Positions
<1>6. TypeOK' BY <1>5, SMT DEF Inv, TypeOK, Publish, ProdIdle
<1>7. StoreInv' BY SMT DEF StoreInv, Publish, ProdIdle
<1>8. LoadInv'
  <2>1. cons.pc = "copy" => cons.len <= Used' BY <1>1, <1>2, <1>4, SMT DEF Inv, TypeOK, LoadInv
  <2> QED BY <2>1 DEF Inv, LoadInv, Publish
<1> QED BY <1>3, <1>4, <1>6, <1>7, <1>8 DEF Inv

LEMMA ReadBeginInv ==
  ASSUME Inv, NEW len \in ReadLens, ReadBegin(len)
  PROVE  Inv'
<1>1. len \in Nat /\ Used \in Nat BY UsedType, RingAssumption DEF Inv
<1>2. Used' = Used BY DEF ReadBegin, Used
<1>3. cons' = [pc |-> "copy", len |-> IF len > Used THEN Used ELSE len, dest |-> <<>>]
  BY DEF ReadBegin, Used
<1>4. TypeOK' BY <1>1, <1>3, SMT DEF Inv, TypeOK, ReadBegin
<1>5. StoreInv' BY <1>2 DEF Inv, StoreInv, ReadBegin
<1>6. LoadInv' BY <1>1, <1>2, <1>3, SMT DEF LoadInv
<1> QED BY <1>2, <1>4, <1>5, <1>6 DEF Inv

LEMMA CopyOutInv ==
  ASSUME Inv, CopyOut
  PROVE  Inv'
<1> DEFINE n == Len(cons.dest)
           byte == buffer[Cell(read_pos, n)]
<1>1. /\ cons.dest \in Seq(Bytes) /\ n \in Nat /\ cons.len \in Nat
      /\ cons.pc = "copy" /\ n < cons.len /\ cons.len <= Used
  BY LenProperties DEF Inv, TypeOK, LoadInv, CopyOut
<1>2. Used \in Nat /\ Used <= Capacity /\ Capacity \in Nat /\ read_pos \in Int
  BY UsedType, RingAssumption DEF Inv
<1>3. byte \in Bytes
  <2>1. n \in 0 .. Capacity - 1 BY <1>1, <1>2, SMT
  <2>2. Cell(read_pos, n) \in 0 .. Capacity - 1 BY <2>1, <1>2, CellForm
  <2> QED BY <2>2 DEF Inv, TypeOK
<1>4. Used' = Used BY DEF CopyOut, Used
<1>5. /\ cons' = [cons EXCEPT !.dest = Append(cons.dest, byte)]
      /\ UNCHANGED <<buffer, write_pos, read_pos, prod>>
  BY DEF CopyOut
<1>6. /\ cons'.pc = "copy" /\ cons'.len = cons.len /\ cons'.dest = Append(cons.dest, byte)
      /\ cons' \in [pc : {"idle", "copy", "done"}, len : Nat, dest : Seq(Bytes)]
  BY <1>1, <1>3, <1>5, AppendProperties DEF Inv, TypeOK
<1> HIDE DEF byte
<1>7. /\ Len(cons'.dest) = n + 1 /\ cons'.dest[n + 1] = byte
      /\ \A i \in 1 .. n : cons'.dest[i] = cons.dest[i]
  BY <1>1, <1>3, <1>6, AppendProperties
<1>8. TypeOK'
  <2>1. Len(cons'.dest) <= cons'.len BY <1>1, <1>6, <1>7, SMT
  <2> QED BY <2>1, <1>5, <1>6 DEF Inv, TypeOK
<1>9. LoadInv'
  <2>1. ASSUME NEW i \in 1 .. n + 1
        PROVE  cons'.dest[i] = buffer[Cell(read_pos, i - 1)]
    <3>1. CASE i = n + 1
      <4>1. i - 1 = n BY <3>1, <1>1, SMT
      <4> QED BY <4>1, <3>1, <1>7 DEF byte
    <3>2. CASE i # n + 1
      <4>1. i \in 1 .. n BY <3>2, <1>1, SMT
      <4> QED BY <4>1, <1>1, <1>7 DEF Inv, LoadInv
    <3> QED BY <3>1, <3>2
  <2> QED BY <2>1, <1>1, <1>4, <1>5, <1>6, <1>7 DEF LoadInv
<1>10. StoreInv' BY <1>4, <1>5 DEF Inv, StoreInv
<1> QED BY <1>2, <1>4, <1>8, <1>9, <1>10 DEF Inv

LEMMA ReleaseInv ==
  ASSUME Inv, Release
  PROVE  /\ Inv'
         /\ Used' = Used - cons.len
<1>1. /\ cons.len \in Nat /\ cons.pc = "copy" /\ cons.len <= Used
  BY DEF Inv, TypeOK, LoadInv, Release
<1>2. /\ Used \in Nat /\ Used <= Capacity /\ Capacity \in Nat /\ PosMod \in Nat \ {0}
      /\ write_pos \in Int /\ read_pos \in Int
  BY UsedType, RingAssumption DEF Inv
<1>3. Used' = Used - cons.len BY <1>1, <1>2, DistanceRelease DEF Release, Used
<1>4. read_pos' \in Positions
  <2>1. read_pos + cons.len \in Int BY <1>1, <1>2, SMT
  <2> QED BY <2>1, <1>2, ModQuotient DEF Release, Positions
<1>5. TypeOK'
  <2>1. /\ cons' \in [pc : {"idle", "copy", "done"}, len : Nat, dest : Seq(Bytes)]
        /\ cons'.dest = cons.dest /\ cons'.len = cons.len
    BY DEF Inv, TypeOK, Release
  <2> QED BY <2>1, <1>4 DEF Inv, TypeOK, Release
<1>6. StoreInv'
  <2>1. Len(prod.data) \in Nat BY LenProperties DEF Inv, TypeOK
  <2>2. prod.pc = "copy" => Used' + Len(prod.data) <= Capacity
    BY <2>1, <1>1, <1>2, <1>3, SMT DEF Inv, StoreInv
  <2> QED BY <2>2 DEF Inv, StoreInv, Release
<1>7. LoadInv' BY DEF LoadInv, Release, Inv, TypeOK
<1>8. Used' <= Capacity BY <1>1, <1>2, <1>3, SMT
<1> QED BY <1>3, <1>5, <1>6, <1>7, <1>8 DEF Inv

LEMMA ReadReturnInv ==
  ASSUME Inv, ReadReturn
  PROVE  Inv'
<1>1. Used' = Used BY DEF ReadReturn, Used
<1>2. TypeOK' BY SMT DEF Inv, TypeOK, ReadReturn, ConsIdle
<1>3. StoreInv' BY <1>1 DEF Inv, StoreInv, ReadReturn
<1>4. LoadInv' BY DEF LoadInv, ReadReturn, ConsIdle
<1> QED BY <1>1, <1>2, <1>3, <1>4 DEF Inv

LEMMA NextInv == Inv /\ [Next]_vars => Inv'
<1> SUFFICES ASSUME Inv, [Next]_vars PROVE Inv' OBVIOUS
<1>1. CASE \E pkt \in Packets : WriteBegin(pkt) BY <1>1, WriteBeginInv
<1>2. CASE CopyIn BY <1>2, CopyInInv
<1>3. CASE Publish BY <1>3, PublishInv
<1>4. CASE \E len \in ReadLens : ReadBegin(len) BY <1>4, ReadBeginInv
<1>5. CASE CopyOut BY <1>5, CopyOutInv
<1>6. CASE Release BY <1>6, ReleaseInv
<1>7. CASE ReadReturn BY <1>7, ReadReturnInv
<1>8. CASE UNCHANGED vars
  <2>1. Used' = Used BY <1>8 DEF vars, Used
  <2> QED BY <2>1, <1>8 DEF vars, Inv, TypeOK, StoreInv, LoadInv
<1> QED BY <1>1, <1>2, <1>3, <1>4, <1>5, <1>6, <1>7, <1>8
    DEF Next, bulk_ring_write, bulk_stream_read

LEMMA InvHolds == Spec => []Inv
BY InitInv, NextInv, PTL DEF Spec

-----------------------------------------------------------------------------

\* For every capacity, packet and read length the positions stay inside their
\* width, and neither copy runs past its end.
THEOREM TypeCorrect == Spec => []TypeOK
<1>1. Inv => TypeOK BY DEF Inv
<1> QED BY <1>1, InvHolds, PTL

\* For every capacity bulk_ring_write and pio_usb_host_bulk_stream_read never
\* touch one byte of the storage at the same time.
THEOREM RaceFree == Spec => []NoDataRace
<1>1. Inv => NoDataRace
  <2> SUFFICES ASSUME Inv, prod.pc = "copy", prod.copied < Len(prod.data),
                      cons.pc = "copy", Len(cons.dest) < cons.len
               PROVE  Cell(write_pos, prod.copied) # Cell(read_pos, Len(cons.dest))
    BY DEF NoDataRace
  <2> DEFINE i == prod.copied
             j == Len(cons.dest)
  <2>1. i \in Nat /\ j \in Nat /\ Len(prod.data) \in Nat /\ cons.len \in Nat
    BY LenProperties DEF Inv, TypeOK
  <2>2. Used + Len(prod.data) <= Capacity /\ cons.len <= Used BY DEF Inv, StoreInv, LoadInv
  <2>3. Used \in Nat /\ Capacity \in Nat /\ write_pos \in Int /\ read_pos \in Int
    BY UsedType, RingAssumption DEF Inv
  <2>4. /\ Used + i < Capacity /\ j # Used + i
        /\ Used + i \in 0 .. Capacity - 1 /\ j \in 0 .. Capacity - 1
    BY <2>1, <2>2, <2>3, SMT
  <2>5. Cell(write_pos, i) = Cell(read_pos, Used + i) BY <2>1, <2>3, <2>4, WriteCell DEF Used
  <2> QED BY <2>3, <2>4, <2>5, OffsetsApart
<1> QED BY <1>1, InvHolds, PTL

-----------------------------------------------------------------------------
(* The refinement.                                                            *)

QueueIs ==
  /\ Queue \in Seq(Bytes) /\ Len(Queue) = Used
  /\ \A i \in 1 .. Used : Queue[i] = buffer[Cell(read_pos, i - 1)]

LEMMA QueueType == Inv => QueueIs
<1> SUFFICES ASSUME Inv PROVE QueueIs OBVIOUS
<1>1. /\ Used \in Nat /\ read_pos \in Int /\ Used <= Capacity /\ Capacity \in Nat
  BY UsedType, RingAssumption DEF Inv
<1>2. Queue = [i \in 1 .. Used |-> buffer[Cell(read_pos, i - 1)]] BY DEF Queue, Used
<1>3. \A i \in 1 .. Used : buffer[Cell(read_pos, i - 1)] \in Bytes
  <2> TAKE i \in 1 .. Used
  <2>1. i - 1 \in 0 .. Capacity - 1 BY <1>1, SMT
  <2>2. Cell(read_pos, i - 1) \in 0 .. Capacity - 1 BY <2>1, <1>1, CellForm
  <2> QED BY <2>2 DEF Inv, TypeOK
<1>4. Queue \in [1 .. Used -> Bytes] BY <1>2, <1>3
<1>5. Queue \in Seq(Bytes) BY <1>1, <1>4, SeqDef
<1>6. Len(Queue) = Used
  <2>1. DOMAIN Queue = 1 .. Used /\ DOMAIN Queue = 1 .. Len(Queue) /\ Len(Queue) \in Nat
    BY <1>4, <1>5, LenProperties
  <2> QED BY <2>1, <1>1, SMT
<1> QED BY <1>2, <1>5, <1>6 DEF QueueIs

LEMMA InitRefines == Init => Fifo!Init
<1> SUFFICES ASSUME Init PROVE Fifo!Init OBVIOUS
<1>1. Inv BY InitInv
<1>2. Used = 0
  <2>1. 0 - 0 = PosMod * 0 + 0 /\ 0 \in 0 .. PosMod - 1 BY RingAssumption, SMT
  <2> QED BY <2>1, DistanceUnique DEF Init, Used
<1>3. Queue = <<>> BY <1>1, <1>2, QueueType, EmptySeq DEF QueueIs
<1> QED BY <1>3 DEF Init, Fifo!Init, Result, ProdIdle, ConsIdle

LEMMA WriteBeginRefines ==
  ASSUME Inv, NEW pkt \in Packets, WriteBegin(pkt)
  PROVE  Fifo!Next \/ UNCHANGED <<prod.data, Queue, Result>>
<1>1. UNCHANGED <<Queue, Result>> BY DEF WriteBegin, Queue, Result
<1>2. prod.data = <<>> /\ prod'.data = pkt BY DEF Inv, StoreInv, WriteBegin, ProdIdle
<1>3. CASE pkt = <<>> BY <1>1, <1>2, <1>3
<1>4. CASE pkt # <<>>
  <2>1. pkt \in Seq(Bytes) BY PacketType
  <2>2. Len(pkt) \in Nat \ {0} /\ pkt \in [1 .. Len(pkt) -> Bytes]
    BY <2>1, <1>4, EmptySeq, LenProperties
  <2>3. Len(pkt) \in 1 .. Capacity
    <3>1. Used \in Nat /\ Capacity \in Nat BY UsedType, RingAssumption DEF Inv
    <3>2. Len(pkt) <= Capacity - Used BY DEF WriteBegin, Fits, Used
    <3> QED BY <2>2, <3>1, <3>2, SMT
  <2>4. Fifo!Offer BY <1>1, <1>2, <2>2, <2>3 DEF Fifo!Offer
  <2> QED BY <2>4 DEF Fifo!Next
<1> QED BY <1>3, <1>4

LEMMA CopyInRefines ==
  ASSUME Inv, CopyIn
  PROVE  UNCHANGED <<prod.data, Queue, Result>>
<1> DEFINE at == Cell(write_pos, prod.copied)
<1>1. /\ prod.copied \in Nat /\ prod.copied < Len(prod.data) /\ Len(prod.data) \in Nat
      /\ Used + Len(prod.data) <= Capacity
  BY LenProperties DEF Inv, TypeOK, StoreInv, CopyIn
<1>2. Used \in Nat /\ Capacity \in Nat \ {0} /\ write_pos \in Int /\ read_pos \in Int
  BY UsedType, RingAssumption DEF Inv
<1>3. Used + prod.copied < Capacity /\ Used + prod.copied \in 0 .. Capacity - 1
  BY <1>1, <1>2, SMT
<1>4. at = Cell(read_pos, Used + prod.copied) BY <1>1, <1>2, <1>3, WriteCell DEF Used
<1>5. \A i \in 1 .. Used : buffer'[Cell(read_pos, i - 1)] = buffer[Cell(read_pos, i - 1)]
  <2> TAKE i \in 1 .. Used
  <2>1. i - 1 \in 0 .. Capacity - 1 /\ Used + prod.copied # i - 1 BY <1>1, <1>2, <1>3, SMT
  <2>2. at # Cell(read_pos, i - 1) BY <2>1, <1>2, <1>3, <1>4, OffsetsApart
  <2>3. Cell(read_pos, i - 1) \in 0 .. Capacity - 1 BY <2>1, <1>2, CellForm
  <2> QED BY <2>2, <2>3 DEF CopyIn, Inv, TypeOK
<1>6. Used' = Used /\ read_pos' = read_pos BY DEF CopyIn, Used
<1>7. /\ Queue = [i \in 1 .. Used |-> buffer[Cell(read_pos, i - 1)]]
      /\ Queue' = [i \in 1 .. Used' |-> buffer'[Cell(read_pos', i - 1)]]
  BY DEF Queue, Used
<1>8. Queue' = Queue BY <1>5, <1>6, <1>7, Zenon
<1> QED BY <1>8 DEF CopyIn, Result, Inv, TypeOK

LEMMA PublishRefines ==
  ASSUME Inv, Publish
  PROVE  Fifo!Next \/ UNCHANGED <<prod.data, Queue, Result>>
<1> DEFINE len == Len(prod.data)
<1>1. Inv' /\ Used' = Used + len BY PublishInv
<1>2. prod.data \in Seq(Bytes) /\ len \in Nat BY LenProperties DEF Inv, TypeOK
<1>3. /\ Used \in Nat /\ Capacity \in Nat /\ Used + len <= Capacity
      /\ write_pos \in Int /\ read_pos \in Int
  BY UsedType, RingAssumption DEF Inv, StoreInv, Publish
<1>4. /\ Queue \in Seq(Bytes) /\ Len(Queue) = Used
      /\ \A i \in 1 .. Used : Queue[i] = buffer[Cell(read_pos, i - 1)]
  BY QueueType DEF QueueIs
<1>5. /\ Queue' \in Seq(Bytes) /\ Len(Queue') = Used + len
      /\ \A i \in 1 .. Used + len : Queue'[i] = buffer[Cell(read_pos, i - 1)]
  <2>1. QueueIs' BY <1>1, QueueType, PTL
  <2> QED BY <2>1, <1>1 DEF QueueIs, Publish
<1>6. Queue' = Queue \o prod.data
  <2>1. /\ Queue \o prod.data \in Seq(Bytes) /\ Len(Queue \o prod.data) = Used + len
        /\ \A i \in 1 .. Used + len :
             (Queue \o prod.data)[i] = IF i <= Used THEN Queue[i] ELSE prod.data[i - Used]
    BY <1>2, <1>4, ConcatProperties
  <2>2. ASSUME NEW i \in 1 .. Used + len
        PROVE  Queue'[i] = (Queue \o prod.data)[i]
    <3>1. CASE i <= Used
      <4>1. i \in 1 .. Used BY <3>1, <1>3, SMT
      <4> QED BY <4>1, <3>1, <2>1, <1>4, <1>5
    <3>2. CASE ~(i <= Used)
      <4>1. /\ i - Used \in 1 .. len /\ (i - Used) - 1 \in Nat
            /\ Used + ((i - Used) - 1) < Capacity /\ Used + ((i - Used) - 1) = i - 1
        BY <3>2, <1>2, <1>3, SMT
      <4>2. Cell(write_pos, (i - Used) - 1) = Cell(read_pos, i - 1)
        BY <4>1, <1>3, WriteCell DEF Used
      <4>3. buffer[Cell(write_pos, (i - Used) - 1)] = prod.data[i - Used]
        BY <4>1 DEF Inv, StoreInv, Publish
      <4> QED BY <4>2, <4>3, <3>2, <2>1, <1>5
    <3> QED BY <3>1, <3>2
  <2> QED BY <2>1, <2>2, <1>5, SeqEqual
<1>7. prod'.data = <<>> /\ UNCHANGED Result BY DEF Publish, ProdIdle, Result
<1>8. CASE prod.data = <<>>
  <2>1. Queue' = Queue BY <1>4, <1>6, <1>8, ConcatEmptySeq
  <2> QED BY <2>1, <1>7, <1>8
<1>9. CASE prod.data # <<>>
  <2>1. Fifo!Put BY <1>3, <1>4, <1>6, <1>7, <1>9 DEF Fifo!Put
  <2> QED BY <2>1 DEF Fifo!Next
<1> QED BY <1>8, <1>9

\* The steps of a read but the last two leave the queue and the result alone.
LEMMA ReadRefines ==
  ASSUME CopyOut \/ \E len \in ReadLens : ReadBegin(len), Inv
  PROVE  UNCHANGED <<prod.data, Queue, Result>>
<1>1. UNCHANGED <<prod.data, Queue>> BY DEF CopyOut, ReadBegin, Queue
<1>2. Result = <<>> /\ Result' = <<>> BY DEF CopyOut, ReadBegin, Result, Inv, TypeOK
<1> QED BY <1>1, <1>2

LEMMA ReleaseRefines ==
  ASSUME Inv, Release
  PROVE  Fifo!Next \/ UNCHANGED <<prod.data, Queue, Result>>
<1> DEFINE k == cons.len
<1>1. Inv' /\ Used' = Used - k BY ReleaseInv
<1>2. /\ cons.dest \in Seq(Bytes) /\ Len(cons.dest) = k /\ k \in Nat /\ k <= Used
      /\ \A i \in 1 .. k : cons.dest[i] = buffer[Cell(read_pos, i - 1)]
  BY DEF Inv, TypeOK, LoadInv, Release
<1>3. Used \in Nat /\ Used <= Capacity /\ Capacity \in Nat /\ read_pos \in Int
  BY UsedType, RingAssumption DEF Inv
<1>4. /\ Queue \in Seq(Bytes) /\ Len(Queue) = Used
      /\ \A i \in 1 .. Used : Queue[i] = buffer[Cell(read_pos, i - 1)]
  BY QueueType DEF QueueIs
<1>5. /\ Queue' \in Seq(Bytes) /\ Len(Queue') = Used - k
      /\ \A i \in 1 .. Used - k : Queue'[i] = buffer[Cell(read_pos', i - 1)]
  <2>1. QueueIs' BY <1>1, QueueType, PTL
  <2> QED BY <2>1, <1>1 DEF QueueIs, Release
<1>6. cons.dest = SubSeq(Queue, 1, k)
  <2>1. \A i \in 1 .. k : Queue[i] \in Bytes /\ Queue[i] = cons.dest[i]
    <3> TAKE i \in 1 .. k
    <3>1. i \in 1 .. Used BY <1>2, <1>3, SMT
    <3> QED BY <3>1, <1>2, <1>4, ElementOfSeq
  <2>2. /\ SubSeq(Queue, 1, k) \in Seq(Bytes)
        /\ Len(SubSeq(Queue, 1, k)) = IF 1 <= k THEN k - 1 + 1 ELSE 0
        /\ \A i \in 1 .. k - 1 + 1 : SubSeq(Queue, 1, k)[i] = Queue[1 + i - 1]
    BY <2>1, <1>2, SubSeqProperties
  <2>3. Len(SubSeq(Queue, 1, k)) = k BY <2>2, <1>2, SMT
  <2>4. ASSUME NEW i \in 1 .. k PROVE cons.dest[i] = SubSeq(Queue, 1, k)[i]
    <3>1. i \in 1 .. k - 1 + 1 /\ 1 + i - 1 = i BY <1>2, SMT
    <3> QED BY <3>1, <2>1, <2>2
  <2> QED BY <2>2, <2>3, <2>4, <1>2, SeqEqual
<1>7. Queue' = SubSeq(Queue, k + 1, Used)
  <2> DEFINE rest == SubSeq(Queue, k + 1, Used)
  <2>1. \A i \in k + 1 .. Used : Queue[i] \in Bytes
    <3> TAKE i \in k + 1 .. Used
    <3>1. i \in 1 .. Used BY <1>2, <1>3, SMT
    <3> QED BY <3>1, <1>4, ElementOfSeq
  <2>2. k + 1 \in Int /\ Used \in Int BY <1>2, <1>3, SMT
  <2>3. /\ rest \in Seq(Bytes)
        /\ Len(rest) = IF k + 1 <= Used THEN Used - (k + 1) + 1 ELSE 0
        /\ \A i \in 1 .. Used - (k + 1) + 1 : rest[i] = Queue[(k + 1) + i - 1]
    BY <2>1, <2>2, SubSeqProperties
  <2>4. Len(rest) = Used - k BY <2>3, <1>2, <1>3, SMT
  <2>5. ASSUME NEW i \in 1 .. Used - k PROVE Queue'[i] = rest[i]
    <3>1. /\ i \in 1 .. Used - (k + 1) + 1 /\ (k + 1) + i - 1 = k + i
          /\ k + i \in 1 .. Used /\ i - 1 \in Nat /\ k + (i - 1) = (k + i) - 1
          /\ k + (i - 1) < Capacity
      BY <1>2, <1>3, SMT
    <3>2. rest[i] = buffer[Cell(read_pos, k + (i - 1))] BY <3>1, <2>3, <1>4
    <3>3. Cell(read_pos', i - 1) = Cell(read_pos, k + (i - 1))
      BY <3>1, <1>2, <1>3, ReleasedCell DEF Release
    <3> QED BY <3>2, <3>3, <1>5
  <2> HIDE DEF rest
  <2>6. Queue' = rest BY <2>3, <2>4, <2>5, <1>5, SeqEqual
  <2> QED BY <2>6 DEF rest
<1>8. Result = <<>> /\ Result' = cons.dest /\ UNCHANGED prod.data
  BY DEF Result, Release, Inv, TypeOK
<1>9. CASE k = 0
  <2>1. Result' = <<>> BY <1>2, <1>8, <1>9, EmptySeq
  <2>2. k + 1 = 1 BY <1>9, SMT
  <2>3. Queue' = Queue BY <1>4, <1>7, <2>2, SubSeqFull
  <2> QED BY <2>1, <2>3, <1>8
<1>10. CASE k # 0
  <2>1. k \in 1 .. Used BY <1>2, <1>3, <1>10, SMT
  <2>2. Fifo!Get BY <2>1, <1>4, <1>6, <1>7, <1>8 DEF Fifo!Get
  <2> QED BY <2>2 DEF Fifo!Next
<1> QED BY <1>9, <1>10

LEMMA ReadReturnRefines ==
  ASSUME ReadReturn
  PROVE  Fifo!Next
<1>1. UNCHANGED <<prod.data, Queue>> BY DEF ReadReturn, Queue
<1>2. Result' = <<>> BY DEF ReadReturn, Result, ConsIdle
<1> QED BY <1>1, <1>2 DEF Fifo!Next, Fifo!Return

\* For every capacity, position width, packet and read length the ring of
\* bulk_ring_write and pio_usb_host_bulk_stream_read implements the bounded byte
\* queue: no byte is lost, reordered, repeated or altered.
THEOREM ImplementsFifo == Spec => FifoSpec
<1>1. ASSUME Inv, [Next]_vars
      PROVE  Fifo!Next \/ UNCHANGED <<prod.data, Queue, Result>>
  <2>1. CASE \E pkt \in Packets : WriteBegin(pkt) BY <1>1, <2>1, WriteBeginRefines
  <2>2. CASE CopyIn BY <1>1, <2>2, CopyInRefines
  <2>3. CASE Publish BY <1>1, <2>3, PublishRefines
  <2>4. CASE CopyOut \/ \E len \in ReadLens : ReadBegin(len) BY <1>1, <2>4, ReadRefines
  <2>5. CASE Release BY <1>1, <2>5, ReleaseRefines
  <2>6. CASE ReadReturn BY <2>6, ReadReturnRefines
  <2>7. CASE UNCHANGED vars BY <2>7 DEF vars, Queue, Result
  <2> QED BY <1>1, <2>1, <2>2, <2>3, <2>4, <2>5, <2>6, <2>7
      DEF Next, bulk_ring_write, bulk_stream_read
<1> QED BY <1>1, InitRefines, InvHolds, PTL DEF Spec, FifoSpec, Fifo!Spec
=============================================================================
