--------------------------------- MODULE Crc ---------------------------------
(* The CRCs of tokens and data packets as src/usb_crc.c computes them, by     *)
(* table, and the definition they are held against: division by the USB       *)
(* polynomials, a bit at a time in the order the bits are sent.               *)
EXTENDS Integers, Sequences, SequencesExt

Byte == 0..255

\* The bits of a sequence of bytes as they are sent, least significant first,
\* and the bytes made of the whole octets of a sequence of bits.
BitsOf(bytes) ==
  [i \in 1..8 * Len(bytes) |-> (bytes[(i - 1) \div 8 + 1] \div 2^((i - 1) % 8)) % 2]

BytesOf(bits) ==
  [j \in 1..Len(bits) \div 8 |->
     FoldLeftDomain(LAMBDA sum, b : sum + SubSeq(bits, 8 * j - 7, 8 * j)[b] * 2^(b - 1),
                    0, SubSeq(bits, 8 * j - 7, 8 * j))]

-----------------------------------------------------------------------------
(* The tables and the functions of the code.                                  *)

\* Exclusive or of 16 bits, a power of two for every bit in which a and b differ.
Xor(a, b) ==
  MapThenSumSet(LAMBDA i : 2^i, {i \in 0..15 : (a \div 2^i) % 2 # (b \div 2^i) % 2})

crc5_tbl == <<
   0, 11, 22, 29,  5, 14, 19, 24, 10,  1, 28, 23, 15,  4, 25, 18,
  20, 31,  2,  9, 17, 26,  7, 12, 30, 21,  8,  3, 27, 16, 13,  6>>

calc_usb_crc5(data) ==
  LET inverted == Xor(data, 31)
      lsb == (inverted \div 2) % 32
      msb == (inverted \div 64) % 32
      first == IF inverted % 2 = 1 THEN 20 ELSE 0
      second == crc5_tbl[Xor(lsb, first) + 1]
  IN  Xor(crc5_tbl[Xor(msb, second) + 1], 31)

crc16_tbl == <<
      0, 49345, 49537,   320, 49921,   960,   640, 49729, 50689,  1728,  1920, 51009,
   1280, 50625, 50305,  1088, 52225,  3264,  3456, 52545,  3840, 53185, 52865,  3648,
   2560, 51905, 52097,  2880, 51457,  2496,  2176, 51265, 55297,  6336,  6528, 55617,
   6912, 56257, 55937,  6720,  7680, 57025, 57217,  8000, 56577,  7616,  7296, 56385,
   5120, 54465, 54657,  5440, 55041,  6080,  5760, 54849, 53761,  4800,  4992, 54081,
   4352, 53697, 53377,  4160, 61441, 12480, 12672, 61761, 13056, 62401, 62081, 12864,
  13824, 63169, 63361, 14144, 62721, 13760, 13440, 62529, 15360, 64705, 64897, 15680,
  65281, 16320, 16000, 65089, 64001, 15040, 15232, 64321, 14592, 63937, 63617, 14400,
  10240, 59585, 59777, 10560, 60161, 11200, 10880, 59969, 60929, 11968, 12160, 61249,
  11520, 60865, 60545, 11328, 58369,  9408,  9600, 58689,  9984, 59329, 59009,  9792,
   8704, 58049, 58241,  9024, 57601,  8640,  8320, 57409, 40961, 24768, 24960, 41281,
  25344, 41921, 41601, 25152, 26112, 42689, 42881, 26432, 42241, 26048, 25728, 42049,
  27648, 44225, 44417, 27968, 44801, 28608, 28288, 44609, 43521, 27328, 27520, 43841,
  26880, 43457, 43137, 26688, 30720, 47297, 47489, 31040, 47873, 31680, 31360, 47681,
  48641, 32448, 32640, 48961, 32000, 48577, 48257, 31808, 46081, 29888, 30080, 46401,
  30464, 47041, 46721, 30272, 29184, 45761, 45953, 29504, 45313, 29120, 28800, 45121,
  20480, 37057, 37249, 20800, 37633, 21440, 21120, 37441, 38401, 22208, 22400, 38721,
  21760, 38337, 38017, 21568, 39937, 23744, 23936, 40257, 24320, 40897, 40577, 24128,
  23040, 39617, 39809, 23360, 39169, 22976, 22656, 38977, 34817, 18624, 18816, 35137,
  19200, 35777, 35457, 19008, 19968, 36545, 36737, 20288, 36097, 19904, 19584, 35905,
  17408, 33985, 34177, 17728, 34561, 18368, 18048, 34369, 33281, 17088, 17280, 33601,
  16640, 33217, 32897, 16448>>

update_usb_crc16(crc, data) == Xor(crc \div 256, crc16_tbl[(Xor(crc, data) % 256) + 1])

calc_usb_crc16(data) == Xor(FoldLeft(update_usb_crc16, 65535, data), 65535)

\* A data packet's last two bytes, low byte first.
Crc16Bytes(payload) ==
  LET crc == calc_usb_crc16(payload) IN <<crc % 256, crc \div 256>>

-----------------------------------------------------------------------------
(* The reference: the register of a linear feedback divider, most significant *)
(* coefficient first, after all bits have passed.                             *)

Divide(poly, bits) ==
  LET n == Len(poly)
      Shift(reg, bit) ==
        LET feedback == (reg[1] + bit) % 2
        IN  [i \in 1..n |-> ((IF i < n THEN reg[i + 1] ELSE 0) + feedback * poly[i]) % 2]
  IN  FoldLeft(Shift, [i \in 1..n |-> 1], bits)

\* x^5 + x^2 + 1 and x^16 + x^15 + x^2 + 1, with the register a sound packet leaves.
Poly5 == <<0, 0, 1, 0, 1>>
Residue5 == <<0, 1, 1, 0, 0>>
Poly16 == <<1, 0, 0, 0, 0, 0, 0, 0, 0, 0, 0, 0, 0, 1, 0, 1>>
Residue16 == <<1, 0, 0, 0, 0, 0, 0, 0, 0, 0, 0, 0, 1, 1, 0, 1>>

SoundToken(bytes) == Divide(Poly5, BitsOf(bytes)) = Residue5
SoundData(bytes) == Divide(Poly16, BitsOf(bytes)) = Residue16
=============================================================================
