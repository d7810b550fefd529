------------------------------ MODULE LineCoding ------------------------------
(* A packet on its way to the line and back: the bit stuffing and NRZI coding *)
(* of pio_usb_ll_encode_tx_data, the packets the library builds, and the      *)
(* receiver's decoder.  The levels are named as the code names the TX         *)
(* program's addresses; the line idles at K.                                  *)
EXTENDS Crc

USB_SYNC == 128
USB_PID_OUT == 225
USB_PID_IN == 105
USB_PID_SOF == 165
USB_PID_DATA0 == 195
USB_PID_DATA1 == 75
USB_PID_ACK == 210
USB_PID_NAK == 90
USB_PID_STALL == 30

-----------------------------------------------------------------------------
(* Encoding.                                                                  *)

StuffAfter == 6
LineIdle == [out |-> <<>>, level |-> "K", stuffing |-> StuffAfter]
Other(level) == IF level = "K" THEN "J" ELSE "K"

\* One symbol more: the level is kept for a 1 and changed for a 0.
Emit(s, level, stuffing) ==
  [out |-> Append(s.out, level), level |-> level, stuffing |-> stuffing]

\* Mutant: seven ones in a row before a bit is stuffed.
EncodeBit_Seven(s, bit) ==
  LET t == IF bit = 1 THEN Emit(s, s.level, s.stuffing - 1)
                      ELSE Emit(s, Other(s.level), StuffAfter)
  IN  IF t.stuffing < 0 THEN Emit(t, Other(t.level), StuffAfter) ELSE t

EncodeBit(s, bit) ==
  LET t == IF bit = 1 THEN Emit(s, s.level, s.stuffing - 1)
                      ELSE Emit(s, Other(s.level), StuffAfter)
  IN  IF t.stuffing = 0 THEN Emit(t, Other(t.level), StuffAfter) ELSE t

\* pio_usb_ll_encode_tx_data: the coded bits, end of packet, and at least one K
\* up to a whole byte of four symbols.
encode_tx_data(bytes) ==
  LET coded == FoldLeft(EncodeBit, LineIdle, BitsOf(bytes)).out \o <<"SE0", "COMP">>
      padding == 4 - (Len(coded) % 4)
  IN  coded \o [i \in 1..padding |-> "K"]

\* The length in bytes that pio_usb_ll_encode_tx_data returns, and the size its
\* callers give their buffers for a packet of n bytes.
EncodedLen(bytes) == Len(encode_tx_data(bytes)) \div 4
EncodedSize(n) == (n * 2 * 7) \div 6 + 2
HandshakeSize == 5

-----------------------------------------------------------------------------
(* The packets.                                                               *)

Token(pid, dat) == <<USB_SYNC, pid, dat % 256, calc_usb_crc5(dat) * 8 + dat \div 256>>
AddressToken(pid, addr, ep_num) == Token(pid, ep_num * 128 + addr)
SofToken(sof_count) == Token(USB_PID_SOF, sof_count % 2048)
DataPacket(pid, payload) == <<USB_SYNC, pid>> \o payload \o Crc16Bytes(payload)
Handshake(pid) == <<USB_SYNC, pid>>

-----------------------------------------------------------------------------
(* The receiver: usb_nrzi_decoder takes a bit for every level up to the end of *)
(* the packet and drops the one that follows six ones; eight bits make a byte, *)
(* and what is left of the last byte is never pushed.                          *)

LineBits(symbols) ==
  LET Decode(s, level) ==
        IF s.ones = 0 THEN [bits |-> s.bits, level |-> level, ones |-> StuffAfter]
        ELSE IF level = s.level
        THEN [bits |-> Append(s.bits, 1), level |-> level, ones |-> s.ones - 1]
        ELSE [bits |-> Append(s.bits, 0), level |-> level, ones |-> StuffAfter]
      levels == SelectInSeq(symbols, LAMBDA symbol : symbol = "SE0") - 1
  IN  FoldLeft(Decode, [bits |-> <<>>, level |-> "K", ones |-> StuffAfter],
               SubSeq(symbols, 1, levels)).bits

\* What the receiver makes of a packet when it samples early bits before SYNC.
Captured(bytes, early) == BytesOf(early \o LineBits(encode_tx_data(bytes)))
=============================================================================
