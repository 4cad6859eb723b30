------------------------------- MODULE Packets -------------------------------
(***************************************************************************)
(* The packets of the serial line and of the cloud: how they are made,     *)
(* turned into one another and put into bytes (src/ejcloud/ej_packet.c and *)
(* where its functions are called).  A packet of the serial line is a      *)
(* record with head, version, crypt, dataLen (two bytes), dataType,        *)
(* dataTypeCrc (two bytes), dataID, data and crc; one of the cloud has     *)
(* head, version, crypt, dataLen (four bytes), dataType (two), dataID      *)
(* (four), timeStamp (eight), deviceID (six) and data.                     *)
(***************************************************************************)
EXTENDS Integers, Sequences, SequencesExt, Bitwise

FixedLength == 9    \* UART2WIFIPACKET_FIXED_LENGTH
QOS_BITS == 4
ACK_BITS == 2
XorCrypt == 16      \* DATA_WITH_XOR_CRYPT

Set(flags, b) == IF (flags \div b) % 2 = 1 THEN flags ELSE flags + b
Has(flags, b) == (flags \div b) % 2 = 1
LittleEndian(n, k) == [i \in 1..k |-> (n \div 256 ^ (i - 1)) % 256]
Number(bytes) == FoldRight(LAMBDA b, n : b + 256 * n, bytes, 0)
SumOf(bytes) == FoldLeft(LAMBDA n, b : n + b, 0, bytes)
Masked(bytes) == [i \in DOMAIN bytes |-> bytes[i] ^^ 90]
MakeCrc(bytes) == (256 - (SumOf(bytes) % 256)) % 256

TypeCrc(type, length) == LittleEndian((type * 256 + type) ^^ length, 2)

(* FillCommonUart2WifiPacket with the data that follows it; id is the one  *)
(* of GetUart2WifiPacketDataID, NextDataID the one after it.               *)
NextDataID(id) == (id + 1) % 256
FillCommon(type, data, flags, id) ==
  LET length == FixedLength + Len(data) IN
  [head |-> 170, version |-> 2, crypt |-> flags, dataLen |-> LittleEndian(length, 2), dataType |-> type,
   dataTypeCrc |-> TypeCrc(type, length), dataID |-> id, data |-> data, crc |-> 0]

(* EncodeUart2WifiPacket, with the device's crypt.                         *)
EncodeUart(p, deviceCrypt) ==
  LET crypt == IF deviceCrypt = 1 THEN Set(p.crypt, XorCrypt) ELSE p.crypt IN
  [p EXCEPT !.crypt = crypt, !.data = IF Has(crypt, XorCrypt) THEN Masked(@) ELSE @]

Fixed(p) == <<p.head, p.version, p.crypt>> \o p.dataLen \o <<p.dataType>> \o p.dataTypeCrc \o <<p.dataID>>

(* EJ_PublishUart2WifiPacket: only the low byte of the length counts.      *)
PublishUart(p, qosLevel) ==
  LET q == [p EXCEPT !.crypt = IF qosLevel = 1 THEN Set(@, QOS_BITS) ELSE @]
      bytes == SubSeq(Fixed(q) \o p.data, 1, p.dataLen[1])
  IN Append(bytes, MakeCrc(Tail(bytes)))

(* What EJ_UartReceiveThread makes of the bytes of a frame after its head. *)
(* A mistake: the data stays as it was on the line.                        *)
ReadUartRaw(bytes) ==
  [head |-> 170, version |-> bytes[1], crypt |-> bytes[2], dataLen |-> SubSeq(bytes, 3, 4),
   dataType |-> bytes[5], dataTypeCrc |-> SubSeq(bytes, 6, 7), dataID |-> bytes[8],
   data |-> SubSeq(bytes, 9, Len(bytes) - 1), crc |-> Last(bytes)]
ReadUart(bytes) ==
  LET data == SubSeq(bytes, 9, Len(bytes) - 1) IN
  [head |-> 170, version |-> bytes[1], crypt |-> bytes[2], dataLen |-> SubSeq(bytes, 3, 4),
   dataType |-> bytes[5], dataTypeCrc |-> SubSeq(bytes, 6, 7), dataID |-> bytes[8],
   data |-> IF Has(bytes[2], XorCrypt) THEN Masked(data) ELSE data, crc |-> Last(bytes)]

(* MakeUart2WifiResponsePacket: the acknowledgement, without data.         *)
MakeResponse(p) ==
  [p EXCEPT !.dataLen = <<9, 0>>, !.crypt = ACK_BITS + XorCrypt, !.data = << >>,
            !.dataTypeCrc = TypeCrc(p.dataType, FixedLength)]
AckPacketCompare(p, ack) == p.dataType = ack.dataType /\ p.dataID = ack.dataID

-----------------------------------------------------------------------------
(* fillTimeStampToPackt: a is what EJ_Wlan_get_time gave.  fillDataID: an  *)
(* id of -1 is four times 255.                                             *)
FillTimeStamp(a) == <<0, a[1] % 64, a[2], a[3], a[5], a[6], 15, 20>>
FillDataID(id) == IF id < 0 THEN <<255, 255, 255, 255>> ELSE LittleEndian(id, 4)

(* convertUart2WifiPacketToWifi2CloudPacket: the whole packet is the data. *)
ToCloud(p, time, deviceID) ==
  LET length == Number(p.dataLen) IN
  [head |-> <<90, 90>>, version |-> 4, crypt |-> 17, dataLen |-> LittleEndian(44 + length + 1, 4),
   dataType |-> IF p.dataType = 32 THEN <<32, 0>> ELSE <<33, 0>>, dataID |-> << >>,
   timeStamp |-> FillTimeStamp(time), deviceID |-> deviceID,
   data |-> Fixed(p) \o SubSeq(p.data, 1, length - FixedLength) \o <<p.crc>>]

(* convertWifi2CloudPacketToUart2WifiPacket.                               *)
ToUart(c) ==
  LET d == c.data
      length == Number(SubSeq(d, 4, 5))
  IN [head |-> d[1], version |-> d[2], crypt |-> d[3], dataLen |-> SubSeq(d, 4, 5), dataType |-> d[6],
      dataTypeCrc |-> SubSeq(d, 7, 8), dataID |-> d[9], data |-> SubSeq(d, 10, length), crc |-> 0]

(* EJ_user_pub_Wifi2CloudPacket and EJ_messageArrived: eight bytes as they *)
(* are, the cipher of the others, and sixteen of a hash that nobody        *)
(* verifies.  Only the low byte of the length counts.                      *)
Head8(c) == c.head \o <<c.version, c.crypt>> \o c.dataLen
Inner(c) == SubSeq(c.dataType \o c.dataID \o c.timeStamp \o c.deviceID \o c.data, 1, c.dataLen[1] - 24)
Hash == [i \in 1..16 |-> 0]
Seal(c, cipher) == Head8(c) \o cipher \o Hash
CipherOf(bytes) == SubSeq(bytes, 9, Len(bytes) - 16)
Open(bytes, inner) ==
  [head |-> SubSeq(bytes, 1, 2), version |-> bytes[3], crypt |-> bytes[4],
   dataLen |-> SubSeq(bytes, 5, 8), dataType |-> SubSeq(inner, 1, 2),
   dataID |-> SubSeq(inner, 3, 6), timeStamp |-> SubSeq(inner, 7, 14),
   deviceID |-> SubSeq(inner, 15, 20), data |-> SubSeq(inner, 21, bytes[5] - 24)]
=============================================================================
