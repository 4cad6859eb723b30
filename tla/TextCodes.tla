------------------------------ MODULE TextCodes ------------------------------
(***************************************************************************)
(* Bytes as texts (src/ejcloud/ej_utils.c), the answer to a phone that     *)
(* looks for the module (ej_user_udpbroadcast.c), versions, and the        *)
(* addresses the access point gives (src/src/wifi_nvdm_config.c).  A       *)
(* character is its code.                                                  *)
(***************************************************************************)
EXTENDS Integers, Sequences, FiniteSets, SequencesExt, Bitwise

Digit(n) == IF n < 10 THEN 48 + n ELSE 87 + n          \* small letters
Capital(n) == IF n < 10 THEN 48 + n ELSE 55 + n

(* ChangeHex2Str, and the %02X of storeDeviceInfoDeviceid.                 *)
ChangeHex2Str(bytes) == FlattenSeq([i \in DOMAIN bytes |-> <<Digit(bytes[i] \div 16), Digit(bytes[i] % 16)>>])
StoredDid(bytes) == FlattenSeq([i \in DOMAIN bytes |-> <<Capital(bytes[i] \div 16), Capital(bytes[i] % 16)>>])

(* ChangeStrHex knows small letters, ChangeStr2Hex capitals; what is no    *)
(* letter of theirs is taken for a digit.                                  *)
Nibble(c, a) == IF c \in a..a + 5 THEN c - a + 10 ELSE c - 48
Pairs(s, a) == [i \in 1..(Len(s) \div 2) |-> (Nibble(s[2 * i - 1], a) * 16) | (Nibble(s[2 * i], a) % 256)]
ChangeStrHex(s) == Pairs(s, 97)
ChangeStr2Hex(s) == Pairs(s, 65)

(* base64_encode: three bytes are four signs, a missing byte an equal sign.*)
Base == [i \in 0..64 |-> CASE i < 26 -> 65 + i [] i < 52 -> 71 + i [] i < 62 -> i - 4
                           [] i = 62 -> 43 [] i = 63 -> 47 [] OTHER -> 61]
FindPos(c) == CHOOSE i \in 0..64 : Base[i] = c
Groups(s, k) == [i \in 1..((Len(s) + k - 1) \div k) |-> SubSeq(s, k * i - k + 1, IF k * i < Len(s) THEN k * i ELSE Len(s))]
Packed(s, k, base) == FoldLeft(LAMBDA n, i : n * base + (IF i <= Len(s) THEN s[i] ELSE 0), 0, [i \in 1..k |-> i])
Signs(group) ==
  [i \in 1..4 |-> Base[IF i - 1 > Len(group) THEN 64 ELSE (Packed(group, 3, 256) \div 64 ^ (4 - i)) % 64]]
Base64Encode(data) == LET g == Groups(data, 3) IN FlattenSeq([i \in DOMAIN g |-> Signs(g[i])])

(* base64_decode: as many bytes of a group as it has signs, at most three: *)
(* with equal signs at the end a zero comes after the last byte, which     *)
(* ends the text there.                                                    *)
EqualCount(s) == Cardinality({i \in 0..2 : i < Len(s) /\ s[Len(s) - i] = 61})
BytesOf(group) ==
  LET n == Packed([i \in DOMAIN group |-> FindPos(group[i])], 4, 64) IN
  [i \in 1..(IF Len(group) > 3 THEN 3 ELSE Len(group)) |-> (n \div 256 ^ (3 - i)) % 256]
Base64Decode(s) ==
  LET g == Groups(SubSeq(s, 1, Len(s) - EqualCount(s)), 4) IN
  FlattenSeq([i \in DOMAIN g |-> BytesOf(g[i])])

(* ej_itoa, in base 10 or 16.                                              *)
EjItoa(n, base) ==
  LET k == 1 + Cardinality({i \in 1..(IF base = 16 THEN 7 ELSE 9) : base ^ i <= n}) IN
  [i \in 1..k |-> Digit((n \div base ^ (k - i)) % base)]

(* strsplinum counts the delimiters, split gives the parts that are not    *)
(* empty: a text that does not end with one has one part more than counted.*)
StrSpliNum(s, del) == Cardinality({i \in DOMAIN s : s[i] = del})
Split(s, del) ==
  FoldLeft(LAMBDA parts, i :
             IF s[i] = del THEN parts
             ELSE IF i > 1 /\ s[i - 1] # del THEN Append(Front(parts), Append(Last(parts), s[i]))
             ELSE Append(parts, <<s[i]>>), << >>, [i \in DOMAIN s |-> i])

-----------------------------------------------------------------------------
(* UDPBroadcastThread: the parts of the datagram are a greeting, a version,*)
(* the kind of request, an ID, a number, two more and a UUID.  The kind    *)
(* getdid gives the module a UUID if it has none of 6 characters: it is    *)
(* stored under a name nothing reads at boot, while own is what the module *)
(* has in RAM.                                                             *)
GetUdpPacketType(s) ==
  CASE s = "T_call" -> 1 [] s = "T_gatewayInfo" -> 2 [] s = "T_getdid" -> 3 [] OTHER -> 0
UdpAnswer(parts, own, stored, id) ==
  LET type == GetUdpPacketType(parts[3])
      saves == type = 3 /\ own = "NULL"
      uuid == IF type = 3 THEN parts[8] ELSE own
  IN [answer |-> IF type \in {1, 3} THEN <<"Response", parts[2], parts[3], id, parts[5], uuid>> ELSE << >>,
      stored |-> IF saves THEN parts[8] ELSE stored]

(* CompareWifiModuleVersion: the cloud's version is newer, for the same    *)
(* hardware.  A version is hardware, software (two bytes), year and week.  *)
CompareWifiModuleVersion(current, upgrade) ==
  LET Of(v) == ((v.msb * 256 + v.lsb) * 256 + v.year) * 256 + v.week IN
  current.hardware = upgrade.hardware /\ Of(current) < Of(upgrade)

(* dhcpd_set_ip_pool: the larger side of the access point's own address,   *)
(* without the first and the last address.  The numbers are those of the   *)
(* host part and what is before it, of Width bits.                         *)
Width == 16
DhcpPool(ip, mask) ==
  LET first == ip & mask
      last == first | ((2 ^ Width - 1) ^^ mask)
  IN IF last - ip > ip - first THEN <<ip + 1, last - 1>> ELSE <<first + 1, ip - 1>>
=============================================================================
