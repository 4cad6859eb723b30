------------------------------- MODULE JoyCfg -------------------------------
(***************************************************************************)
(* What the decoder of the smart connection makes of the multicast frames  *)
(* of a phone (src/ejcloud/joycfg.c).  Of a frame's destination address    *)
(* the fourth byte says what it is, the fifth a number and the sixth a     *)
(* value: [kind, no, value].  The decoder is a record of its state, the    *)
(* last numbers of the prologue it heard (cmpdata), how sure it is of the  *)
(* channel, the payload and where the checksum of the payload is.          *)
(***************************************************************************)
EXTENDS Integers, Sequences, FiniteSets, SequencesExt

PayloadSize == 40   \* bound: 128 in the code; names and passwords are short here
SYNC == 118
DATA == {119, 120, 121, 122}
LAST == 122         \* the frame whose slot is the checksum

(* joycfg_init.                                                            *)
JoycfgInit == [state |-> "continue", cmpdata |-> <<0, 0, 0, 0, 0>>, prob |-> 0,
               payload |-> [i \in 0..PayloadSize - 1 |-> 0], crc |-> 0]

(* CalcSum, of the slots from first to last.                               *)
CalcSum(payload, first, last) ==
  FoldLeft(LAMBDA n, i : n + payload[i], 0, [i \in 1..(last - first + 1) |-> first + i - 1])

(* CmpListNoEncode: the channel is locked when the last five different     *)
(* numbers follow each other.  The decoder starts with five zeros.         *)
BubbleSort(a) == SortSeq(a, LAMBDA x, y : x < y)
Noted(cmpdata, no) == IF no \in ToSet(cmpdata) THEN cmpdata ELSE <<no>> \o SubSeq(cmpdata, 1, 4)
CmpList(cmpdata, no) ==
  LET a == BubbleSort(Noted(cmpdata, no)) IN
  no \notin ToSet(cmpdata) /\ \A i \in 1..4 : a[i + 1] - a[i] = 1

(* payLoadCheckNoEncode: the slots are the length of the name, that of the *)
(* password, both texts, and the sum of all that plus 10.                  *)
PayLoadCheck(payload, crc) ==
  /\ payload[crc] # 0
  /\ \A i \in 7..(crc - 1) : payload[i] # 0
  /\ (CalcSum(payload, 6, crc - 1) + 10) % 256 = payload[crc]

(* muticastAddNoEncode.                                                    *)
Surer(prob) == IF prob < 20 THEN prob + 3 ELSE prob
Prologue(d, f) ==
  LET locks == CmpList(d.cmpdata, f.no) IN
  [d EXCEPT !.cmpdata = Noted(@, f.no), !.prob = Surer(@),
            !.state = IF locks THEN "locked" ELSE @,
            !.payload = [i \in DOMAIN @ |-> IF i = f.no - 1 \/ (locks /\ i >= 5) THEN 0 ELSE @[i]]]

(* A mistake: the payload is checked only when the checksum comes.         *)
SlotCheckedLast(d, f) ==
  LET payload == [d.payload EXCEPT ![f.no - 1] = f.value]
      crc == IF f.kind = LAST THEN f.no - 1 ELSE d.crc
  IN [d EXCEPT !.payload = payload, !.crc = crc, !.prob = Surer(@),
               !.state = IF f.kind = LAST /\ PayLoadCheck(payload, crc) THEN "complete" ELSE @]
Slot(d, f) ==
  LET payload == [d.payload EXCEPT ![f.no - 1] = f.value]
      crc == IF f.kind = LAST THEN f.no - 1 ELSE d.crc
  IN [d EXCEPT !.payload = payload, !.crc = crc, !.prob = Surer(@),
               !.state = IF PayLoadCheck(payload, crc) THEN "complete" ELSE @]

MuticastAdd(d, f) ==
  CASE d.state = "continue" /\ f.kind = SYNC /\ f.value = 0 -> Prologue(d, f)
    [] d.state = "locked" /\ f.kind \in DATA -> Slot(d, f)
    [] OTHER -> d

(* jy_recv_NoEncode: only frames sent to a multicast group count, and the  *)
(* destination is the third address of a frame with QoS, else the first.   *)
JyRecv(d, frame) ==
  LET dest == IF frame.type = 136 THEN frame.addr3 ELSE frame.addr1 IN
  IF dest.group THEN MuticastAdd(d, dest) ELSE d

(* jy_get_result_NoEncode and jy_get_info.                                 *)
Text(payload, first, length) == [i \in 1..length |-> payload[first + i - 1]]
JyGetInfo(d) ==
  LET name == d.payload[6]
      password == d.payload[7]
  IN [ssid |-> Text(d.payload, 8, IF name > 32 THEN 32 ELSE name),
      pwd |-> Text(d.payload, 8 + name, IF password > 64 THEN 64 ELSE password)]
=============================================================================
