--------------------------- MODULE UartSendProofs ---------------------------
(***************************************************************************)
(* What TLAPS proves of the sending side of the serial link, for every     *)
(* number of packets, every capacity of the lists and of the line, and any *)
(* QoS level of the device: its variables have their types, the device     *)
(* gets the packets of a channel in order, no channel waits for an         *)
(* acknowledgement that is not in force, and no packet is lost although    *)
(* data IDs come back, as long as two packets of one ID can be told apart  *)
(* by a packet between them that had to be acknowledged.                   *)
(***************************************************************************)
EXTENDS UartSend, SequenceTheorems, TLAPS

-----------------------------------------------------------------------------
(* The inductive invariant, in parts. *)

Acks == [type : Channels, id : 0 .. IdMod - 1]
AnyPacket == [type : Channels, n : Nat, id : 0 .. IdMod - 1, crypt : SUBSET (0 .. 7)]
PacketFrame == [kind : {"packet"}, packet : AnyPacket, again : BOOLEAN]
ReplyFrame == [kind : {"reply"}, n : Nat]
AckFrame == [kind : {"ack"}, type : Channels, id : 0 .. IdMod - 1]
RequestFrame == [kind : {"request"}, n : Nat]

(* What the variables hold, whatever the packets are. *)
Typed ==
  /\ list \in [Channels -> Seq(AnyPacket)] /\ \A c \in Channels : Len(list[c]) <= ListCap
  /\ dataID \in [Channels -> 0 .. IdMod - 1] /\ made \in [Channels \cup {"device"} -> Nat]
  /\ pc \in {"ack", "wifi", "wifiArm", "cloud", "cloudArm", "free", "fault"}
  /\ st \in [Channels -> {"SEND", "WAIT"}] /\ cur \in [Channels -> AnyPacket \cup {NULL}]
  /\ timer \in [Channels -> BOOLEAN]
  /\ ack \in Acks \cup {NULL} /\ ackList \in Seq(Acks) /\ Len(ackList) <= ListCap
  /\ replyList \in Seq(Nat) /\ Len(replyList) <= ListCap
  /\ tx \in Seq(PacketFrame \cup ReplyFrame) /\ Len(tx) <= LineCap
  /\ rx \in Seq(AckFrame \cup RequestFrame) /\ Len(rx) <= LineCap

(* Between the stages of a turn, the packet just published is the current. *)
Armed == \A c \in Channels : pc = Arming(c) => cur[c] # NULL

(* The packets of a channel were made by its source, and history is about  *)
(* packets that were made.                                                 *)
Of(c, m, p) == p.type = c /\ p.n \in 1 .. m
Placed ==
  /\ \A c \in Channels : /\ \A i \in 1 .. Len(list[c]) : Of(c, made[c], list[c][i])
                         /\ cur[c] # NULL => Of(c, made[c], cur[c])
  /\ \A j \in 1 .. Len(tx) : tx[j].kind = "packet" => Name(tx[j].packet) \in sent
  /\ received \subseteq sent /\ sent \cup unacked \cup dropped \subseteq Names

(* The level is the device's once it is known, and 0 before; a channel     *)
(* that waits does so under QoS.                                           *)
Levelled == /\ qos \in 0 .. 2 /\ deviceQos \in 0 .. 2 /\ qosKnown \in BOOLEAN
            /\ qos = IF qosKnown THEN deviceQos ELSE 0
            /\ NeverStuck

(* The packets of a list are newer than each other, than the one being     *)
(* sent and than all that were sent, and that one is the newest of these.  *)
Newer(S, c, n) == \A x \in S : x[1] = c => x[2] < n
Ordered ==
  \A c \in Channels :
    /\ \A i, j \in 1 .. Len(list[c]) : i < j => list[c][i].n < list[c][j].n
    /\ \A i \in 1 .. Len(list[c]) :
         Newer(sent, c, list[c][i].n) /\ (cur[c] # NULL => cur[c].n < list[c][i].n)
    /\ cur[c] # NULL => Newer(sent, c, cur[c].n + 1)

(* Data IDs come back: packet number n carries the ID that the packets     *)
(* n - IdMod, n - 2 * IdMod, ... carry too.                                *)
Carries(n, id) == \E q \in Nat : n = q * IdMod + id + 1
Told(p) == Carries(p.n, p.id)
Numbered ==
  /\ \A c \in Channels : /\ Carries(made[c] + 1, dataID[c])
                         /\ \A i \in 1 .. Len(list[c]) : Told(list[c][i])
                         /\ cur[c] # NULL => Told(cur[c])
  /\ \A j \in 1 .. Len(tx) : tx[j].kind = "packet" => Told(tx[j].packet)

(* What tells two packets of one ID apart: of the IdMod - 1 packets made   *)
(* between them and before one that waits for its acknowledgement, not all *)
(* were thrown away or sent without waiting.                               *)
Distinguishable ==
  \A c \in Channels : st[c] = "WAIT" /\ cur[c] # NULL /\ cur[c].n > IdMod =>
    \E k \in 1 .. cur[c].n - 1 : k + IdMod > cur[c].n /\ <<c, k>> \notin unacked \cup dropped

(* Packet k of a channel needs no acknowledgement, or not yet; and so all  *)
(* those made after a recent packet.                                       *)
Settled(c, k) == <<c, k>> \in unacked \cup dropped \/ <<c, k>> \in Held(c)
Recent == {x \in Channels \X Nat : \A k \in x[2] + 1 .. made[x[1]] : Settled(x[1], k)}

(* While a frame or an acknowledgement of a packet is about, no packet     *)
(* made after it has been acknowledged.                                    *)
OnLine == \A j \in 1 .. Len(tx) : tx[j].kind = "packet" => Name(tx[j].packet) \in Recent

(* The acknowledgement x is of packet number n, which the device has got.  *)
Answers(x, n) == <<x.type, n>> \in received \cap Recent /\ Carries(n, x.id)

(* a, v and w are the numbers of the packets acknowledged by ack, ackList  *)
(* and rx: those of a channel come back in the order they went.            *)
Answered(a, v, w) ==
  /\ ack # NULL => Answers(ack, a)
  /\ \A i \in 1 .. Len(ackList) : Answers(ackList[i], v[i])
  /\ \A i \in 1 .. Len(rx) : rx[i].kind = "ack" => Answers(rx[i], w[i])
InTurn(a, v, w) ==
  /\ Len(v) = Len(ackList) /\ Len(w) = Len(rx)
  /\ ack # NULL =>
       /\ \A i \in 1 .. Len(ackList) : ackList[i].type = ack.type => a <= v[i]
       /\ \A i \in 1 .. Len(rx) : rx[i].kind = "ack" /\ rx[i].type = ack.type => a <= w[i]
  /\ \A i \in 1 .. Len(ackList) :
       /\ \A j \in 1 .. Len(ackList) :
            i < j /\ ackList[j].type = ackList[i].type => v[i] <= v[j]
       /\ \A j \in 1 .. Len(rx) :
            rx[j].kind = "ack" /\ rx[j].type = ackList[i].type => v[i] <= w[j]
  /\ \A i, j \in 1 .. Len(rx) :
       i < j /\ rx[i].kind = "ack" /\ rx[j].kind = "ack" /\ rx[j].type = rx[i].type => w[i] <= w[j]
Traced(a, v, w) == Answered(a, v, w) /\ InTurn(a, v, w)
Followed == \E a \in Nat, v \in Seq(Nat), w \in Seq(Nat) : Traced(a, v, w)

-----------------------------------------------------------------------------
(* Packets, frames and lists. *)

(* No packet is NULL. *)
LEMMA PacketNotNull == NULL \notin AnyPacket
<1>1. AnyPacket \subseteq [type : Channels, n : Nat, id : Nat, crypt : SUBSET Nat]
  BY UartAssumption DEF AnyPacket
<1> QED
  BY <1>1, NullAssumption

(* Setting bits of a packet's crypt byte leaves the rest of it.            *)
LEMMA CryptSet ==
  ASSUME NEW p \in AnyPacket, NEW bits \in SUBSET (0 .. 7)
  PROVE  LET q == [p EXCEPT !.crypt = bits]
         IN q \in AnyPacket /\ q.type = p.type /\ q.n = p.n /\ q.id = p.id /\ q.crypt = bits
BY DEF AnyPacket

(* Setting a bit of crypt keeps the others.                                *)
LEMMA SetBitType ==
  ASSUME NEW crypt \in SUBSET (0 .. 7), NEW n
  PROVE  SetBit(crypt, n) \in SUBSET (0 .. 7) /\ crypt \subseteq SetBit(crypt, n)
BY DEF SetBit

(* p and q are the same packet, with more bits set.                        *)
Same(p, q) == /\ q \in AnyPacket /\ q.type = p.type /\ q.n = p.n /\ q.id = p.id
              /\ p.crypt \subseteq q.crypt

(* Publishing sets bits of crypt only.                                     *)
LEMMA PublishedSame ==
  ASSUME NEW p \in AnyPacket
  PROVE  Same(p, Published(p))
<1>1. p.crypt \in SUBSET (0 .. 7)
  BY DEF AnyPacket
<1>2. CASE qos = 1
  BY <1>1, <1>2, CryptSet, SetBitType DEF Published, Same
<1>3. CASE qos # 1
  BY <1>1, <1>3 DEF Published, Same
<1> QED
  BY <1>2, <1>3

(* What goes on the line is the packet as published.                       *)
LEMMA FrameType ==
  ASSUME NEW p \in AnyPacket
  PROVE  /\ Frame(p) \in PacketFrame
         /\ Frame(p).kind = "packet" /\ Frame(p).packet = Published(p)
<1>1. Published(p) \in AnyPacket
  BY PublishedSame DEF Same
<1> QED
  BY <1>1 DEF Frame, PacketFrame

(* A packet made under the next data ID.                                   *)
LEMMA PacketType ==
  ASSUME NEW c \in Channels, NEW n \in Nat, NEW id \in 0 .. IdMod - 1, NEW bits \in SUBSET (0 .. 7)
  PROVE  /\ Packet(c, n, id, bits) \in AnyPacket
         /\ Packet(c, n, id, bits).type = c /\ Packet(c, n, id, bits).n = n
         /\ Packet(c, n, id, bits).id = id
BY DEF Packet, AnyPacket

(* What is taken from a list, and what is left in it.                      *)
LEMMA Taken ==
  ASSUME NEW S, NEW s \in Seq(S), s # << >>
  PROVE  /\ Len(s) \in Nat /\ Len(s) > 0 /\ Head(s) = s[1] /\ Head(s) \in S
         /\ Tail(s) \in Seq(S) /\ Len(Tail(s)) = Len(s) - 1
         /\ \A i \in 1 .. Len(Tail(s)) : Tail(s)[i] = s[i + 1] /\ i + 1 \in 1 .. Len(s)
<1>1. Len(s) \in Nat /\ Len(s) > 0
  BY EmptySeq, LenProperties
<1> QED
  BY <1>1, HeadTailProperties

(* What a sequence holds after one more was appended.                      *)
LEMMA Added ==
  ASSUME NEW S, NEW s \in Seq(S), NEW x \in S
  PROVE  /\ Append(s, x) \in Seq(S) /\ Len(s) \in Nat /\ Len(Append(s, x)) = Len(s) + 1
         /\ \A i \in 1 .. Len(s) : Append(s, x)[i] = s[i]
         /\ Append(s, x)[Len(s) + 1] = x
BY AppendProperties, LenProperties

(* A full list takes nothing.                                              *)
LEMMA PushIfRoomValue ==
  ASSUME NEW S, NEW s \in Seq(S), Len(s) <= ListCap, NEW x \in S
  PROVE  /\ PushIfRoom(s, x) \in Seq(S) /\ Len(PushIfRoom(s, x)) <= ListCap
         /\ \A i \in 1 .. Len(PushIfRoom(s, x)) :
              PushIfRoom(s, x)[i] = x \/ (i \in 1 .. Len(s) /\ PushIfRoom(s, x)[i] = s[i])
<1>1. ListCap \in Nat
  BY UartAssumption
<1>2. CASE Len(s) < ListCap
  <2>1. PushIfRoom(s, x) = Append(s, x)
    BY <1>2 DEF PushIfRoom
  <2> QED
    BY <1>1, <1>2, <2>1, Added
<1>3. CASE ~ Len(s) < ListCap
  BY <1>3 DEF PushIfRoom
<1> QED
  BY <1>2, <1>3

-----------------------------------------------------------------------------
(* The types of the variables. *)

(* They hold at the start.                                                 *)
LEMMA TypedInit == Init => Typed
<1> SUFFICES ASSUME Init PROVE Typed
  OBVIOUS
<1>1. 0 \in 0 .. IdMod - 1 /\ ListCap \in Nat /\ LineCap \in Nat
  BY UartAssumption
<1>2. \A S : << >> \in Seq(S) /\ Len(<< >>) = 0
  BY EmptySeq
<1> QED
  BY <1>1, <1>2 DEF Init, Typed

(* Every step keeps them.                                                  *)
LEMMA TypedNext == Typed /\ Armed /\ [Next]_vars => Typed'
<1> SUFFICES ASSUME Typed, Armed, [Next]_vars PROVE Typed'
  OBVIOUS
<1>n. /\ IdMod \in Nat /\ IdMod > 0 /\ ListCap \in Nat /\ LineCap \in Nat
      /\ Channels = {"wifi", "cloud"}
  BY UartAssumption DEF Channels
<1> DEFINE F == PacketFrame \cup ReplyFrame
           G == AckFrame \cup RequestFrame
<1>1. CASE UNCHANGED vars
  BY <1>1 DEF Typed, vars, lists, channels, level
<1>2. CASE PopAck
  <2>1. ackList # << >> => /\ Head(ackList) \in Acks /\ Tail(ackList) \in Seq(Acks)
                           /\ Len(Tail(ackList)) <= ListCap
    BY Taken, <1>n DEF Typed
  <2> QED
    BY <1>2, <2>1 DEF PopAck, Typed, lists, channels, level
<1>3. CASE FreeAckAndReply
  <2>1. replyList # << >> => /\ Head(replyList) \in Nat /\ Tail(replyList) \in Seq(Nat)
                             /\ Len(Tail(replyList)) <= ListCap
    BY Taken, <1>n DEF Typed
  <2>2. \A n \in Nat : [kind |-> "reply", n |-> n] \in F
    BY DEF ReplyFrame
  <2>3. ASSUME Len(tx) < LineCap, NEW x \in F
        PROVE  Append(tx, x) \in Seq(F) /\ Len(Append(tx, x)) <= LineCap
    BY <2>3, <1>n, Added DEF Typed
  <2> HIDE DEF F
  <2> QED
    BY <1>3, <2>1, <2>2, <2>3 DEF FreeAckAndReply, Typed, lists, channels, level, F
<1>4. CASE ConvertFails
  <2>1. /\ Tail(list["cloud"]) \in Seq(AnyPacket)
        /\ Len(Tail(list["cloud"])) <= ListCap
    BY <1>4, Taken, <1>n DEF Typed, ConvertFails
  <2> QED
    BY <1>4, <1>n, <2>1 DEF ConvertFails, Typed, channels, level, After
<1>5. CASE WaitOnNull
  BY <1>5, <1>n DEF WaitOnNull, Typed, lists, level
<1>6. ASSUME NEW c \in Channels, NEW p \in AnyPacket, Publish(c, p)
      PROVE  /\ tx' \in Seq(F) /\ Len(tx') <= LineCap
             /\ cur' \in [Channels -> AnyPacket \cup {NULL}]
             /\ pc' \in {"wifiArm", "cloudArm"}
  <2>1. Frame(p) \in F /\ Published(p) \in AnyPacket
    BY FrameType, PublishedSame DEF Same
  <2> QED
    BY <1>6, <1>n, <2>1, Added DEF Publish, Typed, Arming
<1>7. ASSUME NEW c \in Channels, SendCurrent(c) PROVE Typed'
  <2>1. cur[c] \in AnyPacket
    BY <1>7 DEF SendCurrent, Typed
  <2>2. Publish(c, cur[c])
    BY <1>7 DEF SendCurrent
  <2>3. tx' \in Seq(F) /\ Len(tx') <= LineCap /\ cur' \in [Channels -> AnyPacket \cup {NULL}]
        /\ pc' \in {"wifiArm", "cloudArm"}
    BY <1>6, <2>1, <2>2
  <2> QED
    BY <1>7, <2>3 DEF SendCurrent, Typed, lists, level
<1>8. ASSUME NEW c \in Channels, SendNext(c) PROVE Typed'
  <2>1. /\ Head(list[c]) \in AnyPacket /\ Tail(list[c]) \in Seq(AnyPacket)
        /\ Len(Tail(list[c])) <= ListCap
    BY <1>8, Taken, <1>n DEF SendNext, Typed
  <2>2. Publish(c, Head(list[c]))
    BY <1>8 DEF SendNext
  <2>3. tx' \in Seq(F) /\ Len(tx') <= LineCap /\ cur' \in [Channels -> AnyPacket \cup {NULL}]
        /\ pc' \in {"wifiArm", "cloudArm"}
    BY <1>6, <2>1, <2>2
  <2> QED
    BY <1>8, <2>1, <2>3 DEF SendNext, Typed, level
<1>9. ASSUME NEW c \in Channels, NEW bits \in SUBSET (0 .. 7), cur[c] # NULL
      PROVE  [cur EXCEPT ![c].crypt = bits] \in [Channels -> AnyPacket \cup {NULL}]
  <2>1. [cur[c] EXCEPT !.crypt = bits] \in AnyPacket
    BY <1>9, CryptSet DEF Typed
  <2> QED
    BY <2>1 DEF Typed
<1>10. ASSUME NEW c \in Channels, \/ NothingToSend(c) \/ NoAckAwaited(c) \/ Acked(c)
                                  \/ TimerExpires(c)
       PROVE  Typed'
  BY <1>10, <1>n DEF NothingToSend, NoAckAwaited, Acked, Waiting, TimerExpires, Typed, lists,
                     channels, level, After, Reopened
<1>11. ASSUME NEW c \in Channels, AwaitAck(c) \/ NoAckYet(c) \/ Resend(c) PROVE Typed'
  <2>1. ASSUME cur[c] # NULL
        PROVE  /\ SetBit(cur[c].crypt, QosBit) \in SUBSET (0 .. 7)
               /\ Kept(c) \in SUBSET (0 .. 7)
               /\ SetBit(Kept(c), 8) \in SUBSET (0 .. 7)
    <3>1. cur[c].crypt \in SUBSET (0 .. 7)
      BY <2>1 DEF Typed, AnyPacket
    <3> QED
      BY <3>1, SetBitType DEF Kept
  <2>2. CASE AwaitAck(c)
    <3>1. cur' \in [Channels -> AnyPacket \cup {NULL}]
      <4>1. cur[c] # NULL
        BY <2>2 DEF Armed, AwaitAck
      <4>2. CASE c = "cloud"
        BY <1>9, <2>1, <2>2, <4>1, <4>2 DEF AwaitAck
      <4>3. CASE c # "cloud"
        BY <2>2, <4>3 DEF AwaitAck, Typed
      <4> QED
        BY <4>2, <4>3
    <3> QED
      BY <2>2, <3>1, <1>n DEF AwaitAck, Typed, lists, level, After
  <2>3. CASE NoAckYet(c)
    <3>1. cur' \in [Channels -> AnyPacket \cup {NULL}]
      BY <1>9, <2>1, <2>3 DEF NoAckYet, Typed
    <3> QED
      BY <2>3, <3>1, <1>n DEF NoAckYet, Typed, lists, level, After
  <2>4. CASE Resend(c)
    <3>1. cur' \in [Channels -> AnyPacket \cup {NULL}]
      BY <1>9, <2>1, <2>4 DEF Resend, Waiting
    <3> QED
      BY <2>4, <3>1, <1>n DEF Resend, Waiting, Typed, lists, level, After
  <2> QED
    BY <1>11, <2>2, <2>3, <2>4
<1>12. ASSUME NEW c \in Channels, NEW bits \in SUBSET (0 .. 7), Submit(c, bits) PROVE Typed'
  <2> DEFINE p == Packet(c, made[c] + 1, dataID[c], bits)
  <2>1. made[c] + 1 \in Nat /\ dataID[c] \in 0 .. IdMod - 1
    BY DEF Typed
  <2>2. p \in AnyPacket
    BY <2>1, PacketType
  <2>3. (dataID[c] + 1) % IdMod \in 0 .. IdMod - 1
    BY <2>1, <1>n
  <2>4. Len(list[c]) < ListCap => /\ Append(list[c], p) \in Seq(AnyPacket)
                                  /\ Len(Append(list[c], p)) <= ListCap
    BY <2>2, <1>n, Added DEF Typed
  <2>5. /\ list' = IF Len(list[c]) < ListCap THEN [list EXCEPT ![c] = Append(@, p)] ELSE list
        /\ dataID' = [dataID EXCEPT ![c] = (@ + 1) % IdMod]
        /\ made' = [made EXCEPT ![c] = made[c] + 1]
        /\ UNCHANGED <<pc, channels, ack, ackList, replyList, tx, rx>>
    BY <1>12 DEF Submit
  <2> HIDE DEF p
  <2>6. list' \in [Channels -> Seq(AnyPacket)] /\ \A d \in Channels : Len(list'[d]) <= ListCap
    BY <2>4, <2>5 DEF Typed
  <2>7. dataID' \in [Channels -> 0 .. IdMod - 1]
    BY <2>3, <2>5 DEF Typed
  <2>8. made' \in [Channels \cup {"device"} -> Nat]
    BY <2>1, <2>5 DEF Typed
  <2> QED
    BY <2>5, <2>6, <2>7, <2>8 DEF Typed, channels
<1>13. CASE ReadDeviceQosResponse \/ QosQueryGivenUp \/ RestartUart
  BY <1>13, <1>n DEF ReadDeviceQosResponse, QosQueryGivenUp, RestartUart, Typed, lists
<1>14. ASSUME tx # << >>, tx' = Tail(tx) PROVE tx' \in Seq(F) /\ Len(tx') <= LineCap
  BY <1>14, <1>n, Taken DEF Typed
<1>15. ASSUME rx # << >>, rx' = Tail(rx) PROVE rx' \in Seq(G) /\ Len(rx') <= LineCap
  BY <1>15, <1>n, Taken DEF Typed
<1>16. ASSUME NEW x \in G, Len(rx) < LineCap, rx' = Append(rx, x)
       PROVE  rx' \in Seq(G) /\ Len(rx') <= LineCap
  BY <1>16, <1>n, Added DEF Typed
<1>17. CASE DeviceGetsReply \/ FrameLost
  BY <1>14, <1>15, <1>17 DEF DeviceGetsReply, FrameLost, Typed, lists, channels, level
<1>18. ASSUME NEW c \in Channels, DeviceReceives(c) PROVE Typed'
  <2> DEFINE p == Head(tx).packet
  <2>1. p \in AnyPacket
    BY <1>18, Taken DEF DeviceReceives, Typed, PacketFrame, ReplyFrame
  <2>2. [kind |-> "ack", type |-> c, id |-> p.id] \in G
    BY <2>1 DEF AckFrame, AnyPacket
  <2>3. \/ UNCHANGED rx
        \/ Len(rx) < LineCap /\ rx' = Append(rx, [kind |-> "ack", type |-> c, id |-> p.id])
    BY <1>18 DEF DeviceReceives
  <2>4. rx' \in Seq(G) /\ Len(rx') <= LineCap
    BY <2>2, <2>3, <1>16 DEF Typed
  <2>5. tx # << >> /\ tx' = Tail(tx)
        /\ UNCHANGED <<lists, pc, channels, ack, ackList, replyList, level>>
    BY <1>18 DEF DeviceReceives
  <2> QED
    BY <2>4, <2>5, <1>14 DEF Typed, lists, channels
<1>19. CASE DeviceRequests
  <2>1. made["device"] + 1 \in Nat
    BY DEF Typed
  <2>2. [kind |-> "request", n |-> made["device"] + 1] \in G
    BY <2>1 DEF RequestFrame
  <2>3. rx' \in Seq(G) /\ Len(rx') <= LineCap
    BY <1>19, <1>16, <2>2 DEF DeviceRequests
  <2> QED
    BY <1>19, <2>1, <2>3 DEF DeviceRequests, Typed, channels, level
<1>20. ASSUME NEW c \in Channels, ReceiveAck(c) PROVE Typed'
  <2>1. [type |-> c, id |-> Head(rx).id] \in Acks
    BY <1>20, Taken DEF ReceiveAck, Typed, AckFrame, RequestFrame, Acks
  <2> DEFINE a == [type |-> c, id |-> Head(rx).id]
  <2>2. /\ PushIfRoom(ackList, a) \in Seq(Acks) /\ Len(PushIfRoom(ackList, a)) <= ListCap
    <3>1. ackList \in Seq(Acks) /\ Len(ackList) <= ListCap
      BY DEF Typed
    <3> QED
      BY <2>1, <3>1, PushIfRoomValue
  <2>3. ackList' \in Seq(Acks) /\ Len(ackList') <= ListCap
    BY <1>20, <2>2 DEF ReceiveAck
  <2> QED
    BY <1>20, <1>15, <2>3 DEF ReceiveAck, Typed, lists, channels, level
<1>21. CASE ReceiveRequest
  <2>1. Head(rx).n \in Nat
    BY <1>21, Taken DEF ReceiveRequest, Typed, AckFrame, RequestFrame
  <2>2. replyList \in Seq(Nat) /\ Len(replyList) <= ListCap
    BY DEF Typed
  <2>3. /\ PushIfRoom(replyList, Head(rx).n) \in Seq(Nat)
        /\ Len(PushIfRoom(replyList, Head(rx).n)) <= ListCap
    BY <2>1, <2>2, PushIfRoomValue
  <2>4. replyList' \in Seq(Nat) /\ Len(replyList') <= ListCap
    BY <1>21, <2>2, <2>3 DEF ReceiveRequest
  <2> QED
    BY <1>21, <1>15, <2>4 DEF ReceiveRequest, Typed, lists, channels, level
<1>22. \A bits \in {{}, {QosBit}} : bits \in SUBSET (0 .. 7)
  BY DEF QosBit
<1>23. CASE SendThread
  BY <1>2, <1>3, <1>4, <1>5, <1>7, <1>8, <1>10, <1>11, <1>23 DEF SendThread
<1>24. CASE Environment
  BY <1>10, <1>12, <1>13, <1>17, <1>18, <1>19, <1>20, <1>21, <1>22, <1>24
     DEF Environment, Channels
<1> QED
  BY <1>1, <1>23, <1>24 DEF Next

(* A published packet is no longer NULL, and while a stage is left between *)
(* publishing and deciding no other step takes the packet away.            *)
LEMMA ArmedNext == Typed /\ Armed /\ [Next]_vars => Armed'
<1> SUFFICES ASSUME Typed, Armed, [Next]_vars PROVE Armed'
  OBVIOUS
<1>1. ASSUME UNCHANGED <<pc, cur>> PROVE Armed'
  BY <1>1 DEF Armed
<1>2. ASSUME NEW c \in Channels, NEW p \in AnyPacket, Publish(c, p) PROVE Armed'
  <2>1. Published(p) # NULL
    BY PublishedSame, PacketNotNull DEF Same
  <2> QED
    BY <1>2, <2>1 DEF Publish, Armed, Arming, Typed, Channels
<1>3. ASSUME NEW c \in Channels, SendCurrent(c) PROVE Armed'
  BY <1>2, <1>3 DEF SendCurrent, Typed
<1>4. ASSUME NEW c \in Channels, SendNext(c) PROVE Armed'
  BY <1>2, <1>4, Taken DEF SendNext, Typed
<1>5. ASSUME pc' \in {"ack", "wifi", "cloud", "free", "fault"} PROVE Armed'
  BY <1>5 DEF Armed, Arming
<1>6. CASE PopAck \/ FreeAckAndReply \/ ConvertFails \/ WaitOnNull
  BY <1>5, <1>6 DEF PopAck, FreeAckAndReply, ConvertFails, WaitOnNull, After
<1>7. ASSUME NEW c \in Channels, \/ NothingToSend(c) \/ AwaitAck(c) \/ NoAckAwaited(c)
                                 \/ Acked(c) \/ NoAckYet(c) \/ Resend(c)
      PROVE  Armed'
  BY <1>5, <1>7 DEF NothingToSend, AwaitAck, NoAckAwaited, Acked, NoAckYet, Resend, Waiting, After
<1>8. CASE Environment
  BY <1>1, <1>8 DEF Environment, Submit, ReadDeviceQosResponse, QosQueryGivenUp, RestartUart,
     DeviceGetsReply, DeviceRequests, FrameLost, ReceiveRequest, TimerExpires, DeviceReceives,
     ReceiveAck, channels
<1>9. CASE UNCHANGED vars
  BY <1>1, <1>9 DEF vars, channels
<1> QED
  BY <1>3, <1>4, <1>6, <1>7, <1>8, <1>9 DEF Next, SendThread

-----------------------------------------------------------------------------
(* What the steps do to the packets. *)

(* A channel that waits, or begins to, may set bits of its current packet. *)
Marks(c) == /\ cur[c] # NULL /\ cur'[c] # NULL /\ Same(cur[c], cur'[c])
            /\ \A d \in Channels \ {c} : cur'[d] = cur[d]
            /\ UNCHANGED <<lists, ack, ackList, tx, rx, history>>

(* While it waits for an acknowledgement a channel only sets bits.         *)
LEMMA BitsSet ==
  ASSUME Typed, Armed, NEW c \in Channels, AwaitAck(c) \/ NoAckYet(c) \/ Resend(c)
  PROVE  Marks(c)
<1>1. cur[c] # NULL
  BY DEF AwaitAck, NoAckYet, Resend, Waiting, Armed
<1>2. cur[c] \in AnyPacket /\ cur[c].crypt \in SUBSET (0 .. 7)
  BY <1>1 DEF Typed, AnyPacket
<1>3. /\ cur[c].crypt \subseteq SetBit(cur[c].crypt, QosBit)
      /\ Kept(c) \in SUBSET (0 .. 7) /\ cur[c].crypt \subseteq Kept(c)
      /\ Kept(c) \subseteq SetBit(Kept(c), 8)
  BY <1>2, SetBitType DEF Kept
<1>4. PICK bits \in SUBSET (0 .. 7) : cur[c].crypt \subseteq bits
                                     /\ cur' \in {cur, [cur EXCEPT ![c].crypt = bits]}
  BY <1>2, <1>3, SetBitType DEF AwaitAck, NoAckYet, Resend
<1>5. Same(cur[c], [cur[c] EXCEPT !.crypt = bits]) /\ Same(cur[c], cur[c])
  BY <1>2, <1>4, CryptSet DEF Same
<1>6. cur'[c] \in {cur[c], [cur[c] EXCEPT !.crypt = bits]}
      /\ \A d \in Channels \ {c} : cur'[d] = cur[d]
  BY <1>4 DEF Typed
<1>7. Same(cur[c], cur'[c])
  BY <1>5, <1>6
<1>8. cur'[c] # NULL
  BY <1>7, PacketNotNull DEF Same
<1> QED
  BY <1>1, <1>6, <1>7, <1>8 DEF Marks, AwaitAck, NoAckYet, Resend, Waiting

(* A channel publishes its current packet or else the next of its list.    *)
Sends(c, p) ==
  /\ p \in AnyPacket /\ cur'[c] # NULL /\ Same(p, cur'[c])
  /\ \A d \in Channels \ {c} : cur'[d] = cur[d]
  /\ \/ cur[c] = p /\ p # NULL /\ UNCHANGED list
     \/ /\ cur[c] = NULL /\ list[c] # << >> /\ p = Head(list[c])
        /\ list' = [list EXCEPT ![c] = Tail(@)]
  /\ sent' = sent \cup {Name(p)}
  /\ \E f \in PacketFrame : f.packet = cur'[c] /\ tx' = Append(tx, f)
  /\ UNCHANGED <<dataID, made, ack, ackList, rx, received, unacked, dropped>>

(* A channel that sends puts one packet on the line.                       *)
LEMMA SendShape ==
  ASSUME Typed, NEW c \in Channels, SendCurrent(c) \/ SendNext(c)
  PROVE  \E p \in AnyPacket : Sends(c, p)
<1>1. ASSUME NEW p \in AnyPacket, Publish(c, p)
      PROVE  /\ cur'[c] # NULL /\ Same(p, cur'[c]) /\ sent' = sent \cup {Name(p)}
             /\ \A d \in Channels \ {c} : cur'[d] = cur[d]
             /\ \E f \in PacketFrame : f.packet = cur'[c] /\ tx' = Append(tx, f)
  <2>1. cur'[c] = Published(p) /\ \A d \in Channels \ {c} : cur'[d] = cur[d]
    BY <1>1 DEF Publish, Typed
  <2>2. Same(p, Published(p)) /\ Published(p) # NULL
    BY PublishedSame, PacketNotNull DEF Same
  <2>3. Frame(p) \in PacketFrame /\ Frame(p).packet = Published(p)
    BY FrameType
  <2> QED
    BY <1>1, <2>1, <2>2, <2>3 DEF Publish
<1>2. CASE SendCurrent(c)
  <2>1. cur[c] \in AnyPacket /\ Publish(c, cur[c])
    BY <1>2 DEF SendCurrent, Typed
  <2> QED
    BY <1>1, <1>2, <2>1 DEF SendCurrent, Sends, lists
<1>3. CASE SendNext(c)
  <2>1. Head(list[c]) \in AnyPacket /\ Publish(c, Head(list[c]))
    BY <1>3, Taken DEF SendNext, Typed
  <2> QED
    BY <1>1, <1>3, <2>1 DEF SendNext, Sends
<1> QED
  BY <1>2, <1>3

(* The first frame leaves the line; the device may have got its packet.    *)
LineMoves == /\ tx # << >> /\ tx' = Tail(tx)
             /\ \/ UNCHANGED received
                \/ /\ Head(tx).kind = "packet"
                   /\ received' = received \cup {Name(Head(tx).packet)}
             /\ UNCHANGED <<lists, cur, sent, unacked, dropped>>

(* A reply of the module joins the line.                                   *)
Replies == /\ \E f \in ReplyFrame : tx' = Append(tx, f)
           /\ UNCHANGED <<lists, cur, history>>

(* Nothing happens to a packet.                                            *)
Calm == /\ UNCHANGED <<list, dataID, cur, tx, history>>
        /\ \A c \in Channels : made'[c] = made[c]

(* Every step of the module or of its environment is of one of these kinds.*)
LEMMA StepShapes ==
  ASSUME Typed, Armed, [Next]_vars
  PROVE  \/ \E c \in Channels, bits \in SUBSET (0 .. 7) : Submit(c, bits)
         \/ \E c \in Channels : \E p \in AnyPacket : Sends(c, p)
         \/ \E c \in Channels : Marks(c) \/ NoAckAwaited(c) \/ Acked(c)
         \/ ConvertFails \/ LineMoves \/ Replies \/ Calm
<1>1. CASE UNCHANGED vars
  BY <1>1 DEF Calm, vars, lists, channels
<1>2. CASE PopAck \/ WaitOnNull
  BY <1>2 DEF PopAck, WaitOnNull, Calm, lists, channels
<1>3. CASE FreeAckAndReply
  <2>1. CASE UNCHANGED tx
    BY <1>3, <2>1 DEF FreeAckAndReply, Calm, lists, channels
  <2>2. CASE replyList # << >> /\ tx' = Append(tx, [kind |-> "reply", n |-> Head(replyList)])
    <3>1. Head(replyList) \in Nat
      BY <2>2, Taken DEF Typed
    <3>2. [kind |-> "reply", n |-> Head(replyList)] \in ReplyFrame
      BY <3>1 DEF ReplyFrame
    <3> QED
      BY <1>3, <2>2, <3>2 DEF FreeAckAndReply, Replies, channels
  <2> QED
    BY <1>3, <2>1, <2>2 DEF FreeAckAndReply
<1>4. ASSUME NEW c \in Channels, NothingToSend(c) PROVE Calm
  BY <1>4 DEF NothingToSend, Calm, lists, channels
<1>5. CASE SendThread
  BY <1>2, <1>3, <1>4, <1>5, SendShape, BitsSet DEF SendThread
<1>6. CASE ReadDeviceQosResponse \/ QosQueryGivenUp \/ RestartUart
  BY <1>6 DEF ReadDeviceQosResponse, QosQueryGivenUp, RestartUart, Calm, lists
<1>7. CASE DeviceGetsReply \/ FrameLost
  BY <1>7 DEF DeviceGetsReply, FrameLost, LineMoves, Calm, lists, channels, history
<1>8. CASE DeviceRequests \/ ReceiveRequest
  BY <1>8 DEF DeviceRequests, ReceiveRequest, Calm, Typed, Channels, lists, channels
<1>9. ASSUME NEW c \in Channels, TimerExpires(c) \/ ReceiveAck(c) PROVE Calm
  BY <1>9 DEF TimerExpires, ReceiveAck, Calm, lists, channels
<1>10. ASSUME NEW c \in Channels, DeviceReceives(c) PROVE LineMoves
  BY <1>10 DEF DeviceReceives, LineMoves, channels
<1>11. "wifi" \in Channels /\ "cloud" \in Channels
       /\ \A bits \in {{}, {QosBit}} : bits \in SUBSET (0 .. 7)
  BY DEF QosBit, Channels
<1>12. CASE Environment
  BY <1>6, <1>7, <1>8, <1>9, <1>10, <1>11, <1>12 DEF Environment
<1> QED
  BY <1>1, <1>5, <1>12 DEF Next

-----------------------------------------------------------------------------
(* The QoS level. *)

(* Every step keeps the level, and the promise that a channel that waits   *)
(* does so under QoS: the level only leaves 0 for the device's own, the    *)
(* bits of the current packet are never reset.                             *)
LEMMA LevelledNext == Typed /\ Armed /\ Levelled /\ [Next]_vars => Levelled'
<1> SUFFICES ASSUME Typed, Armed, Levelled, [Next]_vars PROVE Levelled'
  OBVIOUS
<1> DEFINE Forced(p, q) == (QosBit \in p.crypt /\ q # 0) \/ q = 1
<1>1. ASSUME UNCHANGED <<st, cur, level>> PROVE Levelled'
  BY <1>1 DEF Levelled, NeverStuck, QosInForce, level
<1>2. CASE ReadDeviceQosResponse
  <2>1. qos' # qos => qos = 0 /\ qos' = deviceQos
    BY <1>2 DEF ReadDeviceQosResponse, Levelled
  <2> QED
    BY <1>2, <2>1 DEF ReadDeviceQosResponse, Levelled, NeverStuck, QosInForce
<1>3. CASE QosQueryGivenUp
  BY <1>3 DEF QosQueryGivenUp, Levelled, NeverStuck, QosInForce
<1>4. ASSUME NEW c \in Channels, st[c] = "SEND", UNCHANGED <<st, level>>,
             \A d \in Channels \ {c} : cur'[d] = cur[d]
      PROVE  Levelled'
  BY <1>4 DEF Levelled, NeverStuck, QosInForce, level
<1>5. ASSUME NEW c \in Channels, SendCurrent(c) \/ SendNext(c) PROVE Levelled'
  <2>1. /\ st[c] = "SEND" /\ UNCHANGED <<st, level>>
        /\ \A d \in Channels \ {c} : cur'[d] = cur[d]
    BY <1>5 DEF SendCurrent, SendNext, Publish, Typed
  <2> QED
    BY <1>4, <2>1
<1>6. ASSUME NEW c \in Channels, UNCHANGED level, cur' \in [Channels -> AnyPacket \cup {NULL}],
             st' \in [Channels -> {"SEND", "WAIT"}],
             st'[c] = "WAIT" /\ cur'[c] # NULL => Forced(cur'[c], qos),
             \A d \in Channels \ {c} : cur'[d] = cur[d] /\ (st'[d] = "SEND" \/ st'[d] = st[d])
      PROVE  Levelled'
  BY <1>6 DEF Levelled, NeverStuck, QosInForce, level
<1>7. ASSUME NEW c \in Channels, AwaitAck(c) \/ NoAckYet(c) \/ Resend(c)
      PROVE  /\ \A d \in Channels \ {c} : cur'[d] = cur[d]
             /\ cur[c].crypt \subseteq cur'[c].crypt
  BY <1>7, BitsSet DEF Marks, Same
<1>8. ASSUME NEW c \in Channels, AwaitAck(c) \/ NoAckYet(c) \/ Resend(c) PROVE Levelled'
  <2>1. cur[c] # NULL
    BY <1>8 DEF AwaitAck, NoAckYet, Resend, Waiting, Armed
  <2>2. QosInForce(cur[c])
    BY <1>8, <2>1 DEF AwaitAck, NoAckYet, Resend, Waiting, Levelled, NeverStuck
  <2>3. Forced(cur'[c], qos)
    BY <1>7, <1>8, <2>1, <2>2 DEF QosInForce
  <2>4. st' \in [Channels -> {"SEND", "WAIT"}] /\ UNCHANGED level
        /\ \A d \in Channels \ {c} : st'[d] = st[d]
    BY <1>8 DEF AwaitAck, NoAckYet, Resend, Typed
  <2>5. cur' \in [Channels -> AnyPacket \cup {NULL}]
    <3>1. Typed'
      BY TypedNext
    <3> QED
      BY <3>1 DEF Typed
  <2> QED
    <3>1. \A d \in Channels \ {c} : cur'[d] = cur[d]
      BY <1>7, <1>8, <2>1
    <3> HIDE DEF Forced
    <3> QED
      BY <1>6, <2>3, <2>4, <2>5, <3>1
<1>9. ASSUME NEW c \in Channels, Acked(c) \/ NoAckAwaited(c) PROVE Levelled'
  <2>1. /\ UNCHANGED level /\ cur' = [cur EXCEPT ![c] = NULL]
        /\ st' \in {st, [st EXCEPT !["wifi"] = "SEND"]}
    BY <1>9 DEF Acked, NoAckAwaited, Reopened
  <2>2. /\ cur' \in [Channels -> AnyPacket \cup {NULL}] /\ st' \in [Channels -> {"SEND", "WAIT"}]
        /\ cur'[c] = NULL /\ \A d \in Channels \ {c} : cur'[d] = cur[d]
        /\ \A d \in Channels : st'[d] = "SEND" \/ st'[d] = st[d]
    BY <2>1 DEF Typed
  <2> HIDE DEF Forced
  <2> QED
    BY <1>6, <2>1, <2>2
<1>10. CASE WaitOnNull
  BY <1>6, <1>10 DEF WaitOnNull, Typed, Channels
<1>11. CASE PopAck \/ FreeAckAndReply \/ ConvertFails
  BY <1>1, <1>11 DEF PopAck, FreeAckAndReply, ConvertFails, channels
<1>12. ASSUME NEW c \in Channels, NothingToSend(c) PROVE Levelled'
  BY <1>1, <1>12 DEF NothingToSend, channels
<1>13. CASE UNCHANGED vars
  BY <1>1, <1>13 DEF vars, channels
<1>14. CASE RestartUart
  BY <1>1, <1>14 DEF RestartUart
<1>15. CASE Environment /\ ~ (ReadDeviceQosResponse \/ QosQueryGivenUp \/ RestartUart)
  BY <1>1, <1>15 DEF Environment, Submit, DeviceGetsReply, DeviceRequests, FrameLost,
     ReceiveRequest, TimerExpires, DeviceReceives, ReceiveAck, channels
<1> QED
  BY <1>2, <1>3, <1>5, <1>8, <1>9, <1>10, <1>11, <1>12, <1>13, <1>14, <1>15 DEF Next, SendThread

-----------------------------------------------------------------------------
(* The packets come from their sources. *)

(* What the lists, the channels and the line hold.                         *)
LEMMA Elements ==
  ASSUME Typed
  PROVE  /\ \A c \in Channels : /\ list[c] \in Seq(AnyPacket) /\ Len(list[c]) \in Nat
                                /\ \A i \in 1 .. Len(list[c]) : list[c][i] \in AnyPacket
                                /\ cur[c] # NULL => cur[c] \in AnyPacket
         /\ tx \in Seq(PacketFrame \cup ReplyFrame) /\ Len(tx) \in Nat
         /\ \A j \in 1 .. Len(tx) : tx[j].kind = "packet" => tx[j].packet \in AnyPacket
<1>1. \A c \in Channels : list[c] \in Seq(AnyPacket) /\ Len(list[c]) \in Nat
  BY LenProperties DEF Typed
<1>2. \A c \in Channels : \A i \in 1 .. Len(list[c]) : list[c][i] \in AnyPacket
  BY <1>1, ElementOfSeq
<1>3. tx \in Seq(PacketFrame \cup ReplyFrame) /\ Len(tx) \in Nat
  BY LenProperties DEF Typed
<1>4. \A j \in 1 .. Len(tx) : tx[j] \in PacketFrame \cup ReplyFrame
  BY <1>3, ElementOfSeq
<1> QED
  BY <1>1, <1>2, <1>3, <1>4 DEF Typed, PacketFrame, ReplyFrame

(* No step puts a packet in a list, on a channel or into the history that  *)
(* its source has not made, nor a frame on the line whose packet is not    *)
(* recorded as sent.                                                       *)
LEMMA PlacedNext == Typed /\ Armed /\ Placed /\ [Next]_vars => Placed'
<1> SUFFICES ASSUME Typed, Armed, Placed, [Next]_vars PROVE Placed'
  OBVIOUS
<1>e. /\ \A c \in Channels : list[c] \in Seq(AnyPacket) /\ Len(list[c]) \in Nat /\ made[c] \in Nat
      /\ tx \in Seq(PacketFrame \cup ReplyFrame) /\ Len(tx) \in Nat
  BY Elements DEF Typed
<1>1. ASSUME NEW c \in Channels, NEW bits \in SUBSET (0 .. 7), Submit(c, bits) PROVE Placed'
  <2> DEFINE p == Packet(c, made[c] + 1, dataID[c], bits)
  <2>1. /\ made' = [made EXCEPT ![c] = made[c] + 1]
        /\ list' = IF Len(list[c]) < ListCap THEN [list EXCEPT ![c] = Append(@, p)] ELSE list
        /\ dropped' = IF Len(list[c]) < ListCap THEN dropped ELSE dropped \cup {Name(p)}
        /\ UNCHANGED <<cur, tx, sent, received, unacked>>
    BY <1>1 DEF Submit, channels
  <2>2. p \in AnyPacket /\ p.type = c /\ p.n = made[c] + 1
    BY <1>e, PacketType DEF Typed
  <2> HIDE DEF p
  <2>3. made'[c] = made[c] + 1 /\ \A d \in Channels \ {c} : made'[d] = made[d]
    BY <2>1 DEF Typed
  <2>4. \A d \in Channels : \A q : Of(d, made[d], q) => Of(d, made'[d], q)
    BY <1>e, <2>3 DEF Of
  <2>5. Of(c, made'[c], p)
    BY <1>e, <2>2, <2>3 DEF Of
  <2>6. \A d \in Channels : \A i \in 1 .. Len(list'[d]) : Of(d, made'[d], list'[d][i])
    <3>1. CASE Len(list[c]) < ListCap
      <4>1. list'[c] = Append(list[c], p) /\ \A d \in Channels \ {c} : list'[d] = list[d]
        BY <2>1, <3>1 DEF Typed
      <4>2. /\ Len(list'[c]) = Len(list[c]) + 1 /\ list'[c][Len(list[c]) + 1] = p
            /\ \A i \in 1 .. Len(list[c]) : list'[c][i] = list[c][i]
        BY <1>e, <2>2, <4>1, Added
      <4>3. \A i \in 1 .. Len(list[c]) : Of(c, made'[c], list'[c][i])
        BY <2>4, <4>2 DEF Placed
      <4>4. \A i \in 1 .. Len(list'[c]) : i \in 1 .. Len(list[c]) \/ i = Len(list[c]) + 1
        BY <1>e, <4>2
      <4>5. \A i \in 1 .. Len(list'[c]) : Of(c, made'[c], list'[c][i])
        BY <2>5, <4>2, <4>3, <4>4
      <4> QED
        BY <2>4, <4>1, <4>5 DEF Placed
    <3>2. CASE ~ Len(list[c]) < ListCap
      BY <2>1, <2>4, <3>2 DEF Placed
    <3> QED
      BY <3>1, <3>2
  <2>7. Names \subseteq Names' /\ Name(p) \in Names'
    <3>1. \A d \in Channels : 1 .. made[d] \subseteq 1 .. made'[d]
      BY <1>e, <2>3
    <3>2. Names \subseteq Names'
      <4>1. \A d \in Channels : {d} \X (1 .. made[d]) \subseteq {d} \X (1 .. made'[d])
        BY <3>1
      <4> QED
        BY <4>1 DEF Names
    <3>3. Name(p) \in {c} \X (1 .. made'[c])
      BY <2>5 DEF Of, Name
    <3> QED
      BY <3>2, <3>3 DEF Names
  <2> QED
    BY <2>1, <2>4, <2>6, <2>7 DEF Placed
<1>n. ASSUME made' = made \/ Calm PROVE Names' = Names
  BY <1>n DEF Names, Calm
<1>2. ASSUME NEW c \in Channels, NEW p \in AnyPacket, Sends(c, p) PROVE Placed'
  <2>1. Of(c, made[c], p)
    BY <1>2, Taken, <1>e DEF Sends, Placed
  <2>2. Name(p) \in Names /\ Name(cur'[c]) = Name(p) /\ Of(c, made[c], cur'[c])
    BY <1>2, <2>1 DEF Sends, Of, Names, Name, Same
  <2>3. \A d \in Channels : \A i \in 1 .. Len(list'[d]) : Of(d, made[d], list'[d][i])
    <3>1. CASE UNCHANGED list
      BY <3>1 DEF Placed
    <3>2. CASE list[c] # << >> /\ list' = [list EXCEPT ![c] = Tail(@)]
      <4>1. list'[c] = Tail(list[c]) /\ \A d \in Channels \ {c} : list'[d] = list[d]
        BY <3>2 DEF Typed
      <4>2. \A i \in 1 .. Len(list'[c]) : Of(c, made[c], list'[c][i])
        BY <1>e, <3>2, <4>1, Taken DEF Placed
      <4> QED
        BY <4>1, <4>2 DEF Placed
    <3> QED
      BY <1>2, <3>1, <3>2 DEF Sends
  <2>4. PICK f \in PacketFrame : f.packet = cur'[c] /\ tx' = Append(tx, f)
    BY <1>2 DEF Sends
  <2>5. /\ Len(tx') = Len(tx) + 1 /\ tx'[Len(tx) + 1] = f
        /\ \A j \in 1 .. Len(tx) : tx'[j] = tx[j]
    BY <1>e, <2>4, Added
  <2>6. \A j \in 1 .. Len(tx') : tx'[j].kind = "packet" => Name(tx'[j].packet) \in sent'
    BY <1>2, <1>e, <2>2, <2>4, <2>5 DEF Sends, Placed
  <2> QED
    BY <1>2, <1>n, <2>2, <2>3, <2>6 DEF Sends, Placed
<1>3. ASSUME NEW c \in Channels, Marks(c) \/ NoAckAwaited(c) \/ Acked(c) PROVE Placed'
  <2>1. cur[c] # NULL /\ \A d \in Channels \ {c} : cur'[d] = cur[d]
    BY <1>3 DEF Marks, NoAckAwaited, Acked, Waiting, Armed, Typed
  <2>2. cur'[c] # NULL => Of(c, made[c], cur'[c])
    BY <1>3, <2>1 DEF Marks, NoAckAwaited, Acked, Typed, Placed, Of, Same
  <2>3. Name(cur[c]) \in Names
    BY <2>1 DEF Placed, Of, Name, Names
  <2>4. UNCHANGED <<list, made, tx, sent, received, dropped>>
        /\ unacked' \in {unacked, unacked \cup {Name(cur[c])}}
    BY <1>3 DEF Marks, NoAckAwaited, Acked, lists, history
  <2> QED
    BY <1>n, <2>1, <2>2, <2>3, <2>4 DEF Placed
<1>4. CASE ConvertFails
  <2>1. /\ list["cloud"] # << >> /\ list' = [list EXCEPT !["cloud"] = Tail(@)]
        /\ dropped' = dropped \cup {Name(Head(list["cloud"]))}
        /\ UNCHANGED <<made, cur, tx, sent, received, unacked>>
    BY <1>4 DEF ConvertFails, channels
  <2>2. list'["cloud"] = Tail(list["cloud"]) /\ \A d \in Channels \ {"cloud"} : list'[d] = list[d]
    BY <2>1 DEF Typed, Channels
  <2>3. "cloud" \in Channels
    BY DEF Channels
  <2>4. /\ Of("cloud", made["cloud"], Head(list["cloud"]))
        /\ \A i \in 1 .. Len(list'["cloud"]) : Of("cloud", made["cloud"], list'["cloud"][i])
    BY <1>e, <2>1, <2>2, <2>3, Taken DEF Placed
  <2>5. Name(Head(list["cloud"])) \in Names
    BY <2>3, <2>4 DEF Of, Name, Names
  <2> QED
    BY <1>n, <2>1, <2>2, <2>3, <2>4, <2>5 DEF Placed
<1>5. CASE LineMoves
  <2>1. /\ Head(tx).kind = "packet" => Name(Head(tx).packet) \in sent
        /\ \A j \in 1 .. Len(tx') : tx'[j].kind = "packet" => Name(tx'[j].packet) \in sent
    BY <1>e, <1>5, Taken DEF LineMoves, Placed
  <2> QED
    BY <1>5, <1>n, <2>1 DEF LineMoves, Placed, lists
<1>6. CASE Replies
  <2>1. PICK f \in ReplyFrame : tx' = Append(tx, f)
    BY <1>6 DEF Replies
  <2>2. f.kind = "reply" /\ Len(tx') = Len(tx) + 1 /\ tx'[Len(tx) + 1] = f
        /\ \A j \in 1 .. Len(tx) : tx'[j] = tx[j]
    BY <1>e, <2>1, Added DEF ReplyFrame
  <2>3. \A j \in 1 .. Len(tx') : tx'[j].kind = "packet" => Name(tx'[j].packet) \in sent
    BY <1>e, <2>2 DEF Placed
  <2> QED
    BY <1>6, <1>n, <2>3 DEF Replies, Placed, lists, history
<1>7. CASE Calm
  BY <1>7, <1>n DEF Calm, Placed, history
<1> QED
  BY <1>1, <1>2, <1>3, <1>4, <1>5, <1>6, <1>7, StepShapes

-----------------------------------------------------------------------------
(* The order of the packets. *)

(* A source numbers upwards, a list is taken from its head, and a channel  *)
(* goes on with its current packet before it takes another.                *)
LEMMA OrderedNext == Typed /\ Armed /\ Placed /\ Ordered /\ [Next]_vars => Ordered'
<1> SUFFICES ASSUME Typed, Armed, Placed, Ordered, [Next]_vars PROVE Ordered'
  OBVIOUS
<1>e. /\ \A c \in Channels : list[c] \in Seq(AnyPacket) /\ Len(list[c]) \in Nat /\ made[c] \in Nat
      /\ \A c \in Channels : /\ \A i \in 1 .. Len(list[c]) : list[c][i].n \in Nat
                             /\ cur[c] # NULL => cur[c].n \in Nat
      /\ \A x \in sent : x[2] \in Nat /\ \A c \in Channels : x[1] = c => x[2] <= made[c]
  <2>1. \A x \in sent : x[2] \in Nat /\ \A c \in Channels : x[1] = c => x[2] <= made[c]
    BY DEF Placed, Names, Typed
  <2> QED
    BY <2>1, Elements DEF Typed, AnyPacket
<1>1. ASSUME NEW c \in Channels, NEW bits \in SUBSET (0 .. 7), Submit(c, bits) PROVE Ordered'
  <2> DEFINE p == Packet(c, made[c] + 1, dataID[c], bits)
  <2>1. /\ list' = IF Len(list[c]) < ListCap THEN [list EXCEPT ![c] = Append(@, p)] ELSE list
        /\ UNCHANGED <<cur, sent>>
    BY <1>1 DEF Submit, channels
  <2>2. p \in AnyPacket /\ p.n = made[c] + 1
    BY <1>e, PacketType DEF Typed
  <2> HIDE DEF p
  <2>3. CASE Len(list[c]) < ListCap
    <3>1. list'[c] = Append(list[c], p) /\ \A d \in Channels \ {c} : list'[d] = list[d]
      BY <2>1, <2>3 DEF Typed
    <3>2. /\ Len(list'[c]) = Len(list[c]) + 1 /\ list'[c][Len(list[c]) + 1] = p
          /\ \A i \in 1 .. Len(list[c]) : list'[c][i] = list[c][i]
      BY <1>e, <2>2, <3>1, Added
    <3>3. \A i \in 1 .. Len(list'[c]) : i \in 1 .. Len(list[c]) \/ i = Len(list[c]) + 1
      BY <1>e, <3>2
    <3>4. /\ \A i \in 1 .. Len(list[c]) : list[c][i].n < p.n
          /\ Newer(sent, c, p.n) /\ (cur[c] # NULL => cur[c].n < p.n)
      BY <1>e, <2>2 DEF Newer, Placed, Of
    <3>5. \A i, j \in 1 .. Len(list'[c]) : i < j => list'[c][i].n < list'[c][j].n
      <4> SUFFICES ASSUME NEW i \in 1 .. Len(list'[c]), NEW j \in 1 .. Len(list'[c]), i < j
                   PROVE  list'[c][i].n < list'[c][j].n
        OBVIOUS
      <4>1. i \in 1 .. Len(list[c])
        BY <1>e, <3>2
      <4>2. CASE j \in 1 .. Len(list[c])
        BY <3>2, <4>1, <4>2 DEF Ordered
      <4>3. CASE j = Len(list[c]) + 1
        BY <3>2, <3>4, <4>1, <4>3
      <4> QED
        BY <3>3, <4>2, <4>3
    <3>6. \A i \in 1 .. Len(list'[c]) :
            Newer(sent, c, list'[c][i].n) /\ (cur[c] # NULL => cur[c].n < list'[c][i].n)
      BY <3>2, <3>3, <3>4 DEF Ordered
    <3> QED
      BY <2>1, <3>1, <3>5, <3>6 DEF Ordered
  <2>4. CASE ~ Len(list[c]) < ListCap
    BY <2>1, <2>4 DEF Ordered
  <2> QED
    BY <2>3, <2>4
<1>2. ASSUME NEW c \in Channels, NEW p \in AnyPacket, Sends(c, p) PROVE Ordered'
  <2>1. p.type = c /\ p.n \in Nat
    BY <1>2, Taken, <1>e DEF Sends, Placed, Of
  <2>2. \A d, n : Newer(sent', d, n) <=> Newer(sent, d, n) /\ (d = c => p.n < n)
    <3>1. sent' = sent \cup {<<c, p.n>>}
      BY <1>2, <2>1 DEF Sends, Name
    <3>2. <<c, p.n>>[1] = c /\ <<c, p.n>>[2] = p.n
      OBVIOUS
    <3> QED
      BY <3>1, <3>2 DEF Newer
  <2>3. cur'[c].n = p.n /\ \A d \in Channels \ {c} : cur'[d] = cur[d]
    BY <1>2 DEF Sends, Same
  <2>4. CASE cur[c] = p /\ p # NULL /\ UNCHANGED list
    <3>1. Newer(sent', c, p.n + 1)
      BY <2>1, <2>2, <2>4 DEF Ordered
    <3> QED
      BY <2>1, <2>2, <2>3, <2>4, <3>1 DEF Ordered
  <2>5. CASE /\ list[c] # << >> /\ p = Head(list[c]) /\ list' = [list EXCEPT ![c] = Tail(@)]
    <3>1. list'[c] = Tail(list[c]) /\ \A d \in Channels \ {c} : list'[d] = list[d]
      BY <2>5 DEF Typed
    <3>2. /\ Len(list[c]) > 0 /\ p = list[c][1] /\ Len(list'[c]) = Len(list[c]) - 1
          /\ \A i \in 1 .. Len(list'[c]) : list'[c][i] = list[c][i + 1] /\ i + 1 \in 1 .. Len(list[c])
      <4>1. list[c] \in Seq(AnyPacket) /\ list[c] # << >>
        BY <1>e, <2>5
      <4>2. /\ Len(list[c]) > 0 /\ Head(list[c]) = list[c][1]
            /\ Len(Tail(list[c])) = Len(list[c]) - 1
            /\ \A i \in 1 .. Len(Tail(list[c])) :
                 Tail(list[c])[i] = list[c][i + 1] /\ i + 1 \in 1 .. Len(list[c])
        BY <4>1, Taken
      <4> QED
        BY <2>5, <3>1, <4>2
    <3>3. \A i, j \in 1 .. Len(list'[c]) : i < j => list'[c][i].n < list'[c][j].n
      <4> SUFFICES ASSUME NEW i \in 1 .. Len(list'[c]), NEW j \in 1 .. Len(list'[c]), i < j
                   PROVE  list'[c][i].n < list'[c][j].n
        OBVIOUS
      <4>1. i + 1 < j + 1 /\ i + 1 \in 1 .. Len(list[c]) /\ j + 1 \in 1 .. Len(list[c])
        BY <3>2
      <4>2. list'[c][i] = list[c][i + 1] /\ list'[c][j] = list[c][j + 1]
        BY <3>2
      <4> QED
        BY <4>1, <4>2 DEF Ordered
    <3>4. \A i \in 1 .. Len(list'[c]) : Newer(sent, c, list'[c][i].n) /\ p.n < list'[c][i].n
      BY <1>e, <3>2 DEF Ordered
    <3>5. Newer(sent, c, p.n)
      BY <1>e, <3>2 DEF Ordered
    <3>6. Newer(sent', c, p.n + 1)
      <4>1. \A x \in sent : x[2] \in Nat /\ (x[1] = c => x[2] < p.n)
        BY <1>e, <3>5 DEF Newer
      <4>2. Newer(sent, c, p.n + 1)
        BY <2>1, <4>1 DEF Newer
      <4> QED
        BY <2>1, <2>2, <4>2
    <3> QED
      BY <2>2, <2>3, <3>1, <3>3, <3>4, <3>6 DEF Ordered
  <2> QED
    BY <1>2, <2>4, <2>5 DEF Sends
<1>3. ASSUME NEW c \in Channels, Marks(c) \/ NoAckAwaited(c) \/ Acked(c) PROVE Ordered'
  <2>1. /\ \A d \in Channels \ {c} : cur'[d] = cur[d]
        /\ cur'[c] # NULL => cur[c] # NULL /\ cur'[c].n = cur[c].n
        /\ UNCHANGED <<list, sent>>
    BY <1>3 DEF Marks, NoAckAwaited, Acked, Typed, Same, lists, history
  <2> QED
    BY <2>1 DEF Ordered
<1>4. CASE ConvertFails
  <2>1. /\ list["cloud"] # << >> /\ list' = [list EXCEPT !["cloud"] = Tail(@)]
        /\ UNCHANGED <<cur, sent>> /\ "cloud" \in Channels
    BY <1>4 DEF ConvertFails, channels, Channels
  <2>2. list'["cloud"] = Tail(list["cloud"]) /\ \A d \in Channels \ {"cloud"} : list'[d] = list[d]
    BY <2>1 DEF Typed
  <2>3. /\ Len(list'["cloud"]) = Len(list["cloud"]) - 1
        /\ \A i \in 1 .. Len(list'["cloud"]) : list'["cloud"][i] = list["cloud"][i + 1]
                                               /\ i + 1 \in 1 .. Len(list["cloud"])
    <3>1. list["cloud"] \in Seq(AnyPacket) /\ list["cloud"] # << >>
      BY <1>e, <2>1
    <3> QED
      BY <2>2, <3>1, Taken
  <2>4. \A i, j \in 1 .. Len(list'["cloud"]) :
          i < j => list'["cloud"][i].n < list'["cloud"][j].n
    BY <1>e, <2>1, <2>3 DEF Ordered
  <2> QED
    BY <2>1, <2>2, <2>3, <2>4 DEF Ordered
<1>5. CASE LineMoves \/ Replies \/ Calm
  BY <1>5 DEF LineMoves, Replies, Calm, Ordered, lists, history
<1> QED
  BY <1>1, <1>2, <1>3, <1>4, <1>5, StepShapes

(* The frame that joins the line is of a packet no older than any that was *)
(* sent, and so no older than those on the line and those received.        *)
LEMMA InOrderNext == Typed /\ Armed /\ Placed /\ Ordered /\ InOrder /\ [Next]_vars => InOrder'
<1> SUFFICES ASSUME Typed, Armed, Placed, Ordered, InOrder, [Next]_vars PROVE InOrder'
  OBVIOUS
<1>e. /\ tx \in Seq(PacketFrame \cup ReplyFrame) /\ Len(tx) \in Nat /\ DOMAIN tx = 1 .. Len(tx)
      /\ \A c \in Channels : list[c] \in Seq(AnyPacket) /\ Len(list[c]) \in Nat
  BY Elements, LenProperties
<1>1. CASE UNCHANGED <<tx, received>>
  BY <1>1 DEF InOrder
<1>2. ASSUME NEW c \in Channels, NEW p \in AnyPacket, Sends(c, p) PROVE InOrder'
  <2>1. p.type = c /\ p.n \in Nat /\ \A x \in sent : x[1] = c => x[2] <= p.n
    <3>1. /\ p.type = c /\ p.n \in Nat
      BY <1>2, Taken, <1>e DEF Sends, Placed, Of
    <3>2. Newer(sent, c, p.n) \/ Newer(sent, c, p.n + 1)
      BY <1>2, Taken, <1>e DEF Sends, Ordered
    <3>3. \A x \in sent : x[2] \in Nat
      BY DEF Placed, Names, Typed
    <3> QED
      BY <3>1, <3>2, <3>3 DEF Newer
  <2>2. PICK f \in PacketFrame : f.packet = cur'[c] /\ tx' = Append(tx, f)
    BY <1>2 DEF Sends
  <2>3. f.packet.type = c /\ f.packet.n = p.n /\ UNCHANGED received
    BY <1>2, <2>1, <2>2 DEF Sends, Same
  <2>4. /\ tx' \in Seq(PacketFrame \cup ReplyFrame)
        /\ Len(tx') = Len(tx) + 1 /\ tx'[Len(tx) + 1] = f
        /\ \A j \in 1 .. Len(tx) : tx'[j] = tx[j]
    BY <1>e, <2>2, Added
  <2>5. \A x \in received : x[1] = c => x[2] <= p.n
    BY <2>1 DEF Placed
  <2>6. \A i \in 1 .. Len(tx) : tx[i].kind = "packet" /\ tx[i].packet.type = c
                                  => tx[i].packet.n <= p.n
    BY <2>1 DEF Placed, Name
  <2>7. DOMAIN tx' = 1 .. Len(tx) + 1
    BY <2>4, LenProperties
  <2>8. \A j \in DOMAIN tx' : j \in 1 .. Len(tx) \/ j = Len(tx) + 1
    BY <1>e, <2>7
  <2>9. ASSUME NEW j \in 1 .. Len(tx), tx'[j].kind = "packet"
        PROVE  /\ \A x \in received' : x[1] = tx'[j].packet.type => x[2] <= tx'[j].packet.n
               /\ \A i \in 1 .. j - 1 :
                    tx'[i].kind = "packet" /\ tx'[i].packet.type = tx'[j].packet.type
                      => tx'[i].packet.n <= tx'[j].packet.n
    <3>1. j \in DOMAIN tx /\ tx'[j] = tx[j] /\ \A i \in 1 .. j - 1 : tx'[i] = tx[i]
      BY <1>e, <2>4
    <3> QED
      BY <2>3, <2>9, <3>1 DEF InOrder
  <2>10. /\ \A x \in received' : x[1] = f.packet.type => x[2] <= f.packet.n
         /\ \A i \in 1 .. Len(tx) : tx'[i].kind = "packet" /\ tx'[i].packet.type = f.packet.type
                                       => tx'[i].packet.n <= f.packet.n
    BY <2>3, <2>4, <2>5, <2>6
  <2>11. ASSUME NEW j \in DOMAIN tx', tx'[j].kind = "packet"
         PROVE  /\ \A x \in received' : x[1] = tx'[j].packet.type => x[2] <= tx'[j].packet.n
                /\ \A i \in 1 .. j - 1 :
                     tx'[i].kind = "packet" /\ tx'[i].packet.type = tx'[j].packet.type
                       => tx'[i].packet.n <= tx'[j].packet.n
    <3>1. CASE j \in 1 .. Len(tx)
      BY <2>9, <2>11, <3>1
    <3>2. CASE j = Len(tx) + 1
      <4>1. tx'[j] = f /\ j - 1 = Len(tx)
        BY <1>e, <2>4, <3>2
      <4> QED
        BY <2>10, <4>1
    <3> QED
      BY <2>8, <3>1, <3>2
  <2> QED
    BY <2>11 DEF InOrder
<1>3. CASE LineMoves
  <2>1. tx # << >> /\ tx' = Tail(tx)
    BY <1>3 DEF LineMoves
  <2>2. /\ Len(tx) > 0 /\ Head(tx) = tx[1] /\ tx' \in Seq(PacketFrame \cup ReplyFrame)
        /\ Len(tx') = Len(tx) - 1
        /\ \A j \in 1 .. Len(tx') : tx'[j] = tx[j + 1] /\ j + 1 \in 1 .. Len(tx)
    BY <1>e, <2>1, Taken
  <2>3. DOMAIN tx' = 1 .. Len(tx')
    BY <2>2, LenProperties
  <2>4. ASSUME NEW j \in 1 .. Len(tx'), tx'[j].kind = "packet", NEW x \in received',
               x[1] = tx'[j].packet.type
        PROVE  x[2] <= tx'[j].packet.n
    <3>1. CASE x \in received
      <4>1. j + 1 \in DOMAIN tx /\ tx[j + 1] = tx'[j]
        BY <1>e, <2>2
      <4> QED
        BY <2>4, <3>1, <4>1 DEF InOrder
    <3>2. CASE x = Name(tx[1].packet) /\ tx[1].kind = "packet"
      <4>1. j + 1 \in DOMAIN tx /\ tx[j + 1] = tx'[j] /\ 1 \in 1 .. (j + 1) - 1
        BY <1>e, <2>2
      <4>2. tx[1].packet.type = tx[j + 1].packet.type => tx[1].packet.n <= tx[j + 1].packet.n
        BY <2>4, <3>2, <4>1 DEF InOrder
      <4>3. x[1] = tx[1].packet.type /\ x[2] = tx[1].packet.n
        BY <3>2 DEF Name
      <4> QED
        BY <2>4, <4>1, <4>2, <4>3
    <3> QED
      BY <1>3, <2>2, <2>4, <3>1, <3>2 DEF LineMoves
  <2>5. ASSUME NEW j \in 1 .. Len(tx'), tx'[j].kind = "packet", NEW i \in 1 .. j - 1,
               tx'[i].kind = "packet", tx'[i].packet.type = tx'[j].packet.type
        PROVE  tx'[i].packet.n <= tx'[j].packet.n
    <3>1. /\ i \in 1 .. Len(tx') /\ j + 1 \in DOMAIN tx /\ i + 1 \in 1 .. (j + 1) - 1
          /\ tx[j + 1] = tx'[j] /\ tx[i + 1] = tx'[i]
      BY <1>e, <2>2
    <3> QED
      BY <2>5, <3>1 DEF InOrder
  <2> QED
    BY <2>3, <2>4, <2>5 DEF InOrder
<1>4. CASE Replies
  <2>1. PICK f \in ReplyFrame : tx' = Append(tx, f)
    BY <1>4 DEF Replies
  <2>2. /\ tx' \in Seq(PacketFrame \cup ReplyFrame) /\ f.kind = "reply"
        /\ Len(tx') = Len(tx) + 1 /\ tx'[Len(tx) + 1] = f
        /\ \A j \in 1 .. Len(tx) : tx'[j] = tx[j]
    BY <1>e, <2>1, Added DEF ReplyFrame
  <2>3. DOMAIN tx' = 1 .. Len(tx) + 1
    BY <2>2, LenProperties
  <2>4. \A j \in DOMAIN tx' : j \in 1 .. Len(tx) \/ j = Len(tx) + 1
    BY <1>e, <2>3
  <2> QED
    BY <1>4, <1>e, <2>2, <2>4 DEF InOrder, Replies, history
<1>5. ASSUME NEW c \in Channels, \/ Marks(c) \/ NoAckAwaited(c) \/ Acked(c)
                                 \/ \E bits : Submit(c, bits)
      PROVE  UNCHANGED <<tx, received>>
  BY <1>5 DEF Marks, NoAckAwaited, Acked, Submit, history
<1>6. CASE ConvertFails \/ Calm
  BY <1>1, <1>6 DEF ConvertFails, Calm, history
<1> QED
  BY <1>1, <1>2, <1>3, <1>4, <1>5, <1>6, StepShapes

-----------------------------------------------------------------------------
(* The data IDs. *)

(* The next packet carries the next ID.                                    *)
LEMMA NextCarries ==
  ASSUME NEW n \in Nat, NEW id \in 0 .. IdMod - 1, Carries(n, id)
  PROVE  Carries(n + 1, (id + 1) % IdMod)
<1>1. IdMod \in Nat /\ IdMod > 0
  BY UartAssumption
<1>2. PICK q \in Nat : n = q * IdMod + id + 1
  BY DEF Carries
<1>3. CASE id + 1 < IdMod
  <2>1. (id + 1) % IdMod = id + 1
    BY <1>1, <1>3
  <2>2. q * IdMod \in Nat
    BY <1>1
  <2>3. n + 1 = q * IdMod + (id + 1) + 1
    BY <1>2, <2>2
  <2> QED
    BY <2>1, <2>3 DEF Carries
<1>4. CASE id + 1 = IdMod
  <2>1. (id + 1) % IdMod = 0
    BY <1>1, <1>4
  <2>2. q * IdMod \in Nat /\ (q + 1) * IdMod = q * IdMod + IdMod
    BY <1>1
  <2>3. n + 1 = (q + 1) * IdMod + 0 + 1 /\ q + 1 \in Nat
    BY <1>1, <1>2, <1>4, <2>2
  <2> QED
    BY <2>1, <2>3 DEF Carries
<1> QED
  BY <1>1, <1>3, <1>4

(* Two packets of one ID are IdMod apart, at least.                        *)
LEMMA CarriesApart ==
  ASSUME NEW m \in Nat, NEW n \in Nat, NEW id \in 0 .. IdMod - 1,
         Carries(m, id), Carries(n, id), m < n
  PROVE  m + IdMod <= n
<1>1. IdMod \in Nat
  BY UartAssumption
<1>2. PICK q \in Nat : m = q * IdMod + id + 1
  BY DEF Carries
<1>3. PICK r \in Nat : n = r * IdMod + id + 1
  BY DEF Carries
<1>4. q * IdMod \in Nat /\ r * IdMod \in Nat /\ q * IdMod < r * IdMod
  BY <1>1, <1>2, <1>3
<1>5. q < r
  <2>1. ASSUME r <= q PROVE FALSE
    <3>1. PICK d \in Nat : q = r + d
      BY <2>1
    <3>2. q * IdMod = r * IdMod + d * IdMod /\ d * IdMod \in Nat
      BY <1>1, <3>1
    <3> QED
      BY <1>4, <3>2
  <2> QED
    BY <2>1
<1>6. PICK d \in Nat : r = q + 1 + d
  BY <1>5
<1>7. r * IdMod = q * IdMod + IdMod + d * IdMod /\ d * IdMod \in Nat
  BY <1>1, <1>6
<1> QED
  BY <1>1, <1>2, <1>3, <1>4, <1>7

(* Every packet carries the ID its source had when it was made.            *)
LEMMA NumberedNext == Typed /\ Armed /\ Numbered /\ [Next]_vars => Numbered'
<1> SUFFICES ASSUME Typed, Armed, Numbered, [Next]_vars PROVE Numbered'
  OBVIOUS
<1>e. /\ \A c \in Channels : list[c] \in Seq(AnyPacket) /\ Len(list[c]) \in Nat /\ made[c] \in Nat
      /\ tx \in Seq(PacketFrame \cup ReplyFrame) /\ Len(tx) \in Nat
      /\ \A c \in Channels : dataID[c] \in 0 .. IdMod - 1
  BY Elements DEF Typed
<1>1. ASSUME NEW c \in Channels, NEW bits \in SUBSET (0 .. 7), Submit(c, bits) PROVE Numbered'
  <2> DEFINE p == Packet(c, made[c] + 1, dataID[c], bits)
  <2>1. /\ made' = [made EXCEPT ![c] = made[c] + 1]
        /\ dataID' = [dataID EXCEPT ![c] = (@ + 1) % IdMod]
        /\ list' = IF Len(list[c]) < ListCap THEN [list EXCEPT ![c] = Append(@, p)] ELSE list
        /\ UNCHANGED <<cur, tx>>
    BY <1>1 DEF Submit, channels
  <2>2. p \in AnyPacket /\ p.n = made[c] + 1 /\ p.id = dataID[c]
    BY <1>e, PacketType DEF Typed
  <2> HIDE DEF p
  <2>4. Told(p)
    BY <2>2 DEF Told, Numbered
  <2>5. made'[c] = made[c] + 1 /\ dataID'[c] = (dataID[c] + 1) % IdMod
        /\ \A d \in Channels \ {c} : made'[d] = made[d] /\ dataID'[d] = dataID[d]
    BY <2>1 DEF Typed
  <2>6. Carries(made'[c] + 1, dataID'[c])
    <3>1. Carries(made[c] + 1, dataID[c])
      BY DEF Numbered
    <3>2. Carries(made[c] + 1 + 1, (dataID[c] + 1) % IdMod)
      BY <1>e, <3>1, NextCarries
    <3> QED
      BY <2>5, <3>2
  <2>7. \A d \in Channels : \A i \in 1 .. Len(list'[d]) : Told(list'[d][i])
    <3>1. CASE Len(list[c]) < ListCap
      <4>1. list'[c] = Append(list[c], p) /\ \A d \in Channels \ {c} : list'[d] = list[d]
        BY <2>1, <3>1 DEF Typed
      <4>2. /\ Len(list'[c]) = Len(list[c]) + 1 /\ list'[c][Len(list[c]) + 1] = p
            /\ \A i \in 1 .. Len(list[c]) : list'[c][i] = list[c][i]
        BY <1>e, <2>2, <4>1, Added
      <4>3. \A i \in 1 .. Len(list'[c]) : i \in 1 .. Len(list[c]) \/ i = Len(list[c]) + 1
        BY <1>e, <4>2
      <4>4. \A i \in 1 .. Len(list'[c]) : Told(list'[c][i])
        BY <2>4, <4>2, <4>3 DEF Numbered
      <4> QED
        BY <4>1, <4>4 DEF Numbered
    <3>2. CASE ~ Len(list[c]) < ListCap
      BY <2>1, <3>2 DEF Numbered
    <3> QED
      BY <3>1, <3>2
  <2> QED
    BY <2>1, <2>5, <2>6, <2>7 DEF Numbered
<1>2. ASSUME NEW c \in Channels, list[c] # << >>, list' = [list EXCEPT ![c] = Tail(@)]
      PROVE  \A d \in Channels : \A i \in 1 .. Len(list'[d]) : Told(list'[d][i])
  <2>1. list'[c] = Tail(list[c]) /\ \A d \in Channels \ {c} : list'[d] = list[d]
    BY <1>2 DEF Typed
  <2>2. list[c] \in Seq(AnyPacket)
    BY <1>e
  <2>3. \A i \in 1 .. Len(list'[c]) : list'[c][i] = list[c][i + 1] /\ i + 1 \in 1 .. Len(list[c])
    <3>1. \A i \in 1 .. Len(Tail(list[c])) :
            Tail(list[c])[i] = list[c][i + 1] /\ i + 1 \in 1 .. Len(list[c])
      BY <1>2, <2>2, Taken
    <3> QED
      BY <2>1, <3>1
  <2> QED
    BY <2>1, <2>3 DEF Numbered
<1>3. ASSUME NEW c \in Channels, NEW p \in AnyPacket, Sends(c, p) PROVE Numbered'
  <2>1. Told(p)
    <3>1. CASE cur[c] = p /\ p # NULL
      BY <3>1 DEF Numbered
    <3>2. CASE list[c] # << >> /\ p = Head(list[c])
      <4>1. list[c] \in Seq(AnyPacket)
        BY <1>e
      <4>2. p = list[c][1] /\ 1 \in 1 .. Len(list[c])
        BY <3>2, <4>1, Taken
      <4> QED
        BY <4>2 DEF Numbered
    <3> QED
      BY <1>3, <3>1, <3>2 DEF Sends
  <2>2. Told(cur'[c])
    BY <1>3, <2>1 DEF Sends, Same, Told
  <2>3. PICK f \in PacketFrame : f.packet = cur'[c] /\ tx' = Append(tx, f)
    BY <1>3 DEF Sends
  <2>4. /\ Len(tx') = Len(tx) + 1 /\ tx'[Len(tx) + 1] = f
        /\ \A j \in 1 .. Len(tx) : tx'[j] = tx[j]
    BY <1>e, <2>3, Added
  <2>5. \A j \in 1 .. Len(tx') : tx'[j].kind = "packet" => Told(tx'[j].packet)
    <3>1. \A j \in 1 .. Len(tx') : j \in 1 .. Len(tx) \/ j = Len(tx) + 1
      BY <1>e, <2>4
    <3> QED
      BY <2>2, <2>3, <2>4, <3>1 DEF Numbered
  <2>6. \A d \in Channels : \A i \in 1 .. Len(list'[d]) : Told(list'[d][i])
    BY <1>2, <1>3 DEF Sends, Numbered
  <2> QED
    BY <1>3, <2>2, <2>5, <2>6 DEF Sends, Numbered
<1>4. ASSUME NEW c \in Channels, Marks(c) \/ NoAckAwaited(c) \/ Acked(c) PROVE Numbered'
  <2>1. /\ \A d \in Channels \ {c} : cur'[d] = cur[d]
        /\ cur'[c] # NULL => cur[c] # NULL /\ cur'[c].n = cur[c].n /\ cur'[c].id = cur[c].id
        /\ UNCHANGED <<list, made, dataID, tx>>
    BY <1>4 DEF Marks, NoAckAwaited, Acked, Typed, Same, lists
  <2>2. cur'[c] # NULL => Told(cur'[c])
    BY <2>1 DEF Numbered, Told
  <2> QED
    BY <2>1, <2>2 DEF Numbered
<1>5. CASE ConvertFails
  <2>1. /\ "cloud" \in Channels /\ list["cloud"] # << >>
        /\ list' = [list EXCEPT !["cloud"] = Tail(@)]
        /\ UNCHANGED <<made, dataID, cur, tx>>
    BY <1>5 DEF ConvertFails, channels, Channels
  <2> QED
    BY <1>2, <2>1 DEF Numbered
<1>6. CASE LineMoves
  <2>1. tx # << >> /\ tx' = Tail(tx) /\ UNCHANGED <<list, made, dataID, cur>>
    BY <1>6 DEF LineMoves, lists
  <2>2. \A j \in 1 .. Len(tx') : tx'[j] = tx[j + 1] /\ j + 1 \in 1 .. Len(tx)
    BY <1>e, <2>1, Taken
  <2> QED
    BY <2>1, <2>2 DEF Numbered
<1>7. CASE Replies
  <2>1. PICK f \in ReplyFrame : tx' = Append(tx, f)
    BY <1>7 DEF Replies
  <2>2. f.kind = "reply" /\ Len(tx') = Len(tx) + 1 /\ tx'[Len(tx) + 1] = f
        /\ \A j \in 1 .. Len(tx) : tx'[j] = tx[j]
    BY <1>e, <2>1, Added DEF ReplyFrame
  <2>3. \A j \in 1 .. Len(tx') : j \in 1 .. Len(tx) \/ j = Len(tx) + 1
    BY <1>e, <2>2
  <2> QED
    BY <1>7, <2>2, <2>3 DEF Replies, Numbered, lists
<1>8. CASE Calm
  BY <1>8 DEF Calm, Numbered
<1> QED
  BY <1>1, <1>3, <1>4, <1>5, <1>6, <1>7, <1>8, StepShapes

-----------------------------------------------------------------------------
(* The packets a channel answers for. *)

(* What a channel holds, element by element.                               *)
LEMMA HeldBy ==
  ASSUME Typed, NEW c \in Channels, NEW x
  PROVE  x \in Held(c) <=> \/ \E i \in 1 .. Len(list[c]) : x = Name(list[c][i])
                           \/ cur[c] # NULL /\ x = Name(cur[c])
<1>1. DOMAIN list[c] = 1 .. Len(list[c])
  BY Elements, LenProperties
<1> QED
  BY <1>1 DEF Held

(* A packet stays held, sent without waiting or thrown away, and a new one *)
(* becomes so, unless its acknowledgement is taken.                        *)
LEMMA SettledNext ==
  ASSUME Typed, Armed, [Next]_vars, NEW c \in Channels, NEW k \in 1 .. made'[c],
         k <= made[c] => Settled(c, k), ~ (Acked(c) /\ k = cur[c].n)
  PROVE  Settled(c, k)'
<1> DEFINE x == <<c, k>>
           In(l, p) == \/ \E i \in 1 .. Len(l) : x = Name(l[i])
                       \/ p # NULL /\ x = Name(p)
<1>e. /\ list[c] \in Seq(AnyPacket) /\ Len(list[c]) \in Nat /\ made[c] \in Nat
      /\ made'[c] \in Nat /\ "cloud" \in Channels
  <2>1. Typed'
    BY TypedNext
  <2> QED
    BY <2>1, Elements DEF Typed, Channels
<1>h. Settled(c, k) <=> x \in unacked \cup dropped \/ In(list[c], cur[c])
  BY HeldBy DEF Settled
<1>i. Settled(c, k)' <=> x \in unacked' \cup dropped' \/ In(list'[c], cur'[c])
  <2>1. list'[c] \in Seq(AnyPacket)
    BY TypedNext DEF Typed
  <2>2. DOMAIN list'[c] = 1 .. Len(list'[c])
    BY <2>1, LenProperties
  <2> QED
    BY <2>2 DEF Settled, Held
<1>1. ASSUME made'[c] = made[c], unacked \subseteq unacked', dropped \subseteq dropped',
             In(list[c], cur[c]) => x \in unacked' \cup dropped' \/ In(list'[c], cur'[c])
      PROVE  Settled(c, k)'
  <2>1. Settled(c, k)
    BY <1>e, <1>1
  <2> HIDE DEF In
  <2> QED
    BY <1>1, <1>h, <1>i, <2>1
<1>2. ASSUME NEW d \in Channels, NEW bits \in SUBSET (0 .. 7), Submit(d, bits)
      PROVE  Settled(c, k)'
  <2> DEFINE p == Packet(d, made[d] + 1, dataID[d], bits)
  <2>1. /\ made' = [made EXCEPT ![d] = made[d] + 1]
        /\ list' = IF Len(list[d]) < ListCap THEN [list EXCEPT ![d] = Append(@, p)] ELSE list
        /\ dropped' = IF Len(list[d]) < ListCap THEN dropped ELSE dropped \cup {Name(p)}
        /\ UNCHANGED <<cur, unacked>>
    BY <1>2 DEF Submit, channels
  <2>2. p \in AnyPacket /\ Name(p) = <<d, made[d] + 1>>
    BY PacketType DEF Typed, Name
  <2> HIDE DEF p
  <2>3. CASE d # c
    <3>1. made'[c] = made[c] /\ list'[c] = list[c] /\ dropped \subseteq dropped'
      BY <2>1, <2>3 DEF Typed
    <3> QED
      BY <1>1, <2>1, <3>1
  <2>4. CASE d = c /\ Len(list[c]) < ListCap
    <3>1. list'[c] = Append(list[c], p) /\ made'[c] = made[c] + 1 /\ dropped' = dropped
      BY <2>1, <2>4 DEF Typed
    <3>2. /\ Len(list'[c]) = Len(list[c]) + 1 /\ list'[c][Len(list[c]) + 1] = p
          /\ \A i \in 1 .. Len(list[c]) : list'[c][i] = list[c][i]
      BY <1>e, <2>2, <3>1, Added
    <3>3. Len(list[c]) + 1 \in 1 .. Len(list'[c])
          /\ \A i \in 1 .. Len(list[c]) : i \in 1 .. Len(list'[c])
      BY <1>e, <3>2
    <3>4. CASE k <= made[c]
      <4>1. In(list[c], cur[c]) => In(list'[c], cur'[c])
        BY <2>1, <3>2, <3>3
      <4> HIDE DEF In
      <4> QED
        BY <1>h, <1>i, <2>1, <3>1, <3>4, <4>1
    <3>5. CASE ~ k <= made[c]
      <4>1. x = Name(p)
        BY <1>e, <2>2, <2>4, <3>1, <3>5
      <4>2. In(list'[c], cur'[c])
        BY <3>2, <3>3, <4>1
      <4> HIDE DEF In
      <4> QED
        BY <1>i, <4>2
    <3> QED
      BY <3>4, <3>5
  <2>5. CASE d = c /\ ~ Len(list[c]) < ListCap
    <3>1. list' = list /\ dropped' = dropped \cup {Name(p)} /\ made'[c] = made[c] + 1
      BY <2>1, <2>5 DEF Typed
    <3>2. k <= made[c] \/ x = Name(p)
      BY <1>e, <2>2, <2>5, <3>1
    <3> HIDE DEF In
    <3> QED
      BY <1>h, <1>i, <2>1, <3>1, <3>2
  <2> QED
    BY <2>3, <2>4, <2>5
<1>3. ASSUME list[c] # << >>, list'[c] = Tail(list[c]), NEW i \in 1 .. Len(list[c])
      PROVE  \/ list[c][i] = Head(list[c])
             \/ i - 1 \in 1 .. Len(list'[c]) /\ list'[c][i - 1] = list[c][i]
  <2>1. /\ Head(list[c]) = list[c][1] /\ Len(Tail(list[c])) = Len(list[c]) - 1
        /\ \A j \in 1 .. Len(Tail(list[c])) : Tail(list[c])[j] = list[c][j + 1]
    BY <1>3, <1>e, Taken
  <2> QED
    BY <1>3, <1>e, <2>1
<1>4. ASSUME NEW d \in Channels, NEW p \in AnyPacket, Sends(d, p)
      PROVE  Settled(c, k)'
  <2>1. UNCHANGED <<made, unacked, dropped>>
    BY <1>4 DEF Sends
  <2>2. CASE d # c
    <3>1. cur'[c] = cur[c] /\ list'[c] = list[c]
      BY <1>4, <2>2 DEF Sends, Typed
    <3> QED
      BY <1>1, <2>1, <3>1
  <2>3. CASE d = c /\ cur[c] = p /\ p # NULL /\ UNCHANGED list
    <3>1. cur'[c] # NULL /\ Name(cur'[c]) = Name(p)
      BY <1>4, <2>3 DEF Sends, Same, Name
    <3> QED
      BY <1>1, <2>1, <2>3, <3>1
  <2>4. CASE d = c /\ cur[c] = NULL /\ list[c] # << >> /\ p = Head(list[c])
             /\ list' = [list EXCEPT ![c] = Tail(@)]
    <3>1. cur'[c] # NULL /\ Name(cur'[c]) = Name(p) /\ list'[c] = Tail(list[c])
      BY <1>4, <2>4 DEF Sends, Same, Name, Typed
    <3>2. In(list[c], cur[c]) => In(list'[c], cur'[c])
      BY <1>3, <2>4, <3>1
    <3> HIDE DEF In
    <3> QED
      BY <1>1, <2>1, <3>2
  <2> QED
    BY <1>4, <2>2, <2>3, <2>4 DEF Sends
<1>5. ASSUME NEW d \in Channels, Marks(d) PROVE Settled(c, k)'
  <2>1. UNCHANGED <<list, made, unacked, dropped>>
    BY <1>5 DEF Marks, lists, history
  <2>2. cur'[c] = cur[c] \/ (cur'[c] # NULL /\ Name(cur'[c]) = Name(cur[c]))
    BY <1>5 DEF Marks, Same, Name
  <2> QED
    BY <1>1, <2>1, <2>2
<1>6. ASSUME NEW d \in Channels, NoAckAwaited(d) PROVE Settled(c, k)'
  <2>1. /\ cur' = [cur EXCEPT ![d] = NULL] /\ unacked' = unacked \cup {Name(cur[d])}
        /\ UNCHANGED <<list, made, dropped>>
    BY <1>6 DEF NoAckAwaited, lists
  <2>2. d # c => cur'[c] = cur[c]
    BY <2>1 DEF Typed
  <2> QED
    BY <1>1, <2>1, <2>2
<1>7. ASSUME NEW d \in Channels, Acked(d) PROVE Settled(c, k)'
  <2>1. /\ cur' = [cur EXCEPT ![d] = NULL] /\ UNCHANGED <<list, made, unacked, dropped>>
    BY <1>7 DEF Acked, lists, history
  <2>2. d # c => cur'[c] = cur[c]
    BY <2>1 DEF Typed
  <2>3. d = c => x # Name(cur[c])
    BY <1>7 DEF Name
  <2> QED
    BY <1>1, <2>1, <2>2, <2>3
<1>8. CASE ConvertFails
  <2>1. /\ list["cloud"] # << >> /\ list' = [list EXCEPT !["cloud"] = Tail(@)]
        /\ dropped' = dropped \cup {Name(Head(list["cloud"]))}
        /\ UNCHANGED <<made, cur, unacked>>
    BY <1>8 DEF ConvertFails, channels
  <2>2. CASE c # "cloud"
    <3>1. list'[c] = list[c]
      BY <1>e, <2>1, <2>2 DEF Typed
    <3> QED
      BY <1>1, <2>1, <3>1
  <2>3. CASE c = "cloud"
    <3>1. list'[c] = Tail(list[c])
      BY <1>e, <2>1, <2>3 DEF Typed
    <3>2. In(list[c], cur[c]) => x \in unacked' \cup dropped' \/ In(list'[c], cur'[c])
      BY <1>3, <2>1, <2>3, <3>1
    <3> HIDE DEF In
    <3> QED
      BY <1>1, <2>1, <3>2
  <2> QED
    BY <2>2, <2>3
<1>9. CASE LineMoves \/ Replies \/ Calm
  <2>1. made'[c] = made[c] /\ UNCHANGED <<list, cur, unacked, dropped>>
    BY <1>9 DEF LineMoves, Replies, Calm, lists, history
  <2> QED
    BY <1>1, <2>1
<1> QED
  BY <1>2, <1>4, <1>5, <1>6, <1>7, <1>8, <1>9, StepShapes

(* What is about stays recent, unless a newer packet is acknowledged.      *)
LEMMA RecentNext ==
  ASSUME Typed, Armed, [Next]_vars, NEW c \in Channels, NEW m \in Nat, <<c, m>> \in Recent,
         Acked(c) => cur[c].n <= m
  PROVE  <<c, m>> \in Recent'
<1>1. made[c] \in Nat /\ made'[c] \in Nat
  BY TypedNext DEF Typed
<1>2. ASSUME NEW k \in m + 1 .. made'[c] PROVE Settled(c, k)'
  <2>1. k \in 1 .. made'[c] /\ (k <= made[c] => Settled(c, k))
    BY <1>1 DEF Recent
  <2>2. ~ (Acked(c) /\ k = cur[c].n)
    <3>1. Acked(c) => cur[c] \in AnyPacket
      BY Elements DEF Acked, Waiting
    <3> QED
      BY <3>1 DEF AnyPacket
  <2> QED
    BY <2>1, <2>2, SettledNext
<1> QED
  BY <1>2 DEF Recent

(* The numbers of the packets that were sent.                              *)
LEMMA SentNumbers ==
  ASSUME Typed, Placed, NEW c \in Channels, NEW n, <<c, n>> \in sent
  PROVE  n \in 1 .. made[c]
BY DEF Placed, Names

(* No packet is lost, told packet by packet.                               *)
LEMMA NothingLostBy ==
  ASSUME Typed, Placed
  PROVE  NothingLost <=> \A c \in Channels : \A k \in 1 .. made[c] :
                           <<c, k>> \in received \/ Settled(c, k)
<1>1. ASSUME NEW c \in Channels, NEW k \in 1 .. made[c]
      PROVE  <<c, k>> \in Names /\ \A d \in Channels : <<c, k>> \in Held(d) => d = c
  <2>1. <<c, k>> \in Names
    BY DEF Names
  <2>2. ASSUME NEW d \in Channels, <<c, k>> \in Held(d) PROVE d = c
    <3>1. \/ \E i \in 1 .. Len(list[d]) : <<c, k>> = Name(list[d][i])
          \/ cur[d] # NULL /\ <<c, k>> = Name(cur[d])
      BY <2>2, HeldBy
    <3> QED
      BY <3>1 DEF Placed, Of, Name
  <2> QED
    BY <2>1, <2>2
<1>2. ASSUME NEW x \in Names PROVE \E c \in Channels : \E k \in 1 .. made[c] : x = <<c, k>>
  BY DEF Names
<1> QED
  BY <1>1, <1>2 DEF NothingLost, Settled

(* Only the acknowledgement of another packet could lose one.              *)
LEMMA NothingLostNext ==
  ASSUME Typed, Armed, Placed, NothingLost, [Next]_vars,
         \A c \in Channels : Acked(c) => <<c, cur[c].n>> \in received
  PROVE  NothingLost'
<1>1. Typed' /\ Placed'
  BY TypedNext, PlacedNext
<1>2. ASSUME NEW c \in Channels, NEW k \in 1 .. made'[c]
      PROVE  <<c, k>> \in received' \/ Settled(c, k)'
  <2>1. received \subseteq received'
    BY StepShapes DEF Submit, Sends, Marks, NoAckAwaited, Acked, ConvertFails, LineMoves, Replies,
       Calm, history
  <2>2. CASE <<c, k>> \in received
    BY <2>1, <2>2
  <2>3. CASE <<c, k>> \notin received
    <3>1. made[c] \in Nat /\ made'[c] \in Nat
      BY <1>1 DEF Typed
    <3>2. k <= made[c] => Settled(c, k)
      BY <2>3, <3>1, NothingLostBy
    <3>3. ~ (Acked(c) /\ k = cur[c].n)
      BY <2>3
    <3> QED
      BY <3>2, <3>3, SettledNext
  <2> QED
    BY <2>2, <2>3
<1>3. NothingLost' <=> \A c \in Channels : \A k \in 1 .. made'[c] :
                         <<c, k>> \in received' \/ Settled(c, k)'
  <2>1. (Typed /\ Placed => (NothingLost <=> \A c \in Channels : \A k \in 1 .. made[c] :
                                              <<c, k>> \in received \/ Settled(c, k)))'
    BY NothingLostBy, PTL
  <2> QED
    BY <1>1, <2>1
<1> QED
  BY <1>2, <1>3

(* The acknowledgement that fits the packet a channel waits for is of that *)
(* packet: one of an earlier packet with the same ID is no longer about.   *)
LEMMA SameId ==
  ASSUME Typed, Placed, Ordered, Numbered, Distinguishable, NEW c \in Channels,
         st[c] = "WAIT", cur[c] # NULL, NEW m \in Nat, <<c, m>> \in received,
         Carries(m, cur[c].id), <<c, m>> \in Recent
  PROVE  m = cur[c].n
<1>1. /\ cur[c] \in AnyPacket /\ cur[c].n \in Nat /\ cur[c].id \in 0 .. IdMod - 1
      /\ made[c] \in Nat /\ cur[c].n <= made[c] /\ IdMod \in Nat
  BY Elements, UartAssumption DEF Typed, AnyPacket, Placed, Of
<1>2. <<c, m>> \in sent
  BY DEF Placed
<1>3. m >= 1
  BY <1>2, SentNumbers
<1>4. m <= cur[c].n
  <2>1. m < cur[c].n + 1
    BY <1>2 DEF Ordered, Newer
  <2> QED
    BY <1>1, <2>1
<1>5. ASSUME m < cur[c].n PROVE FALSE
  <2>1. Carries(cur[c].n, cur[c].id)
    BY DEF Numbered, Told
  <2>2. m + IdMod <= cur[c].n
    BY <1>1, <1>5, <2>1, CarriesApart
  <2>3. PICK k \in 1 .. cur[c].n - 1 : k + IdMod > cur[c].n /\ <<c, k>> \notin unacked \cup dropped
    BY <1>1, <1>3, <2>2 DEF Distinguishable
  <2>4. k \in m + 1 .. made[c] /\ k < cur[c].n
    BY <1>1, <2>2, <2>3
  <2>5. <<c, k>> \in Held(c)
    BY <2>3, <2>4 DEF Recent, Settled
  <2>6. \/ \E i \in 1 .. Len(list[c]) : <<c, k>> = Name(list[c][i])
        \/ <<c, k>> = Name(cur[c])
    BY <2>5, HeldBy
  <2>7. \A i \in 1 .. Len(list[c]) : list[c][i].n \in Nat /\ cur[c].n < list[c][i].n
    BY Elements DEF Ordered, AnyPacket
  <2> QED
    BY <1>1, <2>4, <2>6, <2>7 DEF Name
<1> QED
  BY <1>1, <1>4, <1>5

(* What ack, ackList and rx hold.                                          *)
LEMMA AckElements ==
  ASSUME Typed
  PROVE  /\ ack # NULL => ack \in Acks
         /\ ackList \in Seq(Acks) /\ Len(ackList) \in Nat
         /\ \A i \in 1 .. Len(ackList) : ackList[i] \in Acks
         /\ rx \in Seq(AckFrame \cup RequestFrame) /\ Len(rx) \in Nat
         /\ \A i \in 1 .. Len(rx) : /\ rx[i] \in AckFrame \cup RequestFrame
                                    /\ rx[i].kind = "ack" => rx[i] \in AckFrame
<1>1. /\ ackList \in Seq(Acks) /\ Len(ackList) \in Nat
      /\ rx \in Seq(AckFrame \cup RequestFrame) /\ Len(rx) \in Nat
  BY LenProperties DEF Typed
<1>2. \A i \in 1 .. Len(ackList) : ackList[i] \in Acks
  BY <1>1, ElementOfSeq
<1>3. \A i \in 1 .. Len(rx) : rx[i] \in AckFrame \cup RequestFrame
  BY <1>1, ElementOfSeq
<1>4. \A x \in RequestFrame : x.kind # "ack"
  BY DEF RequestFrame
<1> QED
  BY <1>1, <1>2, <1>3, <1>4 DEF Typed

(* When an acknowledgement is taken, it is of the packet its channel waits *)
(* for, and so are all that follow it on their way.                        *)
LEMMA TakenIsCurrent ==
  ASSUME Typed, Placed, Ordered, InOrder, Numbered, Distinguishable,
         NEW a \in Nat, NEW v \in Seq(Nat), NEW w \in Seq(Nat), Traced(a, v, w),
         NEW c \in Channels, Acked(c)
  PROVE  /\ a = cur[c].n /\ <<c, cur[c].n>> \in received
         /\ \A i \in 1 .. Len(ackList) : ackList[i].type = c => cur[c].n <= v[i]
         /\ \A i \in 1 .. Len(rx) : rx[i].kind = "ack" /\ rx[i].type = c => cur[c].n <= w[i]
         /\ \A j \in 1 .. Len(tx) :
              tx[j].kind = "packet" /\ tx[j].packet.type = c => cur[c].n <= tx[j].packet.n
<1>1. /\ st[c] = "WAIT" /\ cur[c] # NULL /\ ack # NULL
      /\ cur[c].type = ack.type /\ cur[c].id = ack.id
  BY DEF Acked, Waiting, AckPacketCompare
<1>2. cur[c].type = c
  BY <1>1 DEF Placed, Of
<1>3. <<c, a>> \in received /\ Carries(a, cur[c].id) /\ <<c, a>> \in Recent
  BY <1>1, <1>2 DEF Traced, Answered, Answers
<1>4. a = cur[c].n
  BY <1>1, <1>3, SameId
<1>5. ack # NULL => /\ \A i \in 1 .. Len(ackList) : ackList[i].type = ack.type => a <= v[i]
                    /\ \A i \in 1 .. Len(rx) :
                         rx[i].kind = "ack" /\ rx[i].type = ack.type => a <= w[i]
  BY DEF Traced, InTurn
<1>6. ASSUME NEW j \in 1 .. Len(tx), tx[j].kind = "packet", tx[j].packet.type = c
      PROVE  a <= tx[j].packet.n
  <2>1. j \in DOMAIN tx
    BY Elements, LenProperties
  <2>2. \A x \in received : x[1] = c => x[2] <= tx[j].packet.n
    BY <1>6, <2>1 DEF InOrder
  <2> QED
    BY <1>3, <2>2
<1> QED
  BY <1>1, <1>2, <1>3, <1>4, <1>5, <1>6

(* Of the packets on the line, none was made before one that has been      *)
(* acknowledged.                                                           *)
LEMMA OnLineNext ==
  ASSUME Typed, Armed, Placed, Ordered, InOrder, Numbered, Distinguishable, NothingLost, OnLine,
         NEW a \in Nat, NEW v \in Seq(Nat), NEW w \in Seq(Nat), Traced(a, v, w), [Next]_vars
  PROVE  /\ \A j \in 1 .. Len(tx) : tx[j].kind = "packet" => Name(tx[j].packet) \in Recent'
         /\ OnLine'
<1>e. /\ tx \in Seq(PacketFrame \cup ReplyFrame) /\ Len(tx) \in Nat
      /\ \A c \in Channels : list[c] \in Seq(AnyPacket) /\ made[c] \in Nat
  BY Elements DEF Typed
<1>1. ASSUME NEW j \in 1 .. Len(tx), tx[j].kind = "packet"
      PROVE  Name(tx[j].packet) \in Recent'
  <2> DEFINE c == tx[j].packet.type
             m == tx[j].packet.n
  <2>1. c \in Channels /\ m \in Nat
    BY <1>1, Elements DEF AnyPacket
  <2>2. <<c, m>> \in Recent
    BY <1>1 DEF OnLine, Name
  <2>3. Acked(c) => cur[c].n <= m
    BY <1>1, <2>1, TakenIsCurrent
  <2> HIDE DEF c, m
  <2>4. <<c, m>> \in Recent'
    BY <2>1, <2>2, <2>3, RecentNext
  <2> QED
    BY <2>4 DEF c, m, Name
<1>2. ASSUME UNCHANGED tx PROVE OnLine'
  BY <1>1, <1>2 DEF OnLine
<1>3. ASSUME tx # << >>, tx' = Tail(tx) PROVE OnLine'
  <2>1. \A j \in 1 .. Len(tx') : tx'[j] = tx[j + 1] /\ j + 1 \in 1 .. Len(tx)
    BY <1>e, <1>3, Taken
  <2> QED
    BY <1>1, <2>1 DEF OnLine
<1>4. ASSUME NEW f \in PacketFrame \cup ReplyFrame, tx' = Append(tx, f),
             f.kind = "packet" => Name(f.packet) \in Recent'
      PROVE  OnLine'
  <2>1. /\ Len(tx') = Len(tx) + 1 /\ tx'[Len(tx) + 1] = f
        /\ \A j \in 1 .. Len(tx) : tx'[j] = tx[j]
    BY <1>e, <1>4, Added
  <2>2. \A j \in 1 .. Len(tx') : j \in 1 .. Len(tx) \/ j = Len(tx) + 1
    BY <1>e, <2>1
  <2> QED
    BY <1>1, <1>4, <2>1, <2>2 DEF OnLine
<1>5. ASSUME NEW c \in Channels, NEW p \in AnyPacket, Sends(c, p) PROVE OnLine'
  <2>1. PICK f \in PacketFrame : f.packet = cur'[c] /\ tx' = Append(tx, f)
    BY <1>5 DEF Sends
  <2>2. \/ cur[c] = p /\ p # NULL
        \/ cur[c] = NULL /\ list[c] # << >> /\ p = list[c][1] /\ 1 \in 1 .. Len(list[c])
    BY <1>e, <1>5, Taken DEF Sends
  <2>3. Name(f.packet) = <<c, p.n>> /\ p.n \in Nat
    BY <1>5, <2>1, <2>2 DEF Sends, Same, Name, Placed, Of, AnyPacket
  <2>4. ASSUME NEW k \in p.n + 1 .. made'[c] PROVE Settled(c, k)'
    <3>1. made'[c] = made[c] /\ k \in 1 .. made'[c] /\ k > p.n
      BY <1>e, <1>5, <2>3 DEF Sends
    <3>2. Newer(sent, c, p.n + 1)
      <4>1. CASE cur[c] = p /\ p # NULL
        BY <4>1 DEF Ordered
      <4>2. CASE p = list[c][1] /\ 1 \in 1 .. Len(list[c])
        <5>1. Newer(sent, c, p.n)
          BY <4>2 DEF Ordered
        <5>2. \A x \in sent : x[2] \in Nat
          BY DEF Placed, Names, Typed
        <5> QED
          BY <2>3, <5>1, <5>2 DEF Newer
      <4> QED
        BY <2>2, <4>1, <4>2
    <3>3. <<c, k>> \notin sent
      <4>1. ASSUME <<c, k>> \in sent PROVE k < p.n + 1
        BY <3>2, <4>1 DEF Newer
      <4> QED
        BY <2>3, <3>1, <4>1
    <3>4. Settled(c, k)
      <4>1. k \in 1 .. made[c]
        BY <3>1
      <4> QED
        BY <3>3, <4>1, NothingLostBy DEF Placed
    <3>5. ~ (Acked(c) /\ k = cur[c].n)
      BY <2>2, <2>3, <3>1 DEF Acked, Waiting
    <3> QED
      BY <3>1, <3>4, <3>5, SettledNext
  <2>5. <<c, p.n>> \in Recent'
    BY <2>3, <2>4 DEF Recent
  <2> QED
    BY <1>4, <2>1, <2>3, <2>5
<1>6. ASSUME Replies PROVE OnLine'
  <2>1. PICK f \in ReplyFrame : tx' = Append(tx, f)
    BY <1>6 DEF Replies
  <2> QED
    BY <1>4, <2>1 DEF ReplyFrame
<1>7. ASSUME NEW c \in Channels, \/ Marks(c) \/ NoAckAwaited(c) \/ Acked(c)
                                 \/ \E bits : Submit(c, bits)
      PROVE  UNCHANGED tx
  BY <1>7 DEF Marks, NoAckAwaited, Acked, Submit
<1>8. ASSUME ConvertFails \/ Calm PROVE OnLine'
  BY <1>2, <1>8 DEF ConvertFails, Calm
<1>9. ASSUME LineMoves PROVE OnLine'
  BY <1>3, <1>9 DEF LineMoves
<1> QED
  BY <1>1, <1>2, <1>5, <1>6, <1>7, <1>8, <1>9, StepShapes

(* Acknowledgements stay answers of their packets as long as they are      *)
(* about, and those of a channel come back in the order they went.         *)
LEMMA FollowedNext ==
  ASSUME Typed, Armed, Placed, Ordered, InOrder, Numbered, Distinguishable, NothingLost, OnLine,
         Followed, [Next]_vars
  PROVE  Followed'
<1>1. PICK a \in Nat, v \in Seq(Nat), w \in Seq(Nat) : Traced(a, v, w)
  BY DEF Followed
<1> DEFINE Fine(x, n) == <<x.type, n>> \in received' \cap Recent' /\ Carries(n, x.id)
           IsAck(x) == x.kind = "ack"
<1>e. /\ ack # NULL => ack \in Acks
      /\ ackList \in Seq(Acks) /\ Len(ackList) \in Nat /\ Len(ackList) <= ListCap
      /\ \A i \in 1 .. Len(ackList) : ackList[i].type \in Channels /\ v[i] \in Nat
      /\ rx \in Seq(AckFrame \cup RequestFrame) /\ Len(rx) \in Nat
      /\ \A i \in 1 .. Len(rx) : (IsAck(rx[i]) => rx[i].type \in Channels) /\ w[i] \in Nat
  <2>1. \A i \in 1 .. Len(ackList) : ackList[i].type \in Channels /\ v[i] \in Nat
    BY <1>1, AckElements, ElementOfSeq DEF Traced, InTurn, Acks
  <2>2. \A i \in 1 .. Len(rx) : (IsAck(rx[i]) => rx[i].type \in Channels) /\ w[i] \in Nat
    BY <1>1, AckElements, ElementOfSeq DEF Traced, InTurn, AckFrame
  <2> QED
    BY <2>1, <2>2, AckElements DEF Typed
<1>r. received \subseteq received'
  BY StepShapes DEF Submit, Sends, Marks, NoAckAwaited, Acked, ConvertFails, LineMoves, Replies,
     Calm, history
<1>f. ASSUME NEW x, NEW n \in Nat, x.type \in Channels, Answers(x, n),
             Acked(x.type) => cur[x.type].n <= n
      PROVE  Fine(x, n)
  <2> DEFINE c == x.type
  <2>1. <<c, n>> \in received /\ <<c, n>> \in Recent
    BY <1>f DEF Answers
  <2>2. c \in Channels /\ (Acked(c) => cur[c].n <= n)
    BY <1>f
  <2> HIDE DEF c
  <2>3. <<c, n>> \in Recent'
    BY <1>f, <2>1, <2>2, RecentNext
  <2> QED
    BY <1>f, <1>r, <2>1, <2>3 DEF Answers, c
<1>c. \A c \in Channels : Acked(c) =>
        /\ a = cur[c].n
        /\ \A i \in 1 .. Len(ackList) : ackList[i].type = c => cur[c].n <= v[i]
        /\ \A i \in 1 .. Len(rx) : IsAck(rx[i]) /\ rx[i].type = c => cur[c].n <= w[i]
  BY <1>1, TakenIsCurrent
<1>2. ack # NULL => Fine(ack, a)
  <2>1. ASSUME ack # NULL PROVE Fine(ack, a)
    <3>1. ack.type \in Channels /\ Answers(ack, a)
      BY <1>1, <1>e, <2>1 DEF Traced, Answered, Acks
    <3>2. Acked(ack.type) => cur[ack.type].n <= a
      BY <1>c, <3>1
    <3> HIDE DEF Fine
    <3> QED
      BY <1>f, <3>1, <3>2
  <2> QED
    BY <2>1
<1>3. ASSUME NEW i \in 1 .. Len(ackList) PROVE Fine(ackList[i], v[i])
  <2>1. ackList[i].type \in Channels /\ v[i] \in Nat /\ Answers(ackList[i], v[i])
    BY <1>1, <1>e DEF Traced, Answered
  <2>2. Acked(ackList[i].type) => cur[ackList[i].type].n <= v[i]
    BY <1>c, <2>1
  <2> HIDE DEF Fine
  <2> QED
    BY <1>f, <2>1, <2>2
<1>4. ASSUME NEW i \in 1 .. Len(rx), IsAck(rx[i]) PROVE Fine(rx[i], w[i])
  <2>1. rx[i].type \in Channels /\ w[i] \in Nat /\ Answers(rx[i], w[i])
    BY <1>1, <1>4, <1>e DEF Traced, Answered
  <2>2. Acked(rx[i].type) => cur[rx[i].type].n <= w[i]
    BY <1>c, <1>4, <2>1
  <2> HIDE DEF Fine
  <2> QED
    BY <1>f, <2>1, <2>2
<1>o. /\ Len(v) = Len(ackList) /\ Len(w) = Len(rx)
      /\ ack # NULL =>
           /\ \A i \in 1 .. Len(ackList) : ackList[i].type = ack.type => a <= v[i]
           /\ \A i \in 1 .. Len(rx) : IsAck(rx[i]) /\ rx[i].type = ack.type => a <= w[i]
      /\ \A i \in 1 .. Len(ackList) :
           /\ \A j \in 1 .. Len(ackList) :
                i < j /\ ackList[j].type = ackList[i].type => v[i] <= v[j]
           /\ \A j \in 1 .. Len(rx) :
                IsAck(rx[j]) /\ rx[j].type = ackList[i].type => v[i] <= w[j]
      /\ \A i, j \in 1 .. Len(rx) :
           i < j /\ IsAck(rx[i]) /\ IsAck(rx[j]) /\ rx[j].type = rx[i].type => w[i] <= w[j]
  BY <1>1 DEF Traced, InTurn
<1> HIDE DEF Fine
<1>t. ASSUME NEW a2 \in Nat, NEW v2 \in Seq(Nat), NEW w2 \in Seq(Nat),
             Len(v2) = Len(ackList'), Len(w2) = Len(rx'),
             ack' # NULL =>
               /\ Fine(ack', a2)
               /\ \A i \in 1 .. Len(ackList') : ackList'[i].type = ack'.type => a2 <= v2[i]
               /\ \A i \in 1 .. Len(rx') : IsAck(rx'[i]) /\ rx'[i].type = ack'.type => a2 <= w2[i],
             \A i \in 1 .. Len(ackList') :
               /\ Fine(ackList'[i], v2[i])
               /\ \A j \in 1 .. Len(ackList') :
                    i < j /\ ackList'[j].type = ackList'[i].type => v2[i] <= v2[j]
               /\ \A j \in 1 .. Len(rx') :
                    IsAck(rx'[j]) /\ rx'[j].type = ackList'[i].type => v2[i] <= w2[j],
             \A i \in 1 .. Len(rx') : IsAck(rx'[i]) =>
               /\ Fine(rx'[i], w2[i])
               /\ \A j \in 1 .. Len(rx') :
                    i < j /\ IsAck(rx'[j]) /\ rx'[j].type = rx'[i].type => w2[i] <= w2[j]
      PROVE  Followed'
  <2>1. Answered(a2, v2, w2)'
    BY <1>t DEF Answered, Answers, Fine
  <2>2. InTurn(a2, v2, w2)'
    BY <1>t DEF InTurn
  <2> QED
    BY <2>1, <2>2 DEF Followed, Traced
<1>5. ASSUME ack' \in {ack, NULL}, UNCHANGED <<ackList, rx>> PROVE Followed'
  <2>1. /\ ack' # NULL => ack' = ack
        /\ ackList' = ackList /\ rx' = rx
    BY <1>5
  <2> HIDE DEF IsAck
  <2>2. ack' # NULL =>
          /\ Fine(ack', a)
          /\ \A i \in 1 .. Len(ackList') : ackList'[i].type = ack'.type => a <= v[i]
          /\ \A i \in 1 .. Len(rx') : IsAck(rx'[i]) /\ rx'[i].type = ack'.type => a <= w[i]
    BY <1>o, <1>2, <2>1
  <2>3. \A i \in 1 .. Len(ackList') :
          /\ Fine(ackList'[i], v[i])
          /\ \A j \in 1 .. Len(ackList') :
               i < j /\ ackList'[j].type = ackList'[i].type => v[i] <= v[j]
          /\ \A j \in 1 .. Len(rx') :
               IsAck(rx'[j]) /\ rx'[j].type = ackList'[i].type => v[i] <= w[j]
    BY <1>o, <1>3, <2>1
  <2>4. \A i \in 1 .. Len(rx') : IsAck(rx'[i]) =>
          /\ Fine(rx'[i], w[i])
          /\ \A j \in 1 .. Len(rx') :
               i < j /\ IsAck(rx'[j]) /\ rx'[j].type = rx'[i].type => w[i] <= w[j]
    BY <1>o, <1>4, <2>1
  <2>5. Len(v) = Len(ackList') /\ Len(w) = Len(rx')
    BY <1>o, <2>1
  <2> QED
    BY <1>t, <2>2, <2>3, <2>4, <2>5
<1>6. CASE PopAck /\ ackList # << >>
  <2> DEFINE v2 == Tail(v)
  <2>1. /\ ack' = ackList[1] /\ 1 \in 1 .. Len(ackList) /\ rx' = rx
        /\ Len(ackList') = Len(ackList) - 1
        /\ \A i \in 1 .. Len(ackList') : ackList'[i] = ackList[i + 1] /\ i + 1 \in 1 .. Len(ackList)
    BY <1>e, <1>6, Taken DEF PopAck
  <2>2. v # << >>
    BY <1>e, <1>o, <2>1, EmptySeq
  <2>3. /\ v2 \in Seq(Nat) /\ Len(v2) = Len(ackList')
        /\ \A i \in 1 .. Len(ackList') : v2[i] = v[i + 1]
    BY <1>o, <2>1, <2>2, Taken
  <2> HIDE DEF v2, IsAck
  <2>4. \A i, j \in 1 .. Len(ackList') : i < j => i + 1 < j + 1
    BY <1>e, <2>1
  <2>5. \A i \in 1 .. Len(ackList') : 1 < i + 1
    OBVIOUS
  <2>6. v[1] \in Nat /\ Fine(ack', v[1])
    BY <1>e, <1>3, <2>1
  <2>7. \A i \in 1 .. Len(ackList') : ackList'[i].type = ack'.type => v[1] <= v2[i]
    BY <1>o, <2>1, <2>3, <2>5
  <2>8. \A i \in 1 .. Len(rx') : IsAck(rx'[i]) /\ rx'[i].type = ack'.type => v[1] <= w[i]
    BY <1>o, <2>1
  <2>9. ASSUME NEW i \in 1 .. Len(ackList')
        PROVE  /\ Fine(ackList'[i], v2[i])
               /\ \A j \in 1 .. Len(ackList') :
                    i < j /\ ackList'[j].type = ackList'[i].type => v2[i] <= v2[j]
               /\ \A j \in 1 .. Len(rx') :
                    IsAck(rx'[j]) /\ rx'[j].type = ackList'[i].type => v2[i] <= w[j]
    <3>1. ackList'[i] = ackList[i + 1] /\ i + 1 \in 1 .. Len(ackList) /\ v2[i] = v[i + 1]
      BY <2>1, <2>3
    <3>2. Fine(ackList'[i], v2[i])
      BY <1>3, <3>1
    <3>3. ASSUME NEW j \in 1 .. Len(ackList'), i < j, ackList'[j].type = ackList'[i].type
          PROVE  v2[i] <= v2[j]
      <4>1. ackList'[j] = ackList[j + 1] /\ j + 1 \in 1 .. Len(ackList) /\ v2[j] = v[j + 1]
        BY <2>1, <2>3
      <4> QED
        BY <1>o, <2>4, <3>1, <3>3, <4>1
    <3>4. ASSUME NEW j \in 1 .. Len(rx'), IsAck(rx'[j]), rx'[j].type = ackList'[i].type
          PROVE  v2[i] <= w[j]
      BY <1>o, <2>1, <3>1, <3>4
    <3> QED
      BY <3>2, <3>3, <3>4
  <2>10. \A i \in 1 .. Len(rx') : IsAck(rx'[i]) =>
           /\ Fine(rx'[i], w[i])
           /\ \A j \in 1 .. Len(rx') :
                i < j /\ IsAck(rx'[j]) /\ rx'[j].type = rx'[i].type => w[i] <= w[j]
    BY <1>o, <1>4, <2>1
  <2>11. Len(w) = Len(rx')
    BY <1>o, <2>1
  <2> QED
    BY <1>t, <2>3, <2>6, <2>7, <2>8, <2>9, <2>10, <2>11
<1>7. ASSUME rx # << >>
      PROVE  /\ w # << >> /\ Tail(w) \in Seq(Nat) /\ Len(Tail(w)) = Len(Tail(rx))
             /\ Head(rx) = rx[1] /\ 1 \in 1 .. Len(rx)
             /\ \A i \in 1 .. Len(Tail(rx)) : /\ Tail(rx)[i] = rx[i + 1] /\ Tail(w)[i] = w[i + 1]
                                              /\ i + 1 \in 1 .. Len(rx) /\ 1 < i + 1
  <2>1. /\ Head(rx) = rx[1] /\ Len(rx) > 0 /\ Len(Tail(rx)) = Len(rx) - 1
        /\ \A i \in 1 .. Len(Tail(rx)) : Tail(rx)[i] = rx[i + 1] /\ i + 1 \in 1 .. Len(rx)
    BY <1>e, <1>7, Taken
  <2>2. w # << >>
    BY <1>o, <2>1, EmptySeq
  <2>3. /\ Tail(w) \in Seq(Nat) /\ Len(Tail(w)) = Len(w) - 1
        /\ \A i \in 1 .. Len(Tail(w)) : Tail(w)[i] = w[i + 1]
    BY <2>2, Taken
  <2> QED
    BY <1>e, <1>o, <2>1, <2>2, <2>3
<1>8. ASSUME rx # << >>, rx' = Tail(rx), UNCHANGED <<ack, ackList>> PROVE Followed'
  <2>1. /\ Tail(w) \in Seq(Nat) /\ Len(Tail(w)) = Len(rx')
        /\ \A i \in 1 .. Len(rx') : /\ rx'[i] = rx[i + 1] /\ Tail(w)[i] = w[i + 1]
                                    /\ i + 1 \in 1 .. Len(rx)
    BY <1>7, <1>8
  <2>2. \A i, j \in 1 .. Len(rx') : i < j => i + 1 < j + 1
    OBVIOUS
  <2> HIDE DEF IsAck
  <2>3. ack' # NULL =>
          /\ Fine(ack', a)
          /\ \A i \in 1 .. Len(ackList') : ackList'[i].type = ack'.type => a <= v[i]
          /\ \A i \in 1 .. Len(rx') : IsAck(rx'[i]) /\ rx'[i].type = ack'.type => a <= Tail(w)[i]
    BY <1>o, <1>2, <1>8, <2>1
  <2>4. \A i \in 1 .. Len(ackList') :
          /\ Fine(ackList'[i], v[i])
          /\ \A j \in 1 .. Len(ackList') :
               i < j /\ ackList'[j].type = ackList'[i].type => v[i] <= v[j]
          /\ \A j \in 1 .. Len(rx') :
               IsAck(rx'[j]) /\ rx'[j].type = ackList'[i].type => v[i] <= Tail(w)[j]
    BY <1>o, <1>3, <1>8, <2>1
  <2>5. \A i \in 1 .. Len(rx') : IsAck(rx'[i]) =>
          /\ Fine(rx'[i], Tail(w)[i])
          /\ \A j \in 1 .. Len(rx') :
               i < j /\ IsAck(rx'[j]) /\ rx'[j].type = rx'[i].type => Tail(w)[i] <= Tail(w)[j]
    BY <1>o, <1>4, <2>1, <2>2
  <2>6. Len(v) = Len(ackList')
    BY <1>o, <1>8
  <2> QED
    BY <1>t, <2>1, <2>3, <2>4, <2>5, <2>6
<1>9. ASSUME NEW x \in AckFrame \cup RequestFrame, NEW n \in Nat, rx' = Append(rx, x),
             UNCHANGED <<ack, ackList>>,
             IsAck(x) => Fine(x, n) /\ \A m \in Nat : <<x.type, m>> \in received => m <= n
      PROVE  Followed'
  <2> DEFINE w2 == Append(w, n)
  <2>1. /\ w2 \in Seq(Nat) /\ Len(w2) = Len(rx') /\ Len(rx') = Len(rx) + 1
        /\ \A i \in 1 .. Len(rx) : rx'[i] = rx[i] /\ w2[i] = w[i]
        /\ rx'[Len(rx) + 1] = x /\ w2[Len(rx) + 1] = n
    BY <1>e, <1>o, <1>9, Added
  <2> HIDE DEF w2
  <2>2. \A i \in 1 .. Len(rx') : i \in 1 .. Len(rx) \/ i = Len(rx) + 1
    BY <1>e, <2>1
  <2>3. /\ ack # NULL => <<ack.type, a>> \in received
        /\ \A i \in 1 .. Len(ackList) : <<ackList[i].type, v[i]>> \in received
        /\ \A i \in 1 .. Len(rx) : IsAck(rx[i]) => <<rx[i].type, w[i]>> \in received
    BY <1>1 DEF Traced, Answered, Answers
  <2>4. IsAck(x) => /\ ack # NULL /\ x.type = ack.type => a <= n
                    /\ \A i \in 1 .. Len(ackList) : x.type = ackList[i].type => v[i] <= n
                    /\ \A i \in 1 .. Len(rx) : IsAck(rx[i]) /\ x.type = rx[i].type => w[i] <= n
    BY <1>e, <1>9, <2>3
  <2> HIDE DEF IsAck
  <2>5. ack' # NULL =>
          /\ Fine(ack', a)
          /\ \A i \in 1 .. Len(ackList') : ackList'[i].type = ack'.type => a <= v[i]
          /\ \A i \in 1 .. Len(rx') : IsAck(rx'[i]) /\ rx'[i].type = ack'.type => a <= w2[i]
    BY <1>o, <1>2, <1>9, <2>1, <2>2, <2>4
  <2>6. \A i \in 1 .. Len(ackList') :
          /\ Fine(ackList'[i], v[i])
          /\ \A j \in 1 .. Len(ackList') :
               i < j /\ ackList'[j].type = ackList'[i].type => v[i] <= v[j]
          /\ \A j \in 1 .. Len(rx') :
               IsAck(rx'[j]) /\ rx'[j].type = ackList'[i].type => v[i] <= w2[j]
    BY <1>o, <1>3, <1>9, <2>1, <2>2, <2>4
  <2>7. \A i \in 1 .. Len(rx') : IsAck(rx'[i]) => Fine(rx'[i], w2[i])
    BY <1>4, <1>9, <2>1, <2>2
  <2>8. ASSUME NEW i \in 1 .. Len(rx'), NEW j \in 1 .. Len(rx'), i < j, IsAck(rx'[i]),
               IsAck(rx'[j]), rx'[j].type = rx'[i].type
        PROVE  w2[i] <= w2[j]
    <3>1. i \in 1 .. Len(rx)
      BY <1>e, <2>1, <2>8
    <3>2. CASE j \in 1 .. Len(rx)
      BY <1>o, <2>1, <2>8, <3>1, <3>2
    <3>3. CASE j = Len(rx) + 1
      BY <2>1, <2>4, <2>8, <3>1, <3>3
    <3> QED
      BY <2>2, <3>2, <3>3
  <2>9. Len(v) = Len(ackList')
    BY <1>o, <1>9
  <2> QED
    BY <1>t, <2>1, <2>5, <2>6, <2>7, <2>8, <2>9
<1>10. ASSUME rx # << >>, rx' = Tail(rx), IsAck(rx[1]), UNCHANGED ack,
              NEW x \in Acks, x.type = rx[1].type, x.id = rx[1].id, ackList' = Append(ackList, x)
       PROVE  Followed'
  <2> DEFINE v2 == Append(v, w[1])
             w2 == Tail(w)
  <2>1. /\ w2 \in Seq(Nat) /\ Len(w2) = Len(rx') /\ 1 \in 1 .. Len(rx) /\ w[1] \in Nat
        /\ \A i \in 1 .. Len(rx') : /\ rx'[i] = rx[i + 1] /\ w2[i] = w[i + 1]
                                    /\ i + 1 \in 1 .. Len(rx) /\ 1 < i + 1
    BY <1>7, <1>10, <1>e
  <2>2. /\ v2 \in Seq(Nat) /\ Len(v2) = Len(ackList') /\ Len(ackList') = Len(ackList) + 1
        /\ \A i \in 1 .. Len(ackList) : ackList'[i] = ackList[i] /\ v2[i] = v[i]
        /\ ackList'[Len(ackList) + 1] = x /\ v2[Len(ackList) + 1] = w[1]
    BY <1>e, <1>o, <1>10, <2>1, Added
  <2> HIDE DEF v2, w2, IsAck
  <2>3. \A i \in 1 .. Len(ackList') : i \in 1 .. Len(ackList) \/ i = Len(ackList) + 1
    BY <1>e, <2>2
  <2>4. \A i, j \in 1 .. Len(rx') : i < j => i + 1 < j + 1
    OBVIOUS
  <2>5. Fine(x, w[1])
    BY <1>4, <1>10, <2>1 DEF Fine
  <2>6. /\ ack # NULL /\ x.type = ack.type => a <= w[1]
        /\ \A i \in 1 .. Len(ackList) : x.type = ackList[i].type => v[i] <= w[1]
        /\ \A i \in 1 .. Len(rx') : IsAck(rx'[i]) /\ rx'[i].type = x.type => w[1] <= w2[i]
    BY <1>o, <1>10, <2>1
  <2>7. ack' # NULL =>
          /\ Fine(ack', a)
          /\ \A i \in 1 .. Len(ackList') : ackList'[i].type = ack'.type => a <= v2[i]
          /\ \A i \in 1 .. Len(rx') : IsAck(rx'[i]) /\ rx'[i].type = ack'.type => a <= w2[i]
    <3> SUFFICES ASSUME ack # NULL
                 PROVE  /\ Fine(ack, a)
                        /\ \A i \in 1 .. Len(ackList') : ackList'[i].type = ack.type => a <= v2[i]
                        /\ \A i \in 1 .. Len(rx') :
                             IsAck(rx'[i]) /\ rx'[i].type = ack.type => a <= w2[i]
      BY <1>10
    <3>1. ASSUME NEW i \in 1 .. Len(ackList'), ackList'[i].type = ack.type PROVE a <= v2[i]
      <4>1. CASE i \in 1 .. Len(ackList)
        BY <1>o, <2>2, <3>1, <4>1
      <4>2. CASE i = Len(ackList) + 1
        BY <2>2, <2>6, <3>1, <4>2
      <4> QED
        BY <2>3, <4>1, <4>2
    <3>2. \A i \in 1 .. Len(rx') : IsAck(rx'[i]) /\ rx'[i].type = ack.type => a <= w2[i]
      BY <1>o, <2>1
    <3> QED
      BY <1>2, <3>1, <3>2
  <2>8. \A i \in 1 .. Len(ackList') : Fine(ackList'[i], v2[i])
    BY <1>3, <2>2, <2>3, <2>5
  <2>9. ASSUME NEW i \in 1 .. Len(ackList'), NEW j \in 1 .. Len(ackList'), i < j,
               ackList'[j].type = ackList'[i].type
        PROVE  v2[i] <= v2[j]
    <3>1. i \in 1 .. Len(ackList)
      BY <1>e, <2>2, <2>9
    <3>2. CASE j \in 1 .. Len(ackList)
      BY <1>o, <2>2, <2>9, <3>1, <3>2
    <3>3. CASE j = Len(ackList) + 1
      BY <2>2, <2>6, <2>9, <3>1, <3>3
    <3> QED
      BY <2>3, <3>2, <3>3
  <2>10. ASSUME NEW i \in 1 .. Len(ackList'), NEW j \in 1 .. Len(rx'), IsAck(rx'[j]),
                rx'[j].type = ackList'[i].type
         PROVE  v2[i] <= w2[j]
    <3>1. CASE i \in 1 .. Len(ackList)
      <4>1. /\ rx'[j] = rx[j + 1] /\ j + 1 \in 1 .. Len(rx) /\ w2[j] = w[j + 1]
            /\ ackList'[i] = ackList[i] /\ v2[i] = v[i]
        BY <2>1, <2>2, <3>1
      <4> QED
        BY <1>o, <2>10, <3>1, <4>1
    <3>2. CASE i = Len(ackList) + 1
      BY <2>2, <2>6, <2>10, <3>2
    <3> QED
      BY <2>3, <3>1, <3>2
  <2>11. \A i \in 1 .. Len(rx') : IsAck(rx'[i]) =>
           /\ Fine(rx'[i], w2[i])
           /\ \A j \in 1 .. Len(rx') :
                i < j /\ IsAck(rx'[j]) /\ rx'[j].type = rx'[i].type => w2[i] <= w2[j]
    BY <1>o, <1>4, <2>1, <2>4
  <2> QED
    BY <1>t, <2>1, <2>2, <2>7, <2>8, <2>9, <2>10, <2>11
<1>11. CASE PopAck /\ ackList = << >>
  BY <1>5, <1>11 DEF PopAck
<1>12. ASSUME NEW c \in Channels, DeviceReceives(c) PROVE Followed'
  <2> DEFINE p == Head(tx).packet
             x == [kind |-> "ack", type |-> c, id |-> p.id]
  <2>1. tx # << >> /\ Head(tx) = tx[1] /\ 1 \in 1 .. Len(tx)
        /\ tx[1].kind = "packet" /\ p.type = c /\ received' = received \cup {Name(p)}
    BY <1>12, Elements, Taken DEF DeviceReceives
  <2>2. p \in AnyPacket /\ Told(p) /\ Name(p) \in Recent'
    BY <1>1, <2>1, Elements, OnLineNext DEF Numbered
  <2>3. /\ x \in AckFrame \cup RequestFrame /\ x.type = c /\ x.id = p.id
        /\ p.n \in Nat /\ Name(p) = <<c, p.n>>
    BY <2>1, <2>2 DEF AckFrame, AnyPacket, Name
  <2>4. Fine(x, p.n)
    BY <2>1, <2>2, <2>3 DEF Fine, Told
  <2>5. ASSUME NEW m \in Nat, <<c, m>> \in received PROVE m <= p.n
    <3>1. 1 \in DOMAIN tx
      BY <2>1, Elements, LenProperties
    <3> QED
      BY <2>1, <2>5, <3>1 DEF InOrder
  <2>6. (UNCHANGED rx \/ rx' = Append(rx, x)) /\ UNCHANGED <<ack, ackList>>
    BY <1>12 DEF DeviceReceives
  <2> HIDE DEF x, p, IsAck
  <2> QED
    BY <1>5, <1>9, <2>3, <2>4, <2>5, <2>6
<1>13. CASE DeviceRequests
  <2> DEFINE x == [kind |-> "request", n |-> made["device"] + 1]
  <2>1. x \in AckFrame \cup RequestFrame /\ ~ IsAck(x)
    BY DEF Typed, RequestFrame
  <2>2. rx' = Append(rx, x) /\ UNCHANGED <<ack, ackList>>
    BY <1>13 DEF DeviceRequests
  <2> HIDE DEF x, IsAck
  <2> QED
    BY <1>9, <2>1, <2>2
<1>14. CASE FrameLost \/ ReceiveRequest
  BY <1>5, <1>8, <1>14 DEF FrameLost, ReceiveRequest
<1>15. ASSUME NEW c \in Channels, ReceiveAck(c) PROVE Followed'
  <2> DEFINE x == [type |-> c, id |-> Head(rx).id]
  <2>1. /\ rx # << >> /\ rx' = Tail(rx) /\ Head(rx) = rx[1] /\ 1 \in 1 .. Len(rx)
        /\ IsAck(rx[1]) /\ rx[1].type = c /\ UNCHANGED ack
        /\ ackList' = PushIfRoom(ackList, x)
    BY <1>7, <1>15 DEF ReceiveAck
  <2>2. x \in Acks /\ x.type = rx[1].type /\ x.id = rx[1].id
    BY <2>1, AckElements DEF Acks, AckFrame
  <2> HIDE DEF x, IsAck
  <2>3. ackList' = Append(ackList, x) \/ ackList' = ackList
    BY <2>1 DEF PushIfRoom
  <2> QED
    BY <1>8, <1>10, <2>1, <2>2, <2>3
<1>16. ASSUME UNCHANGED <<ackList, rx>>, ack' = ack \/ ack' = NULL PROVE Followed'
  BY <1>5, <1>16
<1>17. CASE FreeAckAndReply \/ ConvertFails \/ WaitOnNull
  BY <1>16, <1>17 DEF FreeAckAndReply, ConvertFails, WaitOnNull
<1>18. ASSUME NEW c \in Channels,
              \/ SendCurrent(c) \/ SendNext(c) \/ NothingToSend(c) \/ AwaitAck(c)
              \/ NoAckAwaited(c) \/ Acked(c) \/ NoAckYet(c) \/ Resend(c) \/ TimerExpires(c)
              \/ \E bits : Submit(c, bits)
       PROVE  Followed'
  BY <1>16, <1>18 DEF SendCurrent, SendNext, NothingToSend, AwaitAck, NoAckAwaited, Acked, NoAckYet,
     Resend, TimerExpires, Submit
<1>19. CASE ReadDeviceQosResponse \/ QosQueryGivenUp \/ RestartUart \/ DeviceGetsReply
  BY <1>16, <1>19 DEF ReadDeviceQosResponse, QosQueryGivenUp, RestartUart, DeviceGetsReply
<1>20. CASE UNCHANGED vars
  BY <1>16, <1>20 DEF vars
<1> QED
  BY <1>6, <1>11, <1>12, <1>13, <1>14, <1>15, <1>17, <1>18, <1>19, <1>20
     DEF Next, SendThread, Environment, Channels

-----------------------------------------------------------------------------
(* The theorems. *)

IInv == Typed /\ Armed /\ Placed /\ Levelled /\ Ordered /\ InOrder

(* At the start nothing was pushed or sent.                                *)
LEMMA Initially == Init => IInv
<1> SUFFICES ASSUME Init PROVE IInv
  OBVIOUS
<1>1. << >> \in Seq(AnyPacket) /\ Len(<< >>) = 0 /\ DOMAIN << >> = {}
  BY EmptySeq
<1>2. Armed
  BY DEF Init, Armed, Arming
<1>3. Placed
  BY <1>1 DEF Init, Placed
<1>4. Levelled
  BY UartAssumption DEF Init, Levelled, NeverStuck
<1>5. Ordered
  BY <1>1 DEF Init, Ordered
<1>6. InOrder
  BY <1>1 DEF Init, InOrder
<1> QED
  BY TypedInit, <1>2, <1>3, <1>4, <1>5, <1>6 DEF IInv

(* Every step keeps the invariant.                                         *)
LEMMA Stays == IInv /\ [Next]_vars => IInv'
BY TypedNext, ArmedNext, PlacedNext, LevelledNext, OrderedNext, InOrderNext DEF IInv

(* The invariant holds in every reachable state.                           *)
LEMMA Invariance == Spec => []IInv
BY Initially, Stays, PTL DEF Spec

(* Whatever happens on the line and in the other threads, the lists keep   *)
(* within their capacity and every variable holds a value of its type.     *)
THEOREM TypeCorrect == Spec => []TypeOK
<1>1. IInv => TypeOK
  <2> SUFFICES ASSUME IInv PROVE TypeOK
    OBVIOUS
  <2>1. ASSUME NEW c \in Channels, NEW p \in AnyPacket, Of(c, made[c], p) PROVE p \in Packets(c)
    BY <2>1 DEF Packets, AnyPacket, Of
  <2>2. \A c \in Channels : /\ \A i \in 1 .. Len(list[c]) : list[c][i] \in Packets(c)
                            /\ cur[c] # NULL => cur[c] \in Packets(c)
                            /\ DOMAIN list[c] = 1 .. Len(list[c])
    BY <2>1, Elements, LenProperties DEF IInv, Placed
  <2> QED
    BY <2>2 DEF IInv, Typed, Placed, Levelled, TypeOK
<1> QED
  BY <1>1, Invariance, PTL

(* The device never gets an older packet of a channel after a newer one,   *)
(* whatever is lost, repeated or still on the line, and although data IDs  *)
(* come back (EJ_UartSendThread, ej_user_uart.c:45-260).                   *)
THEOREM PacketsInOrder == Spec => []InOrder
<1>1. IInv => InOrder
  BY DEF IInv
<1> QED
  BY <1>1, Invariance, PTL

(* No channel waits for an acknowledgement once QoS is out of force, where *)
(* neither branch of its WAIT state would run (ej_user_uart.c:104, 182).   *)
THEOREM ChannelsAreNeverStuck == Spec => []NeverStuck
<1>1. IInv => NeverStuck
  BY DEF IInv, Levelled
<1> QED
  BY <1>1, Invariance, PTL

(* A packet no longer held was received, or was sent without QoS, or found *)
(* no memory or room, although frames and acknowledgements are lost and    *)
(* late and the 256 data IDs come back: no acknowledgement is taken for    *)
(* another packet's (AckPacketCompare and the WAIT state,                  *)
(* ej_user_uart.c:104-160, 182-240).  That needs two packets of one ID to  *)
(* be distinguishable, and without it TLC finds a packet that is lost.     *)
THEOREM NoPacketLost == Spec /\ []Distinguishable => []NothingLost
<1> DEFINE J == IInv /\ Numbered /\ OnLine /\ Followed /\ NothingLost
<1>1. Init => J
  <2> SUFFICES ASSUME Init PROVE J
    OBVIOUS
  <2>1. << >> \in Seq(Nat) /\ Len(<< >>) = 0
    BY EmptySeq
  <2>2. Numbered
    <3>1. Carries(1, 0)
      BY UartAssumption DEF Carries
    <3> QED
      BY <2>1, <3>1 DEF Init, Numbered, Channels
  <2>3. OnLine
    BY <2>1 DEF Init, OnLine
  <2>4. Followed
    <3>1. Traced(0, << >>, << >>)
      BY <2>1 DEF Init, Traced, Answered, InTurn
    <3> QED
      BY <2>1, <3>1 DEF Followed
  <2>5. Names = {}
    BY DEF Init, Names, Channels
  <2> QED
    BY Initially, <2>2, <2>3, <2>4, <2>5 DEF NothingLost
<1>2. J /\ Distinguishable /\ [Next]_vars => J'
  <2> SUFFICES ASSUME J, Distinguishable, [Next]_vars PROVE J'
    OBVIOUS
  <2>1. PICK a \in Nat, v \in Seq(Nat), w \in Seq(Nat) : Traced(a, v, w)
    BY DEF Followed
  <2>2. IInv' /\ Numbered'
    BY Stays, NumberedNext DEF IInv
  <2>3. OnLine'
    BY <2>1, OnLineNext DEF IInv
  <2>4. Followed'
    BY FollowedNext DEF IInv
  <2>5. \A c \in Channels : Acked(c) => <<c, cur[c].n>> \in received
    BY <2>1, TakenIsCurrent DEF IInv
  <2>6. NothingLost'
    BY <2>5, NothingLostNext DEF IInv
  <2> QED
    BY <2>2, <2>3, <2>4, <2>6
<1>3. J => NothingLost
  OBVIOUS
<1> QED
  BY <1>1, <1>2, <1>3, PTL DEF Spec

(* While no source has made more packets than there are data IDs, they are *)
(* distinguishable, and nothing else is needed.                            *)
NoWrap == MaxWifi <= IdMod /\ MaxCloud <= IdMod
THEOREM FirstIdsLoseNothing == NoWrap /\ Spec => []NothingLost
<1> DEFINE Bounded == \A c \in Channels : made[c] <= IdMod
           K == IInv /\ Bounded
<1>1. NoWrap /\ Init => K
  BY Initially, UartAssumption DEF Init, Channels
<1>2. NoWrap /\ K /\ [Next]_vars => K'
  <2> SUFFICES ASSUME NoWrap, K, [Next]_vars PROVE K'
    OBVIOUS
  <2>1. IInv'
    BY Stays
  <2>2. ASSUME \A c \in Channels : made'[c] = made[c] PROVE Bounded'
    BY <2>2
  <2>3. ASSUME NEW c \in Channels, NEW bits, Submit(c, bits) PROVE Bounded'
    <3>1. /\ made' = [made EXCEPT ![c] = made[c] + 1]
          /\ made[c] + 1 <= IF c = "wifi" THEN MaxWifi ELSE MaxCloud
      BY <2>3 DEF Submit
    <3>2. made'[c] = made[c] + 1 /\ \A d \in Channels \ {c} : made'[d] = made[d]
      BY <3>1 DEF IInv, Typed
    <3>3. made[c] + 1 <= IdMod
      BY <3>1, UartAssumption DEF NoWrap, IInv, Typed
    <3> QED
      BY <3>2, <3>3
  <2>4. ASSUME NEW c \in Channels, NEW p \in AnyPacket, Sends(c, p) PROVE Bounded'
    BY <2>2, <2>4 DEF Sends
  <2>5. ASSUME NEW c \in Channels, Marks(c) \/ NoAckAwaited(c) \/ Acked(c) PROVE Bounded'
    BY <2>2, <2>5 DEF Marks, NoAckAwaited, Acked, lists
  <2>6. CASE ConvertFails \/ LineMoves \/ Replies \/ Calm
    <3>1. \A c \in Channels : made'[c] = made[c]
      BY <2>6 DEF ConvertFails, LineMoves, Replies, Calm, lists
    <3> QED
      BY <2>1, <2>2, <3>1
  <2> HIDE DEF Bounded
  <2> QED
    BY <2>1, <2>3, <2>4, <2>5, <2>6, StepShapes DEF IInv
<1>3. K => Distinguishable
  <2> SUFFICES ASSUME K, NEW c \in Channels, cur[c] # NULL PROVE ~ cur[c].n > IdMod
    BY DEF Distinguishable
  <2>1. cur[c].n <= made[c] /\ made[c] <= IdMod
    BY DEF IInv, Placed, Of
  <2> QED
    BY <2>1, UartAssumption, Elements DEF IInv, Typed, Placed, Of
<1>4. NoWrap => NoWrap'
  BY DEF NoWrap
<1> HIDE DEF K
<1> QED
  BY <1>1, <1>2, <1>3, <1>4, NoPacketLost, PTL DEF Spec
=============================================================================
