-------------------------------- MODULE Codecs --------------------------------
(***************************************************************************)
(* The readers and writers of the module at work: each behaviour is one    *)
(* job.  A job "mqtt" reads the packets of the broker off a stream whose   *)
(* bytes arrive as they like, "sends" writes a packet to a socket that     *)
(* takes as many bytes as it likes, "serial" reads the frames of the       *)
(* appliance off the serial line, "air" hears the frames of a phone in any *)
(* order, "map" stores and looks up IDs, and "sum" is a calculation that   *)
(* the state only chooses.  What follows a read that went out of step is   *)
(* not modelled: the reader is "lost".                                     *)
(***************************************************************************)
EXTENDS Integers, Sequences, FiniteSets

M == INSTANCE MqttPacket
A == INSTANCE Aes
P == INSTANCE Packets
J == INSTANCE JoyCfg
T == INSTANCE EjTime
X == INSTANCE TextCodes
R == INSTANCE Tables
Q == INSTANCE SequencesExt

VARIABLES
  job,       \* what is done
  pending,   \* what the other side sends and has not arrived
  line,      \* what has arrived and is not read, or what was written
  reader,    \* the state of the reader, of the decoder, or the map
  got,       \* what was read
  history    \* what happened to the job: the frames heard or split, a write that failed
vars == <<job, pending, line, reader, got, history>>

Room == 256          \* sendbuf and readbuf (ej_user_mqtt.c)
Area == 12           \* bound: of the 96 bytes of receiveData after the length, those frames here use
MapSize == 2         \* bound: of the entries of the map

-----------------------------------------------------------------------------
(* Packets as records, and the functions of mqtt/ that write and read the  *)
(* packets of a type: those the broker sends, and those the client sends.  *)
ToBytes(p) ==
  CASE p.type = M!CONNECT -> M!Connect(p, Room)
    [] p.type = M!CONNACK -> M!Connack(p.rc, p.present)
    [] p.type = M!PUBLISH -> M!Publish(p, Room)
    [] p.type = M!PUBACK -> M!Puback(p.id, Room)
    [] p.type = M!PUBREC -> M!Ack(M!PUBREC, FALSE, p.id, Room)
    [] p.type = M!PUBREL -> M!Pubrel(p.dup, p.id, Room)
    [] p.type = M!PUBCOMP -> M!Pubcomp(p.id, Room)
    [] p.type = M!SUBSCRIBE -> M!Subscribe(p, Room)
    [] p.type = M!SUBACK -> M!Suback(p.id, p.granted)
    [] p.type = M!UNSUBSCRIBE -> M!Unsubscribe(p, Room)
    [] p.type = M!UNSUBACK -> M!Unsuback(p.id)
    [] p.type = M!PINGREQ -> M!Pingreq(Room)
    [] p.type = M!DISCONNECT -> M!Disconnect(Room)
    [] OTHER -> M!Zero(p.type, Room)
FromBytes(b) ==
  LET type == M!Type(b) IN
  CASE type = M!CONNECT -> M!ReadConnect(b)
    [] type = M!CONNACK -> M!ReadConnack(b)
    [] type = M!PUBLISH -> M!ReadPublish(b, 0)
    [] type = M!SUBSCRIBE -> M!ReadSubscribe(b)
    [] type = M!SUBACK -> M!ReadSuback(b, 1)
    [] type = M!UNSUBSCRIBE -> M!ReadUnsubscribe(b)
    [] type = M!UNSUBACK -> M!ReadUnsuback(b)
    [] type \in M!PUBACK..M!PUBCOMP -> M!ReadAck(b)
    [] OTHER -> [type |-> type]

Message(qos, dup, id, n) ==
  [type |-> M!PUBLISH, dup |-> dup, qos |-> qos, retain |-> FALSE, id |-> id,
   topic |-> <<97, 47, 98>>, payload |-> [i \in 1..n |-> i % 256]]
Acknowledged(type, dup, id) == [type |-> type, dup |-> dup, id |-> id]

FromBroker ==
  {[type |-> M!CONNACK, present |-> FALSE, rc |-> 0], [type |-> M!CONNACK, present |-> TRUE, rc |-> 5],
   [type |-> M!SUBACK, id |-> 1, granted |-> <<128>>], [type |-> M!SUBACK, id |-> 258, granted |-> <<1, 0>>],
   [type |-> M!UNSUBACK, dup |-> FALSE, id |-> 65535], [type |-> M!PINGRESP],
   Message(0, FALSE, 0, 0), Message(1, TRUE, 300, 3), Message(2, FALSE, 65535, 130)}
  \cup {Acknowledged(t, FALSE, 260) : t \in {M!PUBACK, M!PUBREC, M!PUBCOMP}}
  \cup {Acknowledged(M!PUBREL, TRUE, 1)}

Opening(version, will, username, password) ==
  [type |-> M!CONNECT, version |-> version, clean |-> TRUE, keepAlive |-> 300, clientID |-> <<99, 49>>,
   will |-> will, username |-> username, password |-> password]
Will == <<[topic |-> <<119>>, message |-> <<1, 2, 3>>, qos |-> 2, retained |-> TRUE]>>
FromClient ==
  {Opening(v, w, u[1], u[2]) : v \in {3, 4}, w \in {<< >>, Will},
     u \in {<< << >>, << >> >>, << << <<117>> >>, << >> >>, << << <<117>> >>, << <<112, 113>> >> >>}}
  \cup {Message(0, FALSE, 0, 5), Message(1, FALSE, 1, 0), Message(2, TRUE, 513, 120),
        [type |-> M!SUBSCRIBE, dup |-> FALSE, id |-> 7, filters |-> << <<97>>, <<98, 47, 35>> >>, qos |-> <<1, 2>>],
        [type |-> M!UNSUBSCRIBE, dup |-> FALSE, id |-> 8, filters |-> << <<97>>, <<43>> >>],
        [type |-> M!PINGREQ], [type |-> M!DISCONNECT]}
  \cup {Acknowledged(t, FALSE, 1000) : t \in {M!PUBACK, M!PUBREC, M!PUBREL, M!PUBCOMP}}

-----------------------------------------------------------------------------
(* The frames of the appliance, and those of the phone: the prologue, then *)
(* the two lengths, the two texts and their sum, from the sixth slot on.   *)
AFrame(f) == P!PublishUart(P!EncodeUart(P!FillCommon(f.type, f.data, 0, f.id), 1), 0)
Garbled(bytes) == [bytes EXCEPT ![9] = (@ + 1) % 256]
FromAppliance == <<[type |-> 1, data |-> <<170, 7>>, id |-> 255], [type |-> 2, data |-> << >>, id |-> 0]>>
Wire(noise, garbled) ==
  LET Sent(i) == LET b == AFrame(FromAppliance[i]) IN IF i = garbled THEN Garbled(b) ELSE b IN
  noise \o Sent(1) \o noise \o Sent(2)

Slots(c) ==
  LET s == <<Len(c.ssid), Len(c.pwd)>> \o c.ssid \o c.pwd IN
  Append(s, (10 + M!Total(s)) % 256)
Addressed(kind, no, value) == [group |-> TRUE, kind |-> kind, no |-> no, value |-> value]
ToGroup(address) == [type |-> 8, addr1 |-> address, addr3 |-> [address EXCEPT !.group = FALSE]]
ToGroupQos(address) == [type |-> 136, addr1 |-> [address EXCEPT !.group = FALSE], addr3 |-> address]
Alone(address) == ToGroup([address EXCEPT !.group = FALSE])
PrologueFrames == {ToGroup(Addressed(J!SYNC, n, 0)) : n \in 1..5}
DataFrames(c) ==
  {ToGroupQos(Addressed(IF i = Len(Slots(c)) THEN J!LAST ELSE 119, i + 6, Slots(c)[i])) : i \in DOMAIN Slots(c)}
Heard(c) ==
  PrologueFrames \cup DataFrames(c) \cup {Alone(Addressed(119, 9, 1))}

Credentials ==
  {[ssid |-> <<65, 66>>, pwd |-> <<49, 50>>], [ssid |-> <<200>>, pwd |-> <<44>>]}

-----------------------------------------------------------------------------
Sums ==
  {<<"time", n>> : n \in 0..815} \cup {<<"length", n>> : n \in 1..9} \cup {<<"topic", n>> : n \in 1..4}
  \cup {<<"registry", n>> : n \in 1..25} \cup {<<"version", n>> : n \in 0..2} \cup {<<"pool", n>> : n \in 2..8}
  \cup {<<"text", n>> : n \in 0..9} \cup {<<"aes", n>> : n \in 0..17} \cup {<<"envelope", n>> : n \in {0, 1, 7, 40, 91}}
  \cup {<<"udp", n>> : n \in 1..4} \cup {<<"timer", n>> : n \in 0..10}

Header == [at |-> "header", bytes |-> << >>, used |-> 0]
HeadOfFrame == [at |-> "head", left |-> 1, length |-> << >>, content |-> [i \in 1..Area |-> 0], no |-> 0]

Reads(p1, p2) ==
  /\ job = [kind |-> "mqtt", packets |-> <<p1, p2>>] /\ pending = ToBytes(p1) \o ToBytes(p2)
  /\ reader = Header
Sends(p) ==
  /\ job = [kind |-> "sends", packets |-> <<p>>] /\ pending = << >>
  /\ reader = [at |-> "write", sent |-> 0]
ReadsSerial(noise, garbled) ==
  /\ job = [kind |-> "serial", garbled |-> garbled] /\ pending = Wire(noise, garbled)
  /\ reader = HeadOfFrame
Hears(c) ==
  /\ job = [kind |-> "air", sent |-> c] /\ pending = << >>
  /\ reader = J!JoycfgInit

Init ==
  /\ \/ \E p1, p2 \in FromBroker : Reads(p1, p2)
     \/ \E p \in FromClient : Sends(p)
     \/ \E noise \in {<< >>, <<0, 85>>}, garbled \in 0..2 : ReadsSerial(noise, garbled)
     \/ \E c \in Credentials : Hears(c)
     \/ job = [kind |-> "map"] /\ pending = << >> /\ reader = R!InitMap(MapSize)
     \/ \E s \in Sums : job = [kind |-> "sum", of |-> s[1], n |-> s[2]] /\ pending = << >> /\ reader = Header
  /\ line = << >> /\ got = << >> /\ history = {}

Arrive ==
  /\ pending # << >>
  /\ \E k \in {1, Len(pending)} :
       line' = line \o SubSeq(pending, 1, k) /\ pending' = M!From(pending, k + 1)
  /\ UNCHANGED <<job, reader, got, history>>

-----------------------------------------------------------------------------
(* readPacket: the header byte, the length digit by digit, and all that    *)
(* follows, each with a read that returns early only when select saw       *)
(* nothing.  decodePacket does not say that it gave up.                    *)
Take(k) == line' = M!From(line, k + 1) /\ UNCHANGED <<job, pending>>

ReadHeader ==
  /\ job.kind = "mqtt" /\ reader.at = "header" /\ line # << >>
  /\ reader' = [at |-> "length", bytes |-> <<line[1]>>, used |-> 0]
  /\ Take(1) /\ UNCHANGED <<got, history>>

ReadLength ==
  /\ job.kind = "mqtt" /\ reader.at = "length" /\ line # << >>
  /\ LET used == reader.used + 1 IN
     reader' = [at |-> IF line[1] >= 128 /\ used < 4 THEN "length" ELSE "body",
                bytes |-> Append(reader.bytes, line[1]), used |-> used]
  /\ Take(1) /\ UNCHANGED <<got, history>>

Remaining == M!Value(Tail(reader.bytes))
ReadBody ==
  /\ job.kind = "mqtt" /\ reader.at = "body" /\ Len(line) >= Remaining
  /\ got' = Append(got, FromBytes(reader.bytes \o SubSeq(line, 1, Remaining)))
  /\ reader' = Header
  /\ Take(Remaining) /\ UNCHANGED history

ReadTimesOut ==
  /\ job.kind = "mqtt" /\ line = << >> /\ pending # << >>
  /\ reader.at = "body" => Remaining > 0
  /\ reader' = IF reader.at = "header" THEN reader ELSE [reader EXCEPT !.at = "lost"]
  /\ UNCHANGED <<job, pending, line, got, history>>

(* sendPacket: every write offers as many bytes as the packet has, from    *)
(* the first one that is not sent; those after the packet are whatever the *)
(* buffer holds.                                                           *)
SendPacket ==
  /\ job.kind = "sends" /\ reader.at = "write"
  /\ LET packet == ToBytes(job.packets[1])
         length == Len(packet)
         buffer == packet \o [i \in 1..length |-> 255]
     IN \E k \in {1, length - reader.sent, length} :
          LET sent == reader.sent + k IN
          /\ line' = line \o SubSeq(buffer, reader.sent + 1, sent)
          /\ reader' = [at |-> IF sent < length THEN "write" ELSE IF sent = length THEN "success" ELSE "failure",
                        sent |-> sent]
  /\ UNCHANGED <<job, pending, got, history>>
SendFails ==
  /\ job.kind = "sends" /\ reader.at = "write"
  /\ reader' = [reader EXCEPT !.at = "failure"]
  /\ UNCHANGED <<job, pending, line, got, history>>

-----------------------------------------------------------------------------
(* EJ_UartReceiveThread: the head, four bytes with the length, the rest.   *)
(* EJ_port_uart_dma_receive waits until all bytes of a read have come, but *)
(* puts each part of them where the first one was.                         *)
Part(n) == IF n < Len(line) THEN n ELSE Len(line)
Over(area, part) == part \o M!From(area, Len(part) + 1)

ReadHead ==
  /\ job.kind = "serial" /\ reader.at = "head" /\ line # << >>
  /\ reader' = IF line[1] = 170 THEN [reader EXCEPT !.at = "length", !.left = 4, !.no = @ + 1] ELSE reader
  /\ Take(1) /\ UNCHANGED <<got, history>>

ReadFrameLength ==
  /\ job.kind = "serial" /\ reader.at = "length" /\ line # << >>
  /\ reader' = IF Part(4) < 4 THEN [reader EXCEPT !.at = "lost"]
               ELSE [reader EXCEPT !.at = "content", !.length = SubSeq(line, 1, 4),
                                   !.left = (5 + P!Number(SubSeq(line, 3, 4)) - 9) % 256]
  /\ Take(Part(4)) /\ UNCHANGED <<got, history>>

ReadContent ==
  /\ job.kind = "serial" /\ reader.at = "content" /\ line # << >>
  /\ LET k == Part(reader.left)
         content == Over(reader.content, SubSeq(line, 1, k))
         bytes == reader.length \o SubSeq(content, 1, P!Number(SubSeq(reader.length, 3, 4)) - 4)
         whole == k = reader.left
         right == P!MakeCrc(Q!Front(bytes)) = Q!Last(bytes)
     IN /\ Take(k)
        /\ reader' = [reader EXCEPT !.content = content, !.left = IF whole THEN 1 ELSE @ - k,
                                    !.at = IF whole THEN "head" ELSE @]
        /\ got' = IF whole /\ right THEN Append(got, [no |-> reader.no, packet |-> P!ReadUart(bytes)]) ELSE got
        /\ history' = IF whole THEN history ELSE history \cup {reader.no}

-----------------------------------------------------------------------------
(* A frame of the phone, or one that is not for a group, reaches the       *)
(* decoder; each may be heard again or never.                              *)
Hear ==
  /\ job.kind = "air"
  /\ \E f \in Heard(job.sent) :
       /\ reader' = J!JyRecv(reader, f)
       /\ history' = IF reader.state = "locked" THEN history \cup ({f} \cap DataFrames(job.sent)) ELSE history
  /\ UNCHANGED <<job, pending, line, got>>

(* The map of ej_cmd_map.c; history is what is stored and was not given.   *)
Stored(uart, type) == {e \in history : e.uart = uart /\ e.type = type}
StoreID ==
  /\ job.kind = "map"
  /\ \E uart \in {1, 255}, ether \in {10, 20}, type \in {"mqtt", "lan"} :
       /\ reader' = R!SetEtherID(reader, uart, ether, type)
       /\ history' = IF \E i \in DOMAIN reader : ~ reader[i].used
                     THEN history \cup {[uart |-> uart, ether |-> ether, type |-> type]} ELSE history
       /\ \A e \in Stored(uart, type) : e.ether # ether
  /\ got' = << >>
  /\ UNCHANGED <<job, pending, line>>
LookUpID ==
  /\ job.kind = "map"
  /\ \E uart \in {1, 255}, type \in {"mqtt", "lan"} :
       LET answer == R!GetEtherID(reader, uart, type) IN
       /\ reader' = answer.map
       /\ got' = <<[id |-> answer.id, wanted |-> {e.ether : e \in Stored(uart, type)}]>>
       /\ history' = IF type = "mqtt" THEN {e \in history : e \notin Stored(uart, type) \/ e.ether # answer.id}
                     ELSE history
  /\ UNCHANGED <<job, pending, line>>

Next ==
  \/ Arrive \/ ReadHeader \/ ReadLength \/ ReadBody \/ ReadTimesOut
  \/ SendPacket \/ SendFails
  \/ ReadHead \/ ReadFrameLength \/ ReadContent
  \/ Hear \/ StoreID \/ LookUpID
Spec == Init /\ [][Next]_vars

-----------------------------------------------------------------------------
(* What calculations should give, each against a definition of its own.    *)
At(y, m, d) == [year |-> y - 1900, mon |-> m, mday |-> d, hour |-> 23, min |-> 59, sec |-> d]
DaysFromCivil(y, m, d) ==    \* of the proleptic calendar, from the first of 1970
  LET yr == IF m < 2 THEN y - 1 ELSE y
      doy == (153 * ((m + 10) % 12) + 2) \div 5 + d - 1
  IN 365 * yr + yr \div 4 - yr \div 100 + yr \div 400 + doy - 719468
LastDay(y, m) == DaysFromCivil(IF m = 11 THEN y + 1 ELSE y, (m + 1) % 12, 1) - DaysFromCivil(y, m, 1)
TimesRight(n) ==
  LET y == 1970 + n \div 12
      m == n % 12
      last == LastDay(y, m)
      clock == [sec |-> 0, min |-> 0, hour |-> 0, day |-> 1, mon |-> 1, week |-> 0, year |-> 70]
      Names(d, form, year) == [form |-> form, legal |-> TRUE, day |-> d, month |-> T!MonthNames[m + 1],
                               year |-> year, hour |-> 23, min |-> 59, sec |-> d]
  IN /\ \A d \in {1, 28, last} :
          LET tm == At(y, m, d)
              days == DaysFromCivil(y, m, d)
              week == (4 + days) % 7
              full == [year |-> tm.year, mon |-> m, mday |-> d, hour |-> 23, min |-> 59, sec |-> d, wday |-> week]
          IN /\ T!Mktime(tm) = days * 86400 + 86340 + d
             /\ T!Gmtime(T!Mktime(tm)) = full
             /\ T!Validate(tm)
             /\ T!EJ_time_get(T!EJ_time_set(clock, full)) = full
             /\ T!EJ_Wlan_get_time(T!EJ_Wlan_set_time(clock, <<d, 59, 23, week, d, m, tm.year>>))
                  = <<d, 59, 23, week, d, m, tm.year>>
             /\ T!HttpDateToTime(Names(d, "rfc1123", y)) = T!Mktime(tm)
             /\ y <= 2019 => T!HttpDateToTime(Names(d, "rfc1036", y % 100)) = T!Mktime(tm) \/ y < 1970
     /\ \A d \in {0, last + 1} : T!EJ_time_set(clock, At(y, m, d)) = clock

Edges == <<0, 127, 128, 16383, 16384, 2097151, 2097152, 268435454, 268435455>>
LengthRight(n) ==
  LET digits == M!Encode(n) IN
  /\ M!Value(digits) = n
  /\ M!DecodeBuf(digits \o <<255>>) = [used |-> Len(digits), value |-> n]
  /\ \A i \in DOMAIN digits : (digits[i] >= 128) = (i < Len(digits))
  /\ n < 268435455 => M!PacketLen(n) >= 1 + Len(digits) + n

(* A filter with a level for each of the topic, or with a number sign last *)
(* and a level for each before it, and then at least one more.             *)
Levels == {<<97>>, <<98>>, <<97, 98>>}
Joined(levels) == Q!FlattenSeq([i \in DOMAIN levels |-> IF i = 1 THEN levels[i] ELSE <<M!Slash>> \o levels[i]])
Fits(levels, topic) ==
  LET hash == Q!Last(levels) = <<M!Hash>>
      k == IF hash THEN Len(levels) - 1 ELSE Len(levels)
  IN /\ IF hash THEN Len(topic) > k ELSE Len(topic) = k
     /\ \A i \in 1..k : levels[i] = <<M!Plus>> \/ levels[i] = topic[i]
TopicsRight(n) ==
  LET Plain == [1..n - 1 -> Levels \cup {<<M!Plus>>}]
      Filters == {Append(f, last) : f \in Plain, last \in Levels \cup { <<M!Plus>>, <<M!Hash>> }}
      Topics == UNION {[1..k -> Levels] : k \in 1..3}
  IN \A f \in Filters, t \in Topics :
       LET called == M!Handlers({Joined(f), Joined(t)}, Joined(t)) IN
       /\ M!IsTopicMatched(Joined(f), Joined(t)) = Fits(f, t)
       /\ called = {Joined(t)} \cup IF Fits(f, t) THEN {Joined(f)} ELSE {}

(* The registries of 20 entries keep the first 19 commands, the map of the *)
(* local network the first 20, each until its socket is asked for.         *)
RegistryRight(n) ==
  LET uart == Q!FoldLeft(LAMBDA t, id : R!RegisterUart(t, id, id), R!InitCommands(20), [i \in 1..n |-> i])
      mqtt == Q!FoldLeft(LAMBDA t, id : R!RegisterMqtt(t, id, id), R!InitCommands(20), [i \in 1..n |-> i])
      Commanded(t, id) == R!SetLanUartID(R!SetLanSocket(t, id, id + 100), id, 30 - id)
      lan == Q!FoldLeft(Commanded, R!InitMap(20), [i \in 1..n |-> i])
  IN \A id \in 1..n :
       /\ R!CallbackByUartID(uart, id) = IF id < 20 THEN id ELSE "NULL"
       /\ R!CallbackByMqttID(mqtt, id) = IF id < 20 THEN id ELSE "NULL"
       /\ R!GetLanID(lan, 30 - id) = IF id <= 20 THEN id ELSE -1
       /\ LET asked == R!GetLanSocket(lan, id) IN
          /\ asked.id = IF id <= 20 THEN id + 100 ELSE -1
          /\ R!GetLanID(asked.map, 30 - id) = -1

(* An upgrade is newer in the first field that differs.                    *)
VersionRight(n) ==
  LET V == [hardware : {1, 2}, msb : {n}, lsb : 0..1, year : {0, 255}, week : {1, 255}]
      Field(v) == <<v.msb, v.lsb, v.year, v.week>>
      U == [hardware : {1, 2}, msb : 0..2, lsb : 0..1, year : {0, 255}, week : {1, 255}]
  IN \A v \in V, u \in U :
       X!CompareWifiModuleVersion(v, u) =
         (v.hardware = u.hardware /\
          \E i \in 1..4 : Field(v)[i] < Field(u)[i] /\ \A j \in 1..i - 1 : Field(v)[j] = Field(u)[j])

(* The pool of a network of n host bits leaves out the network, the module *)
(* and the broadcast address, and is not empty.                            *)
PoolRight(n) ==
  LET mask == 65536 - 2 ^ n
      net == 49152
  IN \A host \in 1..(2 ^ n - 2) :
       LET pool == X!DhcpPool(net + host, mask) IN
       /\ pool[1] <= pool[2] /\ pool[1] > net /\ pool[2] < net + 2 ^ n - 1
       /\ net + host \notin pool[1]..pool[2]

Bytes(n) == [i \in 1..n |-> (i * 67) % 256]
TextRight(n) ==
  LET b == Bytes(n)
      decoded == X!Base64Decode(X!Base64Encode(b))
      dots == Q!FlattenSeq([i \in 1..n |-> <<49, 46>>])
      digits == X!EjItoa(n * 1111, 10)
  IN /\ X!ChangeStrHex(X!ChangeHex2Str(b)) = b /\ X!ChangeStr2Hex(X!StoredDid(b)) = b
     /\ SubSeq(decoded, 1, n) = b /\ \A i \in n + 1..Len(decoded) : decoded[i] = 0
     /\ n * 1111 = M!Total([i \in DOMAIN digits |-> (digits[i] - 48) * 10 ^ (Len(digits) - i)])
     /\ X!StrSpliNum(dots, 46) = n /\ X!Split(dots, 46) = [i \in 1..n |-> <<49>>]

(* The example of the standard, and back from every length.                *)
Count16 == [i \in 1..16 |-> i - 1]
AesRight(n) ==
  /\ n = 0 => A!Ecb(A!SetkeyEnc(Count16), FALSE, [i \in 1..16 |-> (i - 1) * 17])
              = <<105, 196, 224, 216, 106, 123, 4, 48, 216, 205, 183, 128, 112, 180, 197, 90>>
  /\ A!AesDecrypt(A!AesEncrypt(Bytes(n))).text = Bytes(n)

(* What the appliance says reaches the cloud, and what the cloud says the  *)
(* appliance, with a data of n bytes.                                      *)
EnvelopeRight(n) ==
  LET p == P!FillCommon(1, Bytes(n), 0, 9)
      up == [P!ToCloud(p, <<1, 2, 3, 4, 5, 6, 116>>, <<1, 2, 3, 4, 5, 6>>) EXCEPT !.dataID = P!FillDataID(n - 1)]
  IN \A bytes \in {P!Seal(up, A!AesEncrypt(P!Inner(up)))} : \A opened \in {A!AesDecrypt(P!CipherOf(bytes))} :
     \A down \in {P!Open(bytes, opened.text)} :
     \A read \in {P!ReadUart(Tail(P!PublishUart(P!EncodeUart(P!ToUart(down), 1), 1)))} :
     /\ opened.length > 0 /\ down = up
     /\ P!ToUart(up) = p
     /\ read.data = p.data /\ read.dataType = p.dataType /\ P!AckPacketCompare(p, read)
     /\ P!AckPacketCompare(P!MakeResponse(read), p)
     /\ P!NextDataID(255) = 0

(* Only a phone that gives a UUID to a module without one changes what is  *)
(* stored, and a phone is answered with its own number.                    *)
UdpRight(n) ==
  LET kind == <<"T_call", "T_gatewayInfo", "T_getdid", "other">>[n]
      parts == <<"hello", "1", kind, "id", "17", "x", "y", "uuid">>
  IN \A own \in {"NULL", "own"} :
       LET a == X!UdpAnswer(parts, own, "old", "did") IN
       /\ a.stored = IF own = "NULL" /\ kind = "T_getdid" THEN "uuid" ELSE "old"
       /\ IF n \in {1, 3} THEN a.answer[3] = kind /\ a.answer[5] = "17" ELSE a.answer = << >>

(* A timer of the client ends when its time has passed, and not before; one*)
(* that would end after the clock's lap of 37 hours, or that nobody looks  *)
(* at before it, ends a lap later.                                         *)
TimerRight(n) ==
  \A start \in {0, 77, T!Lap - 5, T!Lap - 1}, timeout \in {0, 1, 5, 8} :
    LET end == T!CountdownMs(start, timeout)
        now == T!Now(start + n)
        over == IF end < T!Lap THEN n >= timeout /\ start + n < T!Lap ELSE FALSE
    IN start + n < T!Lap \/ end > n =>
         /\ T!Expired(end, now) <=> over
         /\ T!LeftMs(end, now) = IF over THEN 0 ELSE end - now

-----------------------------------------------------------------------------
(* What is read is what was sent, whatever the parts are it comes in.      *)
(* readPacket: the packets in order and all of them, while no read that    *)
(* began timed out.  sendPacket: what it calls a success is exactly the    *)
(* packet, and reads as the server reads it.  EJ_UartReceiveThread: every  *)
(* frame but a garbled one, with the data the appliance meant, unless a    *)
(* part of it had to be waited for.  ej_cmd_map.c: an ID that was stored   *)
(* and not taken, if there is one.                                         *)
ReadsBack ==
  /\ job.kind = "mqtt" =>
       /\ Q!IsPrefix(got, job.packets)
       /\ pending = << >> /\ line = << >> /\ reader.at = "header" => got = job.packets
  /\ job.kind = "sends" /\ reader.at = "success" =>
       line = ToBytes(job.packets[1]) /\ FromBytes(line) = job.packets[1]
  /\ job.kind = "serial" =>
       LET Whole(i) == i # job.garbled /\ i \notin history
           read == SelectSeq(got, LAMBDA g : g.no \notin history)
           done == SelectSeq([i \in 1..reader.no |-> i], LAMBDA i : Whole(i) /\ (i < reader.no \/ reader.at = "head"))
       IN reader.at # "lost" =>
            /\ [i \in DOMAIN read |-> read[i].no] = done
            /\ \A i \in DOMAIN read :
                 LET f == FromAppliance[read[i].no] IN
                 /\ read[i].packet.dataType = f.type /\ read[i].packet.dataID = f.id
                 /\ read[i].packet.data = f.data
  /\ job.kind = "map" /\ got # << >> =>
       IF got[1].wanted = {} THEN got[1].id = -1 ELSE got[1].id \in got[1].wanted

(* The decoder of the phone's frames has the network name and the password *)
(* exactly when it has heard each of their frames once since it locked the *)
(* channel, in any order (joycfg.c payLoadCheckNoEncode); and then they    *)
(* are those the phone sent (jy_get_info).  A text whose sum is 0 is never *)
(* complete.                                                               *)
CredentialsHeard ==
  job.kind = "air" =>
    /\ reader.state = "complete" <=>
         history = DataFrames(job.sent) /\ Q!Last(Slots(job.sent)) # 0
    /\ reader.state = "complete" => J!JyGetInfo(reader) = job.sent

(* The calculations of the module are right wherever the module uses them: *)
(* dates (ej_user_time.c), lengths and topics (mqtt/), the registries of   *)
(* commands (ej_packet.c), versions (ej_cmd_mqtt.c), the addresses of the  *)
(* access point (wifi_nvdm_config.c), texts (ej_utils.c), the cipher       *)
(* (ej_aes.c), and what the layers of packets carry (ej_packet.c).         *)
Calculated ==
  job.kind = "sum" =>
    CASE job.of = "time" -> TimesRight(job.n)
      [] job.of = "length" -> LengthRight(Edges[job.n])
      [] job.of = "topic" -> TopicsRight(job.n)
      [] job.of = "registry" -> RegistryRight(job.n)
      [] job.of = "version" -> VersionRight(job.n)
      [] job.of = "pool" -> PoolRight(job.n)
      [] job.of = "text" -> TextRight(job.n)
      [] job.of = "aes" -> AesRight(job.n)
      [] job.of = "envelope" -> EnvelopeRight(job.n)
      [] job.of = "udp" -> UdpRight(job.n)
      [] job.of = "timer" -> TimerRight(job.n)
=============================================================================
