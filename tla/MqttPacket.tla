---------------------------- MODULE MqttPacket ----------------------------
(***************************************************************************)
(* The packets of MQTT 3.1.1 as src/ejcloud/mqtt writes and reads them:    *)
(* the half of the client, which the module uses, and the half of the      *)
(* server that comes with it, which stands for the broker here.  A packet  *)
(* is a sequence of bytes, a text a sequence of characters, and a text     *)
(* that need not be there a sequence of no or one text.                    *)
(***************************************************************************)
EXTENDS Integers, Sequences, FiniteSets, SequencesExt

CONNECT == 1      CONNACK == 2    PUBLISH == 3       PUBACK == 4      PUBREC == 5
PUBREL == 6       PUBCOMP == 7    SUBSCRIBE == 8     SUBACK == 9      UNSUBSCRIBE == 10
UNSUBACK == 11    PINGREQ == 12   PINGRESP == 13     DISCONNECT == 14

TooShort == << >>              \* no room: nothing is written
Refused == [type |-> 0]        \* what is read is no packet of the type asked for
Bit(b) == IF b THEN 1 ELSE 0
From(s, i) == SubSeq(s, i, Len(s))
Total(s) == FoldLeft(LAMBDA n, x : n + x, 0, s)

-----------------------------------------------------------------------------
(* The fixed header: type, dup, qos and retain in one byte, and what       *)
(* follows it: its length with seven bits in a byte, the low ones first.   *)
Header(type, dup, qos, retain) == type * 16 + Bit(dup) * 8 + qos * 2 + Bit(retain)
Type(b) == b[1] \div 16
Dup(b) == (b[1] \div 8) % 2 = 1
Qos(b) == (b[1] \div 2) % 4
Retain(b) == b[1] % 2 = 1

Digits(n) == 1 + Cardinality({k \in 1..3 : n >= 128 ^ k})
Encode(n) == [i \in 1..Digits(n) |-> ((n \div 128 ^ (i - 1)) % 128) + (IF i < Digits(n) THEN 128 ELSE 0)]

Value(digits) == Total([i \in 1..Len(digits) |-> (digits[i] % 128) * 128 ^ (i - 1)])

(* MQTTPacket_decode gives up after four bytes.                            *)
Last7(c) == c < 128
DecodeBuf(b) ==
  LET digits == IF Len(b) < 4 THEN b ELSE SubSeq(b, 1, 4)
      n == SelectInSeq(digits, Last7)
  IN [used |-> IF n = 0 THEN 5 ELSE n, value |-> Value(IF n = 0 THEN digits ELSE SubSeq(b, 1, n))]

(* An upper bound: it counts the header byte as part of what follows.      *)
PacketLen(rem) == LET n == rem + 1 IN
                  n + 1 + Cardinality({k \in {128, 16384, 2097151} : n >= k})

(* What comes after the header, as far as it is there.                     *)
Body(b) == LET d == DecodeBuf(Tail(b)) IN SubSeq(b, d.used + 2, d.used + 1 + d.value)

-----------------------------------------------------------------------------
Int2(n) == <<n \div 256, n % 256>>
ReadInt(b) == b[1] * 256 + b[2]
Str(s) == Int2(Len(s)) \o s
Strs(ss) == FlattenSeq([i \in DOMAIN ss |-> Str(ss[i])])
StrsLen(ss) == Total([i \in DOMAIN ss |-> 2 + Len(ss[i])])

(* readMQTTLenString, k times: not beyond the end of the data.             *)
ReadStr(p) ==
  IF p.ok /\ Len(p.rest) >= 2 /\ Len(p.rest) >= 2 + ReadInt(p.rest)
  THEN LET n == ReadInt(p.rest) IN
       [ok |-> TRUE, texts |-> Append(p.texts, SubSeq(p.rest, 3, n + 2)), rest |-> From(p.rest, n + 3)]
  ELSE [p EXCEPT !.ok = FALSE]
ReadStrs(b, k) == FoldLeft(LAMBDA p, i : ReadStr(p), [ok |-> TRUE, texts |-> << >>, rest |-> b],
                           [i \in 1..k |-> i])

Write(header, rem, body, room) ==
  IF PacketLen(rem) > room THEN TooShort ELSE <<header>> \o Encode(rem) \o body

-----------------------------------------------------------------------------
(* CONNECT: o has version, clean, keepAlive, clientID, and as sequences of *)
(* no or one: will ([topic, message, qos, retained]), username, password.  *)
Protocol(version) == IF version = 4 THEN <<77, 81, 84, 84>> ELSE <<77, 81, 73, 115, 100, 112>>
Texts(o) == <<o.clientID>> \o (IF o.will = << >> THEN << >> ELSE <<o.will[1].topic, o.will[1].message>>)
            \o o.username \o o.password
ConnectLength(o) == (IF o.version = 4 THEN 10 ELSE 12) + StrsLen(Texts(o))
ConnectFlags(o) ==
  Bit(o.clean) * 2
  + (IF o.will = << >> THEN 0 ELSE 4 + o.will[1].qos * 8 + Bit(o.will[1].retained) * 32)
  + Len(o.password) * 64 + Len(o.username) * 128
Connect(o, room) ==
  Write(Header(CONNECT, FALSE, 0, FALSE), ConnectLength(o),
        Str(Protocol(o.version)) \o <<o.version, ConnectFlags(o)>> \o Int2(o.keepAlive)
          \o Strs(Texts(o)), room)

(* A name of the protocol that begins like the right one passes.  A user   *)
(* name or a password of no characters is refused, and a password without  *)
(* a user name.                                                            *)
CheckVersion(name, version) == version \in {3, 4} /\ IsPrefix(name, Protocol(version))
ReadConnect(b) ==
  LET p == ReadStrs(Body(b), 1)
      version == p.rest[1]
      flags == p.rest[2]
      Flag(k) == (flags \div k) % 2
      t == ReadStrs(From(p.rest, 5), 1 + 2 * Flag(4) + Flag(128) + Flag(64))
      Given(i) == IF t.texts[i] = << >> THEN {} ELSE {i}
      user == 2 + 2 * Flag(4)
  IN IF \/ Type(b) # CONNECT \/ ~ p.ok \/ ~ CheckVersion(p.texts[1], version)
        \/ ~ t.ok \/ Flag(64) > Flag(128)
        \/ \E i \in user..(user - 1 + Flag(128) + Flag(64)) : t.texts[i] = << >>
     THEN Refused
     ELSE [type |-> CONNECT, version |-> version, clean |-> Flag(2) = 1, keepAlive |-> ReadInt(From(p.rest, 3)),
           clientID |-> t.texts[1],
           will |-> IF Flag(4) = 0 THEN << >>
                    ELSE <<[topic |-> t.texts[2], message |-> t.texts[3],
                            qos |-> (flags \div 8) % 4, retained |-> Flag(32) = 1]>>,
           username |-> SubSeq(t.texts, user, user - 1 + Flag(128)),
           password |-> SubSeq(t.texts, user + 1, user + Flag(64))]

(* The session-present bit is the highest of its byte on both sides, where *)
(* the standard has the lowest; the client does not use it.                *)
Connack(rc, present) == <<Header(CONNACK, FALSE, 0, FALSE)>> \o Encode(2) \o <<Bit(present) * 128, rc>>
ReadConnack(b) == IF Type(b) # CONNACK \/ DecodeBuf(Tail(b)).value < 2 THEN Refused
                  ELSE [type |-> CONNACK, present |-> Body(b)[1] >= 128, rc |-> Body(b)[2]]

Zero(type, room) == IF room < 2 THEN TooShort ELSE <<Header(type, FALSE, 0, FALSE)>> \o Encode(0)
Disconnect(room) == Zero(DISCONNECT, room)
Pingreq(room) == Zero(PINGREQ, room)

-----------------------------------------------------------------------------
(* PUBLISH: m has dup, qos, retain, id, topic and payload.                 *)
PublishLength(m) == StrsLen(<<m.topic>>) + Len(m.payload) + (IF m.qos > 0 THEN 2 ELSE 0)
Publish(m, room) ==
  Write(Header(PUBLISH, m.dup, m.qos, m.retain), PublishLength(m),
        Str(m.topic) \o (IF m.qos > 0 THEN Int2(m.id) ELSE << >>) \o m.payload, room)

(* Without QoS the packet identifier is whatever the caller had there.     *)
ReadPublish(b, was) ==
  LET t == ReadStrs(Body(b), 1) IN
  IF Type(b) # PUBLISH \/ ~ t.ok THEN Refused
  ELSE [type |-> PUBLISH, dup |-> Dup(b), qos |-> Qos(b), retain |-> Retain(b), topic |-> t.texts[1],
        id |-> IF Qos(b) > 0 THEN ReadInt(t.rest) ELSE was,
        payload |-> IF Qos(b) > 0 THEN From(t.rest, 3) ELSE t.rest]

Ack(type, dup, id, room) ==
  IF room < 4 THEN TooShort
  ELSE <<Header(type, dup, IF type = PUBREL THEN 1 ELSE 0, FALSE)>> \o Encode(2) \o Int2(id)
Puback(id, room) == Ack(PUBACK, FALSE, id, room)
Pubrel(dup, id, room) == Ack(PUBREL, dup, id, room)
Pubcomp(id, room) == Ack(PUBCOMP, FALSE, id, room)
ReadAck(b) == IF DecodeBuf(Tail(b)).value < 2 THEN Refused
              ELSE [type |-> Type(b), dup |-> Dup(b), id |-> ReadInt(Body(b))]

-----------------------------------------------------------------------------
(* SUBSCRIBE and UNSUBSCRIBE: r has dup, id, filters, and qos of each.     *)
SubscribeLength(r) == 2 + StrsLen(r.filters) + Len(r.filters)
Subscribe(r, room) ==
  Write(Header(SUBSCRIBE, r.dup, 1, FALSE), SubscribeLength(r),
        Int2(r.id) \o FlattenSeq([i \in DOMAIN r.filters |-> Append(Str(r.filters[i]), r.qos[i])]), room)

UnsubscribeLength(r) == 2 + StrsLen(r.filters)
Unsubscribe(r, room) ==
  Write(Header(UNSUBSCRIBE, r.dup, 1, FALSE), UnsubscribeLength(r), Int2(r.id) \o Strs(r.filters), room)

(* The server reads texts, each with its QoS, until the end.               *)
ReadSubscribe(b) ==
  LET Entry(p) == LET t == ReadStrs(p.rest, 1) IN
                  IF p.rest = << >> \/ ~ p.ok THEN p
                  ELSE IF ~ t.ok \/ t.rest = << >> THEN [p EXCEPT !.ok = FALSE]
                  ELSE [p EXCEPT !.filters = Append(@, t.texts[1]), !.qos = Append(@, t.rest[1]),
                                 !.rest = Tail(t.rest)]
      r == FoldLeft(LAMBDA p, c : Entry(p),
                    [ok |-> TRUE, filters |-> << >>, qos |-> << >>, rest |-> From(Body(b), 3)], Body(b))
  IN IF Type(b) # SUBSCRIBE \/ ~ r.ok THEN Refused
     ELSE [type |-> SUBSCRIBE, dup |-> Dup(b), id |-> ReadInt(Body(b)), filters |-> r.filters, qos |-> r.qos]

ReadUnsubscribe(b) ==
  LET r == FoldLeft(LAMBDA p, c : IF p.rest = << >> THEN p ELSE ReadStr(p),
                    [ok |-> TRUE, texts |-> << >>, rest |-> From(Body(b), 3)], Body(b))
  IN IF Type(b) # UNSUBSCRIBE \/ ~ r.ok THEN Refused
     ELSE [type |-> UNSUBSCRIBE, dup |-> Dup(b), id |-> ReadInt(Body(b)), filters |-> r.texts]

Suback(id, granted) ==
  <<Header(SUBACK, FALSE, 0, FALSE)>> \o Encode(2 + Len(granted)) \o Int2(id) \o granted
(* A list longer than max is refused one entry too late: max + 1 pass.     *)
ReadSuback(b, max) ==
  IF Type(b) # SUBACK \/ DecodeBuf(Tail(b)).value < 2 \/ Len(Body(b)) - 2 > max + 1 THEN Refused
  ELSE [type |-> SUBACK, id |-> ReadInt(Body(b)), granted |-> From(Body(b), 3)]

Unsuback(id) == <<Header(UNSUBACK, FALSE, 0, FALSE)>> \o Encode(2) \o Int2(id)
ReadUnsuback(b) == IF Type(b) # UNSUBACK THEN Refused ELSE ReadAck(b)

-----------------------------------------------------------------------------
(* isTopicMatched: f and n are where the filter and the topic are read.    *)
(* A plus takes the rest of a level, a number sign the rest of the topic;  *)
(* neither begins at a slash, so neither stands for an empty level.        *)
Slash == 47   Plus == 43   Hash == 35
LevelEnd(topic, n) ==
  LET next == SelectInSubSeq(topic, n + 1, Len(topic), LAMBDA c : c = Slash) IN
  IF next = 0 THEN Len(topic) ELSE next - 1
IsTopicMatched(filter, topic) ==
  LET Step(p) ==
        LET f == p[1]
            n == p[2]
            c == filter[f]
        IN IF \/ f > Len(filter) \/ n > Len(topic)
              \/ c # topic[n] /\ (topic[n] = Slash \/ c \notin {Plus, Hash})
           THEN p
           ELSE <<f + 1, IF c = Hash THEN Len(topic) + 1
                         ELSE IF c = Plus THEN LevelEnd(topic, n) + 1 ELSE n + 1>>
  IN FoldLeft(LAMBDA p, c : Step(p), <<1, 1>>, filter) = <<Len(filter) + 1, Len(topic) + 1>>

(* The handlers deliverMessage calls: each that fits, or the default one.  *)
Handlers(filters, topic) ==
  LET fits == {f \in filters : f = topic \/ IsTopicMatched(f, topic)} IN
  IF fits = {} THEN {"default"} ELSE fits
=============================================================================
