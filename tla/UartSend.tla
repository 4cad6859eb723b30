------------------------------ MODULE UartSend ------------------------------
(***************************************************************************)
(* The sending side of the serial link to the appliance board              *)
(* (src/ejcloud/ej_user_uart.c): EJ_UartSendThread drives one stop-and-    *)
(* wait channel for the packets of the module itself (wifi2deviceList) and *)
(* one for the packets of the cloud (cloud2deviceList), shares one list of *)
(* acknowledgements between them, and sends the module's own               *)
(* acknowledgements.  Beside it run the receive thread, the timer service, *)
(* mainLoop (which fills wifi2deviceList and sets the QoS level), the MQTT *)
(* thread (which fills cloud2deviceList), and the device at the other end  *)
(* of a line that loses frames but does not reorder them.  The third       *)
(* channel of the code, lan2device, has no producer and never sends.       *)
(***************************************************************************)
EXTENDS Naturals, Sequences, SequencesExt

CONSTANTS NULL,
          MaxWifi, MaxCloud, MaxRequests,  \* bounds: packets of each source
          IdMod,        \* data IDs are taken modulo this (256 in the code)
          ListCap,      \* packets a list holds (9 in the code)
          LineCap,      \* bound: frames on the line in one direction
          DeviceLevels, \* the QoS levels a device may report
          KnownQos,     \* TRUE: the level was read before the first packet
          HeapFails,    \* TRUE: malloc may fail
          TimerFails,   \* TRUE: starting a timer may fail
          NullFaults,   \* TRUE: an access through NULL may stop the module
          Timely        \* TRUE: a round trip is shorter than a timer

ASSUME UartAssumption ==
  /\ MaxWifi \in Nat /\ MaxCloud \in Nat /\ MaxRequests \in Nat
  /\ IdMod \in Nat \ {0} /\ ListCap \in Nat \ {0} /\ LineCap \in Nat \ {0}
  /\ DeviceLevels \subseteq 0 .. 2 /\ DeviceLevels # {}
  /\ {KnownQos, HeapFails, TimerFails, NullFaults, Timely} \subseteq BOOLEAN

Channels == {"wifi", "cloud"}

ASSUME NullAssumption ==
  NULL \notin [type : Channels, n : Nat, id : Nat, crypt : SUBSET Nat]   \* it is no packet

VARIABLES list,     \* wifi2deviceList and cloud2deviceList
          dataID,   \* the next data ID of each source (GobaldataID, the cloud's)
          made,     \* how many packets each source has made (requests: the device)
          pc,       \* the next stage of the send thread's loop
          st,       \* each channel's RxTxStateMachine: "SEND" or "WAIT"
          cur,      \* pWifi2UartPacket and pUart2WifiPacket
          timer,    \* each channel's timer is running
          ack,      \* pdevice2wifiAckPacket, of this turn of the loop
          ackList, replyList,  \* device2wifiAckList, wifi2deviceAckList
          qos, qosKnown,       \* GetDeviceInfoQos, and whether a 0x05 set it
          deviceQos,           \* the level this device reports
          tx, rx,   \* the frames on their way to, and from, the device
          sent, received, unacked, dropped  \* history, see below

(* History: the packets put on the line, those the device has got, those   *)
(* given up without waiting for an acknowledgement (QoS not in force), and *)
(* those thrown away for want of memory or room in a list.                 *)
history == <<sent, received, unacked, dropped>>
lists == <<list, dataID, made>>
channels == <<st, cur, timer>>
level == <<qos, qosKnown, deviceQos>>
vars == <<lists, pc, channels, ack, ackList, replyList, level, tx, rx, history>>

(* The bits of a packet's crypt byte, as the set of positions that are 1:  *)
(* a bit shifted beyond the byte is lost.                                  *)
QosBit == 2
SetBitWide(crypt, n) == crypt \cup {n}     \* a mistake: nothing is lost
SetBit(crypt, n) == (crypt \cup {n}) \cap 0 .. 7

Packet(c, n, id, bits) == [type |-> c, n |-> n, id |-> id, crypt |-> bits]
Name(p) == <<p.type, p.n>>

(* A mistake: the data ID is not compared.                                 *)
AckTypeCompare(p, a) == p # NULL /\ a # NULL /\ p.type = a.type

(* AckPacketCompare; a data type belongs to one channel.                   *)
AckPacketCompare(p, a) == /\ p # NULL /\ a # NULL
                          /\ p.type = a.type /\ p.id = a.id

(* The test that decides whether a packet is to be acknowledged.           *)
QosInForce(p) == (QosBit \in p.crypt /\ qos # 0) \/ qos = 1

Init == /\ list = [c \in Channels |-> << >>]
        /\ dataID = [c \in Channels |-> 0]
        /\ made = [c \in Channels \cup {"device"} |-> 0]
        /\ pc = "ack"
        /\ st = [c \in Channels |-> "SEND"]
        /\ cur = [c \in Channels |-> NULL]
        /\ timer = [c \in Channels |-> FALSE]
        /\ ack = NULL /\ ackList = << >> /\ replyList = << >>
        /\ deviceQos \in DeviceLevels
        /\ qos = (IF KnownQos THEN deviceQos ELSE 0)
        /\ qosKnown = KnownQos
        /\ tx = << >> /\ rx = << >>
        /\ sent = {} /\ received = {} /\ unacked = {} /\ dropped = {}

-----------------------------------------------------------------------------
(* The producers of the two lists. *)

(* mainLoop makes a packet and pushes it; nobody looks at a failed push,   *)
(* the packet is lost.  The MQTT thread frees a packet it cannot push.     *)
Submit(c, bits) ==
  LET n == made[c] + 1
      p == Packet(c, n, dataID[c], bits)
      room == Len(list[c]) < ListCap
  IN /\ n <= (IF c = "wifi" THEN MaxWifi ELSE MaxCloud)
     /\ made' = [made EXCEPT ![c] = n]
     /\ dataID' = [dataID EXCEPT ![c] = (@ + 1) % IdMod]
     /\ list' = IF room THEN [list EXCEPT ![c] = Append(@, p)] ELSE list
     /\ dropped' = IF room THEN dropped ELSE dropped \cup {Name(p)}
     /\ UNCHANGED <<pc, channels, ack, ackList, replyList, level, tx, rx,
                    sent, received, unacked>>

(* Process_ReadDeviceQosResponseCB, run by mainLoop: the level is stored   *)
(* and a positive one changes the period of the timers, which also starts  *)
(* a timer that was dormant.                                               *)
ReadDeviceQosResponse ==
  /\ ~ KnownQos
  /\ qos' = deviceQos
  /\ qosKnown' = TRUE
  /\ \/ UNCHANGED timer                    \* level 0, or no ackTimeout given
     \/ deviceQos > 0 /\ timer' = [c \in Channels |-> TRUE]
  /\ UNCHANGED <<lists, pc, st, cur, ack, ackList, replyList, deviceQos, tx, rx,
                 history>>

(* A mistake: the default level replaces one the device has given. *)
QosQueryGivenUpAnyway ==
  /\ ~ KnownQos
  /\ qos' = 0
  /\ timer' = [c \in Channels |-> FALSE]
  /\ UNCHANGED <<lists, pc, st, cur, ack, ackList, replyList, qosKnown, deviceQos, tx, rx,
                 history>>

(* mainLoop got no answer to ten readDeviceQos: it takes level 0 and calls *)
(* EJ_UartThreadStart (see RestartUart).                                   *)
QosQueryGivenUp ==
  /\ ~ qosKnown
  /\ qos' = 0
  /\ timer' = [c \in Channels |-> FALSE]
  /\ UNCHANGED <<lists, pc, st, cur, ack, ackList, replyList, qosKnown, deviceQos, tx, rx,
                 history>>

(* EJ_UartThreadStart, which mainLoop calls again whenever three reads of  *)
(* the UUID went unanswered: new, dormant timers replace the old ones, and *)
(* the port, being open, cannot be opened again.                           *)
RestartUart ==
  /\ ~ KnownQos
  /\ timer # [c \in Channels |-> FALSE]
  /\ timer' = [c \in Channels |-> FALSE]
  /\ UNCHANGED <<lists, pc, st, cur, ack, ackList, replyList, level, tx, rx,
                 history>>

-----------------------------------------------------------------------------
(* The send thread, one stage of its loop after the other. *)

PopAck == /\ pc = "ack"
          /\ pc' = "wifi"
          /\ ack' = IF ackList = << >> THEN NULL ELSE Head(ackList)
          /\ ackList' = IF ackList = << >> THEN ackList ELSE Tail(ackList)
          /\ UNCHANGED <<lists, channels, replyList, level, tx, rx, history>>

After(c) == IF c = "wifi" THEN "cloud" ELSE "free"
Arming(c) == IF c = "wifi" THEN "wifiArm" ELSE "cloudArm"

(* EJ_PublishUart2WifiPacket. *)
Published(p) == IF qos = 1 THEN [p EXCEPT !.crypt = SetBit(@, QosBit)] ELSE p
Frame(p) == [kind |-> "packet", packet |-> Published(p), again |-> Name(p) \in sent]

Publish(c, p) == /\ Len(tx) < LineCap
                 /\ tx' = Append(tx, Frame(p))
                 /\ sent' = sent \cup {Name(p)}
                 /\ cur' = [cur EXCEPT ![c] = Published(p)]
                 /\ pc' = Arming(c)

(* SEND: the current packet, or else the next of the list, is published.   *)
SendCurrent(c) ==
  /\ pc = c /\ st[c] = "SEND" /\ cur[c] # NULL
  /\ Publish(c, cur[c])
  /\ UNCHANGED <<lists, st, timer, ack, ackList, replyList, level, rx,
                 received, unacked, dropped>>

SendNext(c) ==
  /\ pc = c /\ st[c] = "SEND" /\ cur[c] = NULL /\ list[c] # << >>
  /\ list' = [list EXCEPT ![c] = Tail(@)]
  /\ Publish(c, Head(list[c]))
  /\ UNCHANGED <<dataID, made, st, timer, ack, ackList, replyList, level, rx,
                 received, unacked, dropped>>

(* The copy of a cloud packet cannot be allocated, or not its data.        *)
ConvertFails ==
  /\ HeapFails
  /\ pc = "cloud" /\ st["cloud"] = "SEND" /\ cur["cloud"] = NULL
  /\ list["cloud"] # << >>
  /\ dropped' = dropped \cup {Name(Head(list["cloud"]))}
  /\ list' = [list EXCEPT !["cloud"] = Tail(@)]
  /\ pc' = After("cloud")
  /\ UNCHANGED <<dataID, made, channels, ack, ackList, replyList, level, tx, rx,
                 sent, received, unacked>>

NothingToSend(c) ==
  /\ pc = c /\ st[c] = "SEND" /\ cur[c] = NULL /\ list[c] = << >>
  /\ pc' = After(c)
  /\ UNCHANGED <<lists, channels, ack, ackList, replyList, level, tx, rx, history>>

(* The level is read again after the frame has gone: the packet is either  *)
(* kept, with its timer started, or freed.                                 *)
AwaitAck(c) ==
  /\ pc = Arming(c) /\ QosInForce(cur[c])
  /\ \E started \in {TRUE} \cup {~ TimerFails} :
       timer' = [timer EXCEPT ![c] = started \/ @]
  /\ cur' = IF c = "cloud" THEN [cur EXCEPT ![c].crypt = SetBit(@, QosBit)] ELSE cur
  /\ st' = [st EXCEPT ![c] = "WAIT"]
  /\ pc' = After(c)
  /\ UNCHANGED <<lists, ack, ackList, replyList, level, tx, rx, history>>

NoAckAwaited(c) ==
  /\ pc = Arming(c) /\ ~ QosInForce(cur[c])
  /\ unacked' = unacked \cup {Name(cur[c])}
  /\ cur' = [cur EXCEPT ![c] = NULL]
  /\ pc' = After(c)
  /\ UNCHANGED <<lists, st, timer, ack, ackList, replyList, level, tx, rx,
                 sent, received, dropped>>

(* WAIT with QoS in force: the wifi channel sets the QoS bit first.        *)
Waiting(c) == /\ pc = c /\ st[c] = "WAIT" /\ cur[c] # NULL
              /\ QosInForce(cur[c])
              /\ pc' = After(c)
Kept(c) == IF c = "wifi" THEN SetBit(cur[c].crypt, QosBit) ELSE cur[c].crypt

(* The channel whose state an acknowledgement sets back to SEND: line 190, *)
(* of the cloud channel, writes the other channel's state.                 *)
Reopened == "wifi"

(* An acknowledgement that fits, while the timer runs, ends the wait.      *)
Acked(c) ==
  /\ Waiting(c)
  /\ timer[c] /\ AckPacketCompare(cur[c], ack)
  /\ timer' = [timer EXCEPT ![c] = FALSE]
  /\ cur' = [cur EXCEPT ![c] = NULL]
  /\ st' = [st EXCEPT ![Reopened] = "SEND"]
  /\ ack' = NULL
  /\ UNCHANGED <<lists, ackList, replyList, level, tx, rx, history>>

(* While the timer runs the channel goes on waiting; it would wait for     *)
(* ever if QoS were no longer in force, for then neither branch runs.      *)
NoAckYet(c) ==
  /\ pc = c /\ st[c] = "WAIT" /\ cur[c] # NULL
  /\ QosInForce(cur[c]) => timer[c] /\ ~ AckPacketCompare(cur[c], ack)
  /\ cur' = IF QosInForce(cur[c]) THEN [cur EXCEPT ![c].crypt = Kept(c)] ELSE cur
  /\ pc' = After(c)
  /\ UNCHANGED <<lists, st, timer, ack, ackList, replyList, level, tx, rx, history>>

(* Two mistakes: the packet is given up when its timer runs out, and it is *)
(* put back behind the packets that wait.                                  *)
ResendNever(c) ==
  /\ Waiting(c)
  /\ ~ timer[c]
  /\ cur' = [cur EXCEPT ![c] = NULL]
  /\ st' = [st EXCEPT ![c] = "SEND"]
  /\ UNCHANGED <<lists, timer, ack, ackList, replyList, level, tx, rx, history>>

ResendLast(c) ==
  /\ Waiting(c)
  /\ ~ timer[c]
  /\ list' = [list EXCEPT ![c] = Append(@, cur[c])]
  /\ cur' = [cur EXCEPT ![c] = NULL]
  /\ st' = [st EXCEPT ![c] = "SEND"]
  /\ UNCHANGED <<dataID, made, timer, ack, ackList, replyList, level, tx, rx, history>>

(* The timer has run out: the packet is sent again on the next turn.       *)
Resend(c) ==
  /\ Waiting(c)
  /\ ~ timer[c]
  /\ cur' = [cur EXCEPT ![c].crypt = SetBit(Kept(c), 8)]   \* 1 << DUP_BITS
  /\ st' = [st EXCEPT ![c] = "SEND"]
  /\ UNCHANGED <<lists, timer, ack, ackList, replyList, level, tx, rx, history>>

(* After line 190 the cloud channel waits without a packet and reads, and  *)
(* once the timer is off writes, through NULL.  The processor either stops *)
(* there or the access has no effect: what the bit read is worth is open.  *)
WaitOnNull ==
  /\ pc = "cloud" /\ st["cloud"] = "WAIT" /\ cur["cloud"] = NULL
  /\ \/ /\ NullFaults
        /\ pc' = "fault"
        /\ UNCHANGED st
     \/ /\ qos # 0
        /\ ~ timer["cloud"]
        /\ st' = [st EXCEPT !["cloud"] = "SEND"]
        /\ pc' = "free"
     \/ /\ qos # 1 \/ timer["cloud"]
        /\ pc' = "free"
        /\ UNCHANGED st
  /\ UNCHANGED <<lists, cur, timer, ack, ackList, replyList, level, tx, rx, history>>

(* An acknowledgement nobody took is freed; then the module's own go out.  *)
FreeAckAndReply ==
  /\ pc = "free"
  /\ pc' = "ack"
  /\ ack' = NULL
  /\ \/ /\ replyList # << >> /\ Len(tx) < LineCap
        /\ tx' = Append(tx, [kind |-> "reply", n |-> Head(replyList)])
        /\ replyList' = Tail(replyList)
     \/ /\ replyList = << >>
        /\ UNCHANGED <<tx, replyList>>
  /\ UNCHANGED <<lists, channels, ackList, level, rx, history>>

SendThread == \/ PopAck \/ FreeAckAndReply \/ ConvertFails \/ WaitOnNull
              \/ \E c \in Channels :
                   \/ SendCurrent(c) \/ SendNext(c) \/ NothingToSend(c)
                   \/ AwaitAck(c) \/ NoAckAwaited(c)
                   \/ Acked(c) \/ NoAckYet(c) \/ Resend(c)

-----------------------------------------------------------------------------
(* The timers, the line and the device, and the receive thread. *)

InFlight(c) == \/ \E i \in DOMAIN tx : tx[i].kind = "packet" /\ tx[i].packet.type = c
               \/ \E i \in DOMAIN rx : rx[i].kind = "ack" /\ rx[i].type = c
               \/ \E i \in DOMAIN ackList : ackList[i].type = c
               \/ ack # NULL /\ ack.type = c

TimerExpires(c) ==
  /\ timer[c]
  /\ Timely => ~ InFlight(c)
  /\ timer' = [timer EXCEPT ![c] = FALSE]
  /\ UNCHANGED <<lists, pc, st, cur, ack, ackList, replyList, level, tx, rx, history>>

(* The device takes a frame and acknowledges it when its QoS bit is set.   *)
DeviceReceives(c) ==
  /\ tx # << >> /\ Head(tx).kind = "packet" /\ Head(tx).packet.type = c
  /\ LET p == Head(tx).packet
     IN /\ tx' = Tail(tx)
        /\ received' = received \cup {Name(p)}
        /\ \/ QosBit \notin p.crypt /\ UNCHANGED rx
           \/ /\ QosBit \in p.crypt /\ Len(rx) < LineCap
              /\ rx' = Append(rx, [kind |-> "ack", type |-> c, id |-> p.id])
  /\ UNCHANGED <<lists, pc, channels, ack, ackList, replyList, level,
                 sent, unacked, dropped>>

DeviceGetsReply ==
  /\ tx # << >> /\ Head(tx).kind = "reply"
  /\ tx' = Tail(tx)
  /\ UNCHANGED <<lists, pc, channels, ack, ackList, replyList, level, rx, history>>

DeviceRequests ==
  /\ made["device"] < MaxRequests /\ Len(rx) < LineCap
  /\ made' = [made EXCEPT !["device"] = @ + 1]
  /\ rx' = Append(rx, [kind |-> "request", n |-> made["device"] + 1])
  /\ UNCHANGED <<list, dataID, pc, channels, ack, ackList, replyList, level, tx, history>>

(* A frame is garbled: its receiver drops it on its checksum.              *)
FrameLost ==
  /\ \/ tx # << >> /\ tx' = Tail(tx) /\ UNCHANGED rx
     \/ rx # << >> /\ rx' = Tail(rx) /\ UNCHANGED tx
  /\ UNCHANGED <<lists, pc, channels, ack, ackList, replyList, level, history>>

(* EJ_UartReceiveThread: an acknowledgement goes to device2wifiAckList, a  *)
(* packet that asks for one puts one on wifi2deviceAckList.  A full list   *)
(* takes neither, and nobody notices.                                      *)
PushIfRoom(l, x) == IF Len(l) < ListCap THEN Append(l, x) ELSE l

ReceiveAck(c) ==
  /\ rx # << >> /\ Head(rx).kind = "ack" /\ Head(rx).type = c
  /\ rx' = Tail(rx)
  /\ ackList' = PushIfRoom(ackList, [type |-> c, id |-> Head(rx).id])
  /\ UNCHANGED <<lists, pc, channels, ack, replyList, level, tx, history>>

ReceiveRequest ==
  /\ rx # << >> /\ Head(rx).kind = "request"
  /\ rx' = Tail(rx)
  /\ \/ replyList' = PushIfRoom(replyList, Head(rx).n)
     \/ HeapFails /\ UNCHANGED replyList
  /\ UNCHANGED <<lists, pc, channels, ack, ackList, level, tx, history>>

Environment == \/ \E bits \in {{}, {QosBit}} : Submit("wifi", bits)
               \/ Submit("cloud", {})
               \/ ReadDeviceQosResponse \/ QosQueryGivenUp \/ RestartUart
               \/ DeviceGetsReply \/ DeviceRequests \/ FrameLost \/ ReceiveRequest
               \/ \E c \in Channels : TimerExpires(c) \/ DeviceReceives(c) \/ ReceiveAck(c)

Next == SendThread \/ Environment

Spec == Init /\ [][Next]_vars

(* The threads are scheduled, a timer that runs expires, and a line that   *)
(* is tried for ever lets a frame of each kind through again and again.    *)
FairSpec == /\ Spec
            /\ WF_vars(SendThread) /\ WF_vars(ReceiveRequest) /\ WF_vars(DeviceGetsReply)
            /\ \A c \in Channels : /\ WF_vars(TimerExpires(c))
                                   /\ SF_vars(DeviceReceives(c))
                                   /\ SF_vars(ReceiveAck(c))

-----------------------------------------------------------------------------
Packets(c) == [type : {c}, n : 1 .. made[c], id : 0 .. IdMod - 1, crypt : SUBSET (0 .. 7)]
Names == UNION {{c} \X (1 .. made[c]) : c \in Channels}

TypeOK ==
  /\ \A c \in Channels : /\ Len(list[c]) <= ListCap
                          /\ \A i \in DOMAIN list[c] : list[c][i] \in Packets(c)
                          /\ cur[c] # NULL => cur[c] \in Packets(c)
                          /\ st[c] \in {"SEND", "WAIT"}
  /\ timer \in [Channels -> BOOLEAN]
  /\ pc \in {"ack", "wifi", "wifiArm", "cloud", "cloudArm", "free", "fault"}
  /\ Len(ackList) <= ListCap /\ Len(replyList) <= ListCap
  /\ qos \in 0 .. 2
  /\ Len(tx) <= LineCap /\ Len(rx) <= LineCap
  /\ received \subseteq sent /\ sent \cup unacked \cup dropped \subseteq Names

(* A packet the module still answers for: it waits in its list or is the   *)
(* one its channel is sending.                                             *)
Held(c) == {Name(list[c][i]) : i \in DOMAIN list[c]}
             \cup (IF cur[c] = NULL THEN {} ELSE {Name(cur[c])})

(* Under QoS no packet is lost: one that is no longer held has reached the *)
(* device, unless it was sent while QoS was not in force or there was no   *)
(* memory or room for it.  Frames and acknowledgements are lost, late and  *)
(* repeated, data IDs wrap, the two channels share the acknowledgements,   *)
(* and the level changes between the moment a frame is marked and the      *)
(* moment its channel decides to wait (ej_user_uart.c:86-98, 107-116).     *)
NothingLost == \A x \in Names : \/ x \in received \cup unacked \cup dropped
                                 \/ \E c \in Channels : x \in Held(c)

(* The device gets the packets of a channel in the order they were made:   *)
(* no frame on the line is older than one before it or one received.       *)
InOrder ==
  \A j \in DOMAIN tx : tx[j].kind = "packet" =>
    LET p == tx[j].packet IN
    /\ \A x \in received : x[1] = p.type => x[2] <= p.n
    /\ \A i \in 1 .. j - 1 : tx[i].kind = "packet" /\ tx[i].packet.type = p.type
                                 => tx[i].packet.n <= p.n

(* A channel that waits is one whose packet is under QoS: were the level   *)
(* taken back while it waits, neither branch of its WAIT state would run   *)
(* and it would send nothing any more (ej_user_uart.c:104, 182).           *)
NeverStuck == \A c \in Channels : st[c] = "WAIT" /\ cur[c] # NULL => QosInForce(cur[c])

(* Every packet accepted under QoS is received in the end, however often   *)
(* its frames and their acknowledgements are lost, and although an         *)
(* acknowledged cloud packet leaves its channel in the wrong state.        *)
Delivered == \A c \in Channels : \A n \in 1 .. (IF c = "wifi" THEN MaxWifi ELSE MaxCloud) :
               (made[c] >= n) ~> (<<c, n>> \in received \cup dropped)
=============================================================================
