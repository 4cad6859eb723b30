---------------------------- MODULE MqttSession ----------------------------
(***************************************************************************)
(* The session with the cloud's MQTT broker: mainLoop connects and tears   *)
(* down (src/ejcloud/ej_main.c, ej_user_mqtt.c), MQTTSendThread publishes, *)
(* MQTTReceiveThread yields and reports a lost connection, and all three   *)
(* share one client (mqtt/MQTTClient.c) with its mutex, its keepalive      *)
(* timers and its socket.  Around them are the event queue, the Wi-Fi      *)
(* stack that reports an address, the link and the broker.                 *)
(***************************************************************************)
EXTENDS Naturals, Sequences, FiniteSets, SequencesExt

CONSTANTS NULL,
          QueueCap,     \* events the queue holds (10 in the code)
          MaxRouterUps, \* bound: how often the Wi-Fi stack reports an address
          MaxUdpFails,  \* bound: how often the UDP module fails to start
          ListCap,      \* packets wifi2cloudList holds (9 in the code)
          MaxPackets,   \* bound: packets other parts put in wifi2cloudList
          MaxMessages,  \* bound: messages the broker sends
          MaxIn,        \* bound: packets on their way from the broker
          LinkBreaksToo,\* TRUE: the link may break
          Timely        \* TRUE: an answer that is coming arrives in time

ASSUME SessionAssumption ==
  /\ {QueueCap, ListCap, MaxIn} \subseteq Nat \ {0}
  /\ {MaxRouterUps, MaxUdpFails, MaxPackets, MaxMessages} \subseteq Nat
  /\ {LinkBreaksToo, Timely} \subseteq BOOLEAN

Topics == {"mac", "uuid"}
Acks == {"CONNACK", "SUBACK", "PUBACK", "PINGRESP"}
Threads == {"main", "send", "recv"}
Workers == {"send", "recv"}

ASSUME NullAssumption ==    \* nobody, no packet and no result
  NULL \notin Threads \cup Acks \cup Topics \cup {"FAILURE", "LOST"}

VARIABLES events,       \* ejEventQueue: "router" and "lost"
          pc,           \* where mainLoop is; "reboot" and "halt" are final
          cloudStatus,  \* cloudServiceStatus is CLOUD_CONNECTED
          udpRunning,   \* isUdpBroadcastRunning
          mechanism, connectTimes,        \* the statics of EJ_user_connectServer
          mutex, holder,                  \* c->mutex exists, and who holds it
          isconnected, ping_outstanding,  \* fields of the client
          pingDue, respDue,               \* ping_timer, pingresp_timer expired
          handlers,     \* the topics with a message handler
          at,           \* where each thread is: out, lock, blocked or in
          created, suspended,  \* the worker threads started, and suspended
          toSend,       \* packets in wifi2cloudList
          ret,          \* what MQTTYield will return: "ok", "FAILURE" or "LOST"
          link,         \* the socket: "none", "up", "silent" or "reset"
          in, subs,     \* packets on their way from the broker, its subscriptions
          ups, udpFails, packets, messages,  \* bounded counters of the environment
          \* history:
          fails,        \* connections that failed since the last that succeeded
          wanted,       \* an address was reported since the last teardown
          strays,       \* threads inside the client under a mutex that is gone
          missed,       \* a message was acknowledged that no handler got
          broken, torn  \* a link broke, a session was torn down

events_ == <<events, ups>>
mainVars == <<cloudStatus, udpRunning, udpFails, mechanism, connectTimes, fails, wanted>>
lock == <<mutex, holder, strays>>
ping == <<ping_outstanding, pingDue, respDue>>
client == <<isconnected, handlers>>
tasks == <<created, suspended>>
net == <<link, subs, broken, torn>>
work == <<toSend, packets>>
traffic == <<in, messages, missed>>
vars == <<events_, pc, mainVars, lock, ping, client, at, tasks, work, ret, net, traffic>>

Put(q, e) == IF Len(q) < QueueCap THEN Append(q, e) ELSE q    \* EJ_PutEventSem
OnItsWay(x) == x \in Range(in)
OnQueue(e) == e \in Range(events)
Ended == pc \in {"reboot", "halt"}

Init == /\ events = << >> /\ ups = 0
        /\ pc = "loop" /\ cloudStatus = FALSE /\ udpRunning = FALSE /\ udpFails = 0
        /\ mechanism = "3S" /\ connectTimes = 0 /\ fails = 0 /\ wanted = FALSE
        /\ mutex = FALSE /\ holder = NULL /\ strays = {}
        /\ ping_outstanding = FALSE /\ pingDue = TRUE /\ respDue = TRUE
        /\ isconnected = FALSE /\ handlers = {}
        /\ at = [t \in Threads |-> IF t = "recv" THEN "lock" ELSE "out"]
        /\ created = {} /\ suspended = {}
        /\ toSend = 0 /\ packets = 0 /\ ret = "ok"
        /\ link = "none" /\ subs = {} /\ broken = FALSE /\ torn = FALSE
        /\ in = << >> /\ messages = 0 /\ missed = FALSE

-----------------------------------------------------------------------------
(* The client: its mutex, one turn of cycle, and the end of a command. *)

Unlock(t) == /\ strays' = strays \ {t}
             /\ holder' = IF holder = t THEN NULL ELSE holder
             /\ UNCHANGED mutex

(* cycle and keepalive.  An acknowledgement that cannot be sent ends it    *)
(* before keepalive; a ping that cannot be sent counts as unanswered.      *)
(* pingresp_timer is restarted, with a ping, if counting; a ping is sent   *)
(* while another is unanswered if pinging.                                 *)
CycledWith(p, counting, pinging) ==
  LET answered == p = "PINGRESP"
      failed   == p \in Topics /\ link = "reset"
      due      == pingDue /\ p \notin Topics
      waiting  == ping_outstanding /\ ~ answered
      pinged   == due /\ (pinging \/ ~ waiting) /\ link # "reset"
      resp     == respDue /\ ~ (pinged /\ counting)
      lost     == (waiting \/ due) /\ resp
  IN IF failed
     THEN [out |-> ping_outstanding, due |-> pingDue, resp |-> respDue,
           pinged |-> FALSE, rc |-> "FAILURE"]
     ELSE [out |-> (waiting \/ due) /\ ~ lost, due |-> due /\ ~ pinged,
           resp |-> resp, pinged |-> pinged, rc |-> IF lost THEN "LOST" ELSE p]

CycledNoCountdown(p) == CycledWith(p, FALSE, FALSE)    \* a mistake
CycledPingsOn(p) == CycledWith(p, TRUE, TRUE)          \* another
Cycled(p) == CycledWith(p, TRUE, FALSE)

(* One turn: a packet is read, or none (NULL): it has not come yet, or the *)
(* read from a socket that was reset fails.                                *)
Cycle(p) ==
  LET r    == Cycled(p)
      rest == IF p = NULL THEN in ELSE Tail(in)
      pong == r.pinged /\ link = "up"
  IN /\ p = NULL \/ (in # << >> /\ p = Head(in))
     /\ pong => Len(rest) < MaxIn
     /\ in' = IF pong THEN Append(rest, "PINGRESP") ELSE rest
     /\ ping_outstanding' = r.out /\ pingDue' = r.due /\ respDue' = r.resp
     /\ missed' = (missed \/ (p \in Topics \ handlers /\ r.rc # "FAILURE"))
     /\ UNCHANGED <<messages, net>>

(* sendPacket of a command that the broker answers with answer.            *)
Request(answer) ==
  /\ link # "reset"
  /\ pingDue' = FALSE
  /\ link = "up" => Len(in) < MaxIn
  /\ in' = IF link = "up" THEN Append(in, answer) ELSE in
  /\ UNCHANGED <<ping_outstanding, respDue, messages, missed>>

(* The timer of a command may run out while it waits for answer.           *)
MayExpire(answer) == Timely => link # "up" \/ ~ OnItsWay(answer)

-----------------------------------------------------------------------------
(* mainLoop: connecting. *)

TakeRouter ==
  /\ pc = "loop" /\ events # << >> /\ Head(events) = "router"
  /\ \/ /\ udpRunning' = TRUE
        /\ events' = Tail(events) /\ UNCHANGED udpFails
     \/ /\ ~ udpRunning /\ udpFails < MaxUdpFails
        /\ udpFails' = udpFails + 1
        /\ events' = Put(Tail(events), "router") /\ UNCHANGED udpRunning
  /\ pc' = IF cloudStatus THEN "loop" ELSE "connect"
  /\ UNCHANGED <<ups, cloudStatus, mechanism, connectTimes, fails, wanted, lock, ping,
                 client, at, tasks, work, ret, net, traffic>>

(* What EJ_user_connectServer does about a failure: three seconds, ten,    *)
(* then twenty-five between attempts, and in the end a reboot.  A failed   *)
(* attempt is repeated through the event queue.                            *)
Steps == [m \in {"3S", "10S", "25S"} |-> IF m = "3S" THEN 4 ELSE 2]
NextMechanism == [m \in {"3S", "10S", "25S"} |->
                   CASE m = "3S" -> "10S" [] m = "10S" -> "25S" [] OTHER -> "3S"]

(* A mistake: the count goes on when the mechanism changes. *)
BackOffOn == LET last == connectTimes + 1 >= Steps[mechanism]
             IN /\ connectTimes' = connectTimes + 1
                /\ mechanism' = IF last THEN NextMechanism[mechanism] ELSE mechanism
                /\ pc' = IF last /\ mechanism = "25S" THEN "reboot" ELSE "loop"

BackOff == LET last == connectTimes + 1 >= Steps[mechanism]
           IN /\ connectTimes' = IF last THEN 0 ELSE connectTimes + 1
              /\ mechanism' = IF last THEN NextMechanism[mechanism] ELSE mechanism
              /\ pc' = IF last /\ mechanism = "25S" THEN "reboot" ELSE "loop"

(* A mistake: a failed attempt is not repeated. *)
ConnectFailsOnce == /\ BackOff
                    /\ fails' = fails + 1
                    /\ mutex' = FALSE /\ holder' = NULL /\ UNCHANGED strays
                    /\ UNCHANGED <<events_, cloudStatus, udpRunning, udpFails, wanted>>

ConnectFails == /\ BackOff
                /\ fails' = fails + 1
                /\ events' = Put(events, "router")
                /\ mutex' = FALSE /\ holder' = NULL /\ UNCHANGED strays  \* MQTTClientDeinit
                /\ UNCHANGED <<ups, cloudStatus, udpRunning, udpFails, wanted>>

(* MQTTClient and a NetworkConnect that fails. *)
OpenFails == /\ pc = "connect"
             /\ ConnectFails
             /\ isconnected' = FALSE /\ handlers' = {}
             /\ ping_outstanding' = FALSE /\ pingDue' = TRUE /\ respDue' = TRUE
             /\ UNCHANGED <<at, tasks, work, ret, net, traffic>>

(* MQTTClient, NetworkConnect, and MQTTConnect up to its waitfor. *)
Open == /\ pc = "connect"
        /\ pc' = "CONNACK"
        /\ mutex' = TRUE /\ holder' = "main" /\ UNCHANGED strays
        /\ isconnected' = FALSE /\ handlers' = {}
        /\ ping_outstanding' = FALSE /\ pingDue' = FALSE /\ respDue' = TRUE
        /\ link' = "up" /\ subs' = {} /\ UNCHANGED <<broken, torn>>
        /\ in' = <<"CONNACK">> /\ UNCHANGED <<messages, missed>>
        /\ at' = [at EXCEPT !["main"] = "in"]
        /\ UNCHANGED <<events_, mainVars, tasks, work, ret>>

Goes(t, where) == at' = [at EXCEPT ![t] = where]

Connack == /\ pc = "CONNACK"
           /\ \E p \in Range(in) : Cycle(p) /\ Cycled(p).rc = "CONNACK"
           /\ isconnected' = TRUE /\ UNCHANGED handlers
           /\ mechanism' = "3S" /\ connectTimes' = 0 /\ fails' = 0
           /\ pc' = "mac"
           /\ Unlock("main") /\ Goes("main", "out")
           /\ UNCHANGED <<events_, cloudStatus, udpRunning, udpFails, wanted, tasks, work, ret>>

(* The broker refuses, or does not answer in time: the socket is closed.   *)
ConnackFails == /\ pc = "CONNACK"
                /\ OnItsWay("CONNACK") \/ MayExpire("CONNACK")
                /\ ConnectFails
                /\ Goes("main", "out")
                /\ link' = "none" /\ in' = << >>
                /\ UNCHANGED <<client, ping, tasks, work, ret, subs, broken, torn,
                               messages, missed>>

(* The two calls of MQTTSubscribe; mainLoop goes on whatever they return.  *)
Subscribing == pc \in Topics
NextCall(topic) == IF topic = "mac" THEN "uuid" ELSE "startSend"

Subscribe ==
  /\ Subscribing /\ at["main"] = "out" /\ holder = NULL
  /\ \/ /\ Request("SUBACK")
        /\ subs' = IF link = "up" THEN subs \cup {pc} ELSE subs
        /\ holder' = "main" /\ Goes("main", "in") /\ UNCHANGED pc
     \/ /\ link = "reset"
        /\ pc' = NextCall(pc)
        /\ UNCHANGED <<ping, traffic, subs, holder, at>>
  /\ UNCHANGED <<events_, mainVars, mutex, strays, client, tasks, work, ret, link,
                 broken, torn>>

(* A mistake: the slot of another topic is taken. *)
SubackOverwrites ==
  /\ Subscribing /\ at["main"] = "in"
  /\ \E p \in Range(in) : Cycle(p) /\ Cycled(p).rc = "SUBACK"
  /\ handlers' = {pc} /\ UNCHANGED isconnected
  /\ pc' = NextCall(pc)
  /\ Unlock("main") /\ Goes("main", "out")
  /\ UNCHANGED <<events_, mainVars, tasks, work, ret>>

Suback ==
  /\ Subscribing /\ at["main"] = "in"
  /\ \E p \in Range(in) : Cycle(p) /\ Cycled(p).rc = "SUBACK"
  /\ handlers' = handlers \cup {pc} /\ UNCHANGED isconnected
  /\ pc' = NextCall(pc)
  /\ Unlock("main") /\ Goes("main", "out")
  /\ UNCHANGED <<events_, mainVars, tasks, work, ret>>

SubscribeExpires ==
  /\ Subscribing /\ at["main"] = "in" /\ MayExpire("SUBACK")
  /\ pc' = NextCall(pc)
  /\ Unlock("main") /\ Goes("main", "out")
  /\ UNCHANGED <<events_, mainVars, ping, client, tasks, work, ret, net, traffic>>

(* The worker threads are created once and resumed later. *)
Start(t) == /\ created' = created \cup {t}
            /\ suspended' = suspended \ {t}

StartSend == /\ pc = "startSend"
             /\ Start("send")
             /\ pc' = "startRecv"
             /\ UNCHANGED <<events_, mainVars, lock, ping, client, at, work, ret, net,
                            traffic>>

(* The request for a device ID is queued, if there is memory and room.     *)
StartRecv == /\ pc = "startRecv"
             /\ Start("recv")
             /\ cloudStatus' = TRUE
             /\ toSend' \in {toSend, IF toSend < ListCap THEN toSend + 1 ELSE toSend} /\ UNCHANGED packets
             /\ pc' = "loop"
             /\ UNCHANGED <<events_, udpRunning, udpFails, mechanism, connectTimes, fails, wanted,
                            lock, ping, client, at, ret, net, traffic>>

(* mainLoop: EJ_user_uninit_MQTTThread. *)

TakeLost == /\ pc = "loop" /\ events # << >> /\ Head(events) = "lost"
            /\ events' = Tail(events)
            /\ pc' = "disconnect"
            /\ UNCHANGED <<ups, mainVars, lock, ping, client, at, tasks, work, ret, net,
                           traffic>>

Disconnect == /\ pc = "disconnect" /\ mutex /\ holder = NULL
              /\ isconnected' = FALSE /\ UNCHANGED handlers
              /\ pingDue' = (pingDue /\ link = "reset")
              /\ pc' = "suspendSend"
              /\ UNCHANGED <<events_, mainVars, lock, ping_outstanding, respDue, at,
                             tasks, work, ret, net, traffic>>

(* There is no mutex: a second report of a lost connection was queued, and *)
(* the kernel's assertion on the null handle stops the module.             *)
DisconnectAgain == /\ pc = "disconnect" /\ ~ mutex
                   /\ pc' = "halt"
                   /\ UNCHANGED <<events_, mainVars, lock, ping, client, at, tasks, work,
                                  ret, net, traffic>>

(* A thread is suspended wherever it is: inside the client, or in the list *)
(* of those that wait for the mutex.                                       *)
Suspend(t, next) ==
  /\ pc = (IF t = "send" THEN "suspendSend" ELSE "suspendRecv")
  /\ suspended' = suspended \cup {t} /\ UNCHANGED created
  /\ \E where \in {at[t]} \cup (IF at[t] = "lock" /\ holder # NULL THEN {"blocked"} ELSE {}) :
       Goes(t, where)
  /\ pc' = next
  /\ UNCHANGED <<events_, mainVars, lock, ping, client, work, ret, net, traffic>>

Deinit == /\ pc = "deinit"
          /\ mutex' = FALSE /\ holder' = NULL
          /\ strays' = strays \cup {t \in Workers : at[t] = "in"}
          /\ link' = "none" /\ in' = << >> /\ torn' = TRUE
          /\ cloudStatus' = FALSE
          /\ wanted' = OnQueue("router")
          /\ pc' = "loop"
          /\ UNCHANGED <<events_, udpRunning, udpFails, mechanism, connectTimes, fails, ping, client,
                         at, tasks, work, ret, subs, broken, messages, missed>>

MainTurn ==       \* a turn of cycle in a waitfor that goes on
  /\ at["main"] = "in"
  /\ \E p \in Range(in) \cup {NULL} :
       Cycle(p) /\ Cycled(p).rc # (IF pc = "CONNACK" THEN "CONNACK" ELSE "SUBACK")
  /\ UNCHANGED <<events_, pc, mainVars, lock, client, at, tasks, work, ret>>

MainLoop == \/ TakeRouter \/ OpenFails \/ Open \/ Connack \/ ConnackFails
            \/ Subscribe \/ Suback \/ SubscribeExpires \/ StartSend \/ StartRecv
            \/ TakeLost \/ Disconnect \/ DisconnectAgain \/ Deinit \/ MainTurn
            \/ Suspend("send", "suspendRecv") \/ Suspend("recv", "deinit")

-----------------------------------------------------------------------------
(* MQTTSendThread and MQTTReceiveThread. *)

Runs(t) == t \in created \ suspended /\ ~ Ended
steady == <<events_, pc, mainVars, client, tasks>>   \* what no worker changes

PopPacket == /\ Runs("send") /\ at["send"] = "out" /\ toSend > 0
             /\ toSend' = toSend - 1 /\ UNCHANGED packets
             /\ Goes("send", "lock")
             /\ UNCHANGED <<steady, lock, ping, ret, net, traffic>>

(* MQTTPublish up to its waitfor, holding the mutex if there is one to     *)
(* hold; what it returns goes nowhere, and the packet is freed.            *)
Publish == \/ /\ isconnected /\ Request("PUBACK")
              /\ Goes("send", "in")
           \/ /\ ~ isconnected \/ link = "reset"
              /\ Goes("send", "out")
              /\ UNCHANGED <<ping, traffic>>

(* A mistake: the mutex is given back before the acknowledgement is there. *)
LockPublishShort ==
  /\ Runs("send") /\ at["send"] = "lock" /\ mutex /\ holder = NULL
  /\ Publish
  /\ UNCHANGED <<steady, lock, work, ret, net>>

LockPublish ==
  /\ Runs("send") /\ at["send"] = "lock" /\ mutex /\ holder = NULL
  /\ Publish
  /\ holder' = IF at'["send"] = "in" THEN "send" ELSE NULL
  /\ UNCHANGED <<steady, mutex, strays, work, ret, net>>

PublishTurn ==
  /\ Runs("send") /\ at["send"] = "in"
  /\ \E p \in Range(in) \cup {NULL} :
       /\ Cycle(p)
       /\ IF Cycled(p).rc = "PUBACK" THEN Goes("send", "out") /\ Unlock("send")
                                     ELSE UNCHANGED <<at, lock>>
  /\ UNCHANGED <<steady, work, ret>>

PublishExpires ==
  /\ Runs("send") /\ at["send"] = "in" /\ MayExpire("PUBACK")
  /\ Goes("send", "out") /\ Unlock("send")
  /\ UNCHANGED <<steady, ping, work, ret, net, traffic>>

LockYield ==
  /\ Runs("recv") /\ at["recv"] = "lock" /\ mutex /\ holder = NULL
  /\ Goes("recv", "in") /\ holder' = "recv"
  /\ UNCHANGED <<steady, mutex, strays, ping, work, ret, net, traffic>>

YieldTurn ==
  /\ Runs("recv") /\ at["recv"] = "in"
  /\ \E p \in Range(in) \cup {NULL} :
       /\ Cycle(p)
       /\ ret' = IF Cycled(p).rc \in {"FAILURE", "LOST"} THEN Cycled(p).rc ELSE ret
  /\ Goes("recv", "lock") /\ Unlock("recv")
  /\ UNCHANGED <<steady, work>>

(* MQTTYield returns, a lost connection is reported, and it is called again. *)
YieldReturns ==
  /\ Runs("recv") /\ at["recv"] = "lock" /\ ret # "ok"
  /\ events' = IF ret = "LOST" THEN Put(events, "lost") ELSE events
  /\ ret' = "ok"
  /\ UNCHANGED <<ups, pc, mainVars, lock, ping, client, at, tasks, work, net, traffic>>

(* A thread that was waiting for a mutex when it was deleted is resumed:   *)
(* it looks at freed memory, and may find the mutex free, or stop the      *)
(* module, or wait for ever.                                               *)
WakeStray(t) ==
  /\ Runs(t) /\ at[t] = "blocked"
  /\ \/ /\ IF t = "send" THEN Publish
           ELSE Goes(t, "in") /\ UNCHANGED <<ping, traffic>>
        /\ strays' = IF at'[t] = "in" THEN strays \cup {t} ELSE strays
        /\ UNCHANGED pc
     \/ /\ pc' = "halt"
        /\ UNCHANGED <<ping, traffic, strays, at>>
  /\ UNCHANGED <<events_, mainVars, mutex, holder, client, tasks, work, ret, net>>

SendThread == PopPacket \/ LockPublish \/ PublishTurn \/ PublishExpires
RecvThread == LockYield \/ YieldTurn \/ YieldReturns

-----------------------------------------------------------------------------
(* The other producers, the Wi-Fi stack, the timers, the link, the broker. *)

quiet == <<pc, cloudStatus, udpRunning, udpFails, mechanism, connectTimes, fails, lock, client, at,
           tasks, ret>>

RouterUp == /\ ~ Ended /\ ups < MaxRouterUps
            /\ ups' = ups + 1
            /\ events' = Put(events, "router")
            /\ wanted' = (wanted \/ "router" \in Range(events'))
            /\ UNCHANGED <<quiet, ping, work, net, traffic>>

AddPacket == /\ ~ Ended /\ packets < MaxPackets /\ toSend < ListCap
             /\ packets' = packets + 1 /\ toSend' = toSend + 1
             /\ UNCHANGED <<quiet, events_, wanted, ping, net, traffic>>

PingTimerExpires == /\ ~ Ended /\ mutex /\ ~ pingDue
                    /\ pingDue' = TRUE /\ UNCHANGED <<ping_outstanding, respDue>>
                    /\ UNCHANGED <<quiet, events_, wanted, work, net, traffic>>

RespTimerExpires == /\ ~ Ended /\ ~ respDue
                    /\ MayExpire("PINGRESP")
                    /\ respDue' = TRUE /\ UNCHANGED <<ping_outstanding, pingDue>>
                    /\ UNCHANGED <<quiet, events_, wanted, work, net, traffic>>

(* The link goes silent, or is reset, perhaps with packets still to read.  *)
LinkBreaks == /\ ~ Ended /\ LinkBreaksToo /\ link \in {"up", "silent"}
              /\ \/ link = "up" /\ link' = "silent" /\ in' = << >>
                 \/ link' = "reset" /\ in' \in {in, << >>}
              /\ broken' = TRUE
              /\ UNCHANGED <<quiet, events_, wanted, ping, work, subs, torn, messages,
                             missed>>

(* The broker sends a message on a topic it has acknowledged.              *)
BrokerSends(topic) ==
  /\ ~ Ended /\ link = "up" /\ topic \in subs
  /\ messages < MaxMessages /\ Len(in) < MaxIn
  /\ messages' = messages + 1
  /\ in' = Append(in, topic) /\ UNCHANGED missed
  /\ UNCHANGED <<quiet, events_, wanted, ping, work, net>>

Environment == \/ RouterUp \/ AddPacket \/ PingTimerExpires \/ RespTimerExpires
               \/ LinkBreaks \/ \E topic \in Topics : BrokerSends(topic)

Next == \/ MainLoop \/ SendThread \/ RecvThread \/ Environment
        \/ \E t \in Workers : WakeStray(t)

Spec == Init /\ [][Next]_vars

(* Equal priorities and time slicing run every thread; the receive thread  *)
(* sleeps between two calls of MQTTYield, so mainLoop gets the mutex, and  *)
(* a call ends after its 200 ms; a packet that has come is read; a timer   *)
(* that runs expires.                                                      *)
FairSpec == /\ Spec
            /\ WF_vars(MainLoop) /\ WF_vars(ConnackFails \/ SubscribeExpires)
            /\ SF_vars(Disconnect)
            /\ WF_vars(SendThread) /\ WF_vars(PublishExpires)
            /\ WF_vars(RecvThread) /\ SF_vars(LockYield) /\ SF_vars(YieldReturns)
            /\ WF_vars(PingTimerExpires) /\ WF_vars(RespTimerExpires)

-----------------------------------------------------------------------------
Inside == {t \in Threads : at[t] = "in"}

TypeOK ==
  /\ Len(events) <= QueueCap /\ Range(events) \subseteq {"router", "lost"}
  /\ pc \in {"loop", "connect", "CONNACK", "startSend", "startRecv", "disconnect",
             "suspendSend", "suspendRecv", "deinit", "reboot", "halt"} \cup Topics
  /\ mechanism \in DOMAIN Steps /\ connectTimes \in 0 .. Steps[mechanism] - 1
  /\ holder \in Threads \cup {NULL} /\ (holder # NULL => mutex /\ at[holder] = "in")
  /\ at \in [Threads -> {"out", "lock", "blocked", "in"}]
  /\ strays \subseteq Workers \cap Inside /\ suspended \subseteq created /\ created \subseteq Workers
  /\ Len(in) <= MaxIn /\ Range(in) \subseteq Acks \cup Topics
  /\ ret \in {"ok", "FAILURE", "LOST"} /\ link \in {"none", "up", "silent", "reset"}
  /\ handlers \subseteq Topics /\ subs \subseteq Topics

(* Two threads are inside the client at once, reading the same socket into *)
(* the same buffer, only if a teardown caught one of them there: within a  *)
(* session every command keeps its acknowledgement to itself.              *)
OnlyStraysOverlap == Cardinality(Inside) > 1 => strays # {}

(* A module that has an address and no session is trying to get one: the   *)
(* retry, which lives in the event queue alone, is never lost there, with  *)
(* the queue full of older events and the UDP module asking for retries    *)
(* through the same event.                                                 *)
RetryPending == wanted /\ ~ cloudStatus =>
                  \/ OnQueue("router") \/ Ended
                  \/ pc \in {"connect", "CONNACK", "startSend", "startRecv"} \cup Topics

(* The module gives the cloud up, and reboots, at the eighth attempt that  *)
(* fails in a row, and not before.                                         *)
RebootAtEighth == [][pc' = "reboot" <=> fails' = 8 /\ fails = 7]_<<pc, fails>>

(* As long as the link holds no loss is reported, whichever thread reads   *)
(* the answers to the pings the others sent.                               *)
HealthyLinkKept == ~ broken => ret # "LOST" /\ ~ OnQueue("lost") /\ pc # "disconnect"

(* A message that was acknowledged was handed to a handler: the broker     *)
(* will not send it again.                                                 *)
AcknowledgedDelivered == ~ missed

(* A link that died is reported, although the send thread's waits consume  *)
(* the timeouts of pings, later turns overwrite what a turn of MQTTYield   *)
(* found, and every frame sent postpones the next ping.                    *)
DeadLinkReported ==
  (cloudStatus /\ ~ torn /\ link \in {"silent", "reset"})
    ~> (OnQueue("lost") \/ ~ cloudStatus \/ Ended)

(* A module with an address gets its session, or reboots to try again.     *)
ConnectsOrReboots == (wanted /\ ~ cloudStatus) ~> (cloudStatus \/ Ended)
=============================================================================
