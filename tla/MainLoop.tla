----------------------------- MODULE MainLoop -----------------------------
(***************************************************************************)
(* mainLoop in its normal state (src/ejcloud/ej_main.c): in each turn one  *)
(* event, one packet of the appliance and one message of the cloud.  The   *)
(* callbacks (ej_cmd_uart.c, ej_cmd_mqtt.c) allocate replies and push them *)
(* to the lists of other threads; the receive threads allocate what they   *)
(* push to mainLoop.  Who owns a packet is written down nowhere, so this   *)
(* module models the heap: a block that is referred to after it was freed, *)
(* or still allocated when nothing refers to it, is the code's mistake.    *)
(***************************************************************************)
EXTENDS Naturals, FiniteSets, Sequences, SequencesExt

CONSTANTS NULL, FREE,
          Cells,     \* bound: the blocks the heap has for packets
          InCap,     \* packets a list to mainLoop holds (9 in the code)
          OutCap,    \* packets every other list holds (9; the queue: 10)
          QueueCap,  \* events ejEventQueue holds (10 in the code)
          Sockets,   \* bound: sockets lwIP has for the module
          HeapFails, \* TRUE: malloc may fail when there is memory
          Frames,    \* the kinds of packets of the appliance that occur
          Messages,  \* the kinds of messages of the cloud that occur
          Inputs     \* bound: packets, messages and events of the others

InLists == {"device2wifi", "cloud2wifi"}
OutLists == {"wifi2device", "wifi2cloud", "wifi2lan", "cloud2device", "device2cloud",
             "device2wifiAck", "wifi2deviceAck", "device2FirmwareOtaAck"}
Lists == InLists \cup OutLists

(* A packet is known by its kind, and by its data, see below.              *)
Kinds == Frames \cup Messages \cup {"reply", "version", "text", "status", "module", "device", "query",
          "answer", "firmware", "beat", "apply", "askTime", "ack"}
Datas == {"full", "none", "missing", "unsized"}
Blocks == [kind : Kinds, data : Datas]

ASSUME MainLoopAssumption ==
  /\ NULL \notin Cells \cup 1..Sockets /\ FREE \notin Blocks /\ "freed" \notin Kinds
  /\ {InCap, OutCap, QueueCap, Sockets, Inputs} \subseteq Nat \ {0}
  /\ HeapFails \in BOOLEAN

VARIABLES mem,      \* the heap, the lists and what went wrong with them
          pc,       \* where mainLoop is in a turn
          held,     \* the packet it is processing
          todo,     \* the reports it still makes after a device ID came
          info,     \* the blocks of the strings that describe the appliance
          events,   \* ejEventQueue
          session,  \* CLOUD_CONNECTED
          hasId,    \* the module has a device ID
          sock,     \* rxsock and txsock, and the sockets that are open
          udp,      \* UDPBROADCASTMODULE_RUNNING
          history,  \* see below
          inputs    \* inputs the environment still gives

(* mem.heap[c] is FREE or a block: a packet, named by its kind, with, or   *)
(* without, or missing the data its length announces, or with data and no  *)
(* length, or some text.                                                   *)
(* mem.fault names the first step without a meaning in C ("none" so far);  *)
(* nothing happens after it.  mem.oom: an allocation failed.  mem.refused: *)
(* "events" or "packet" was refused by a full queue and its loss not seen. *)
(* history: a new speed of the serial line was asked for ("baud"), the     *)
(* module is to restart ("restart"), a socket option could not be set      *)
(* ("option").                                                             *)
vars == <<mem, pc, held, todo, info, events, session, hasId, sock, udp, history, inputs>>

Block(k, d) == [kind |-> k, data |-> d]

Init == /\ mem = [heap |-> [c \in Cells |-> FREE], list |-> [l \in Lists |-> << >>],
                  fault |-> "none", oom |-> FALSE, refused |-> {}]
        /\ pc = "event" /\ held = NULL /\ todo = << >>
        /\ info = {} /\ events = << >> /\ session = FALSE /\ hasId \in BOOLEAN
        /\ sock = [rx |-> NULL, tx |-> NULL, open |-> {}]
        /\ udp = FALSE /\ history = {} /\ inputs = Inputs

-----------------------------------------------------------------------------
(* The heap.  An operator takes the memory and gives the memories it may   *)
(* become, since an allocation may fail.                                   *)
Fault(m, f) == IF m.fault = "none" THEN [m EXCEPT !.fault = f] ELSE m
OutOfMemory(m) == [m EXCEPT !.oom = TRUE]
Available(m) == {c \in Cells : m.heap[c] = FREE}
Room(m) == Available(m) # {}
MayFail(m) == HeapFails \/ ~ Room(m)
NewCell(m) == CHOOSE c \in Available(m) : TRUE
With(m, block) == [m EXCEPT !.heap[NewCell(m)] = block]

(* EJ_PacketUartFree, EJ_PacketCloudFree: a packet and its data.           *)
Free(m, c) == IF m.heap[c] = FREE THEN Fault(m, "freed") ELSE [m EXCEPT !.heap[c] = FREE]

Cap(l) == IF l \in InLists THEN InCap ELSE OutCap
Push(m, l, c) == IF Len(m.list[l]) < Cap(l)
                 THEN [m EXCEPT !.list[l] = Append(@, c)]
                 ELSE [m EXCEPT !.refused = @ \cup {"packet"}]
(* A mistake: the packet is forgotten when the list has no room.           *)
PushOrForget(m, l, c) == [Push(m, l, c) EXCEPT !.refused = m.refused]
(* A mistake: it is freed when the list took it, too.                      *)
PushAndFree(m, l, c) == Free(Push(m, l, c), c)
PushOrFree(m, l, c) == IF Len(m.list[l]) < Cap(l) THEN Push(m, l, c) ELSE Free(m, c)
Drop(m, l) == [m EXCEPT !.list[l] = Tail(@)]

(* The three ways in which the callbacks make a packet with data: what is  *)
(* left when the packet was allocated and its data was not.                *)
Made(m, l, k, none) ==
  (IF MayFail(m) THEN {OutOfMemory(m)} ELSE {}) \cup
  (IF Room(m) THEN {Push(With(m, Block(k, "full")), l, NewCell(m))} \cup
                   (IF HeapFails THEN {OutOfMemory(none)} ELSE {})
   ELSE {})
(* The packet is freed, is forgotten, or is pushed without its data.       *)
CleanReply(m, l, k) == Made(m, l, k, m)
LeakyReply(m, l, k) == Made(m, l, k, IF Room(m) THEN With(m, Block(k, "missing")) ELSE m)
UncheckedReply(m, l, k) ==
  Made(m, l, k, IF Room(m) THEN Push(With(m, Block(k, "missing")), l, NewCell(m)) ELSE m)

(* A packet without data.                                                  *)
Bare(m, l, k) == (IF MayFail(m) THEN {OutOfMemory(m)} ELSE {}) \cup
                 (IF Room(m) THEN {Push(With(m, Block(k, "none")), l, NewCell(m))} ELSE {})

-----------------------------------------------------------------------------
(* The callbacks of the appliance's packets; c is the packet.  Most answer *)
(* it; reboot, reset and a configuration are also told to the event queue. *)
CheckNetworkStatus(m) == CleanReply(m, "wifi2device", "reply")
SyncSystemTime(m) == LeakyReply(m, "wifi2device", "reply")
GetWifiModuleProperty(m) == LeakyReply(m, "wifi2device", "reply")
WifiPower(m) == LeakyReply(m, "wifi2device", "reply")
RenameWifiSSID(m) == LeakyReply(m, "wifi2device", "reply")
DeviceEasyLink(m) == CleanReply(m, "wifi2device", "reply")
DeviceReboot(m) == LeakyReply(m, "wifi2device", "reply")
DeviceResetToFactory(m) == LeakyReply(m, "wifi2device", "reply")

(* The version is passed on to the cloud in a packet that is written to    *)
(* before it is known to exist, forgotten when its data cannot be          *)
(* allocated, and freed when the list is full.                             *)
QueryDeviceVersionResponse(m, c) ==
  (IF MayFail(m) THEN {Fault(OutOfMemory(m), "null")} ELSE {}) \cup
  (IF ~ Room(m) THEN {}
   ELSE IF m.heap[c].data # "full" THEN {m}
   ELSE {PushOrFree(With(m, Block("version", "full")), "wifi2cloud", NewCell(m))} \cup
        (IF HeapFails THEN {OutOfMemory(With(m, Block("version", "missing")))} ELSE {}))

(* settingUartBaud pushes its reply and returns it; the callback then      *)
(* pushes the request, which mainLoop is about to free.                    *)
SettingUartBaud(m) == LeakyReply(m, "wifi2device", "reply")
SettingUartBaudRequest(m, c) ==
  {IF Room(m) /\ r.heap # m.heap THEN Push(r, "wifi2device", c) ELSE r : r \in SettingUartBaud(m)}

(* The texts replace the ones before, which are not freed; one block       *)
(* stands for them.  They are written to unchecked.                        *)
GetDeviceInfoResponse(m) ==
  (IF MayFail(m) THEN {<<Fault(OutOfMemory(m), "null"), {}>>} ELSE {}) \cup
  (IF Room(m) THEN {<<With(m, Block("text", "full")), {NewCell(m)}>>} ELSE {})

(* A mistake: the queue has no bound.                                      *)
PutAnyway(q, e) == Append(q, e)
Put(q, e) == IF Len(q) < QueueCap THEN Append(q, e) ELSE q
Tell(m, q, e) == IF Len(q) < QueueCap THEN m ELSE [m EXCEPT !.refused = @ \cup {"events"}]

(* Some are answered only if they have data; the others are left alone:    *)
(* qos and sn, see UartSend and Startup, and 0x62 and 0x65.                *)
Answered(k, d) == \/ k \in {"network", "time", "property", "version", "reboot", "reset"}
                  \/ k \in {"power", "rename", "easylink", "baud"} /\ d = "full"

Answers(k, m, c) ==
  IF ~ Answered(k, m.heap[c].data) THEN {m}
  ELSE CASE k = "network" -> CheckNetworkStatus(m)
         [] k = "time" -> SyncSystemTime(m)
         [] k = "property" -> GetWifiModuleProperty(m)
         [] k = "version" -> QueryDeviceVersionResponse(m, c)
         [] k = "reboot" -> DeviceReboot(m)
         [] k = "reset" -> DeviceResetToFactory(m)
         [] k = "power" -> WifiPower(m)
         [] k = "rename" -> RenameWifiSSID(m)
         [] k = "easylink" -> DeviceEasyLink(m)
         [] k = "baud" -> SettingUartBaudRequest(m, c)

(* The event a packet asks for; a configuration names one of three.        *)
EventsOf(k, d) == CASE k = "reboot" -> {"reboot"}
                    [] k = "reset" -> {"reset"}
                    [] k = "easylink" /\ d = "full" -> {"easylink", "softAP", "airkiss", "none"}
                    [] OTHER -> {"none"}

-----------------------------------------------------------------------------
(* The callbacks of the cloud's messages, which always have data.          *)
ReportStatus(m) == UncheckedReply(m, "wifi2cloud", "status")
ReportModuleInfo(m) == UncheckedReply(m, "wifi2cloud", "module")
ReportDeviceInfo(m) == CleanReply(m, "wifi2cloud", "device")
QueryDeviceStatus(m) == Bare(m, "wifi2device", "query")

(* The cloud is answered that it succeeded, in a packet whose length was   *)
(* never written; no event follows, so the module does not restart.        *)
UnsizedReply(m) == {IF r.heap = m.heap \/ r.heap[NewCell(m)].data = "missing" THEN r
                    ELSE [r EXCEPT !.heap[NewCell(m)].data = "unsized"] :
                      r \in LeakyReply(m, "wifi2cloud", "answer")}
WifiModuleReboot(m) == UnsizedReply(m)
WifiModuleResetToFactory(m) == UnsizedReply(m)

(* The firmware version of the cloud goes to the appliance.                *)
QueryDeviceFirmwareVersion(m) ==
  (IF MayFail(m) THEN {Fault(OutOfMemory(m), "null")} ELSE {}) \cup
  (IF Room(m) THEN {PushOrFree(With(m, Block("firmware", "full")), "wifi2device", NewCell(m))} \cup
        (IF HeapFails THEN {OutOfMemory(With(m, Block("firmware", "missing")))} ELSE {})
   ELSE {})

(* A block that is allocated, and forgotten in the next line.              *)
DeviceFirmwareVersionUpdate(m) ==
  (IF MayFail(m) THEN {OutOfMemory(m)} ELSE {}) \cup
  (IF Room(m) THEN {With(m, Block("text", "full"))} ELSE {})
(* The new address is copied into a block of its own and forgotten.        *)
ModifyCloudServiceAddr(m) ==
  (IF MayFail(m) THEN {Fault(OutOfMemory(m), "null")} ELSE {}) \cup
  (IF Room(m) THEN {With(m, Block("text", "full"))} ELSE {})

(* wifi2lanList, which nobody reads.                                       *)
HeartBeat(m) ==
  (IF MayFail(m) THEN {Fault(OutOfMemory(m), "null")} ELSE {}) \cup
  (IF Room(m) THEN {Push(With(m, Block("beat", "none")), "wifi2lan", NewCell(m))} ELSE {})
(* Two arrays on the stack are given to free.                              *)
WifiModuleConfig(m) == {Fault(m, "stack")}

(* deviceId, time and upgrade make no packet.                              *)
Commands == {"status", "module", "version", "update", "address", "heartbeat", "config",
             "reboot", "reset", "freed"}
Obeys(k, m) ==
  IF k \notin Commands THEN {m}
  ELSE CASE k = "status" -> ReportStatus(m)
         [] k = "module" -> ReportModuleInfo(m)
         [] k = "version" -> QueryDeviceFirmwareVersion(m)
         [] k = "update" -> DeviceFirmwareVersionUpdate(m)
         [] k = "address" -> ModifyCloudServiceAddr(m)
         [] k = "heartbeat" -> HeartBeat(m)
         [] k = "config" -> WifiModuleConfig(m)
         [] k = "reboot" -> WifiModuleReboot(m)
         [] k = "reset" -> WifiModuleResetToFactory(m)
         [] k = "freed" -> {Fault(m, "freed")}

(* What mainLoop itself adds after a device ID came.                       *)
Reports == <<"module", "status", "device", "query">>
Report(k, m) == CASE k = "module" -> ReportModuleInfo(m)
                  [] k = "status" -> ReportStatus(m)
                  [] k = "device" -> ReportDeviceInfo(m)
                  [] k = "query" -> QueryDeviceStatus(m)

(* The application for a device ID; its data is written to unchecked.      *)
RequestDeviceID(m) ==
  (IF MayFail(m) THEN {OutOfMemory(m)} ELSE {}) \cup
  (IF Room(m) THEN {Push(With(m, Block("apply", "full")), "wifi2cloud", NewCell(m))} \cup
                   (IF HeapFails THEN {Fault(OutOfMemory(m), "null")} ELSE {})
   ELSE {})
GetSystemTime(m) == Bare(m, "wifi2cloud", "askTime")

-----------------------------------------------------------------------------
(* The receive threads.                                                    *)
Running == mem.fault = "none" /\ pc # "down"

(* A frame of the appliance: an acknowledgement, a packet that wants one,  *)
(* or a plain packet.  When its data cannot be allocated the packet is     *)
(* freed, and used all the same.                                           *)
Routed(m, k, c) ==
  CASE k = "data" -> PushOrFree(m, "device2cloud", c)
    [] k = "ota" -> PushOrFree(m, "device2FirmwareOtaAck", c)
    [] OTHER -> Push(m, "device2wifi", c)

MakeUart2WifiResponsePacket(m) ==
  (IF MayFail(m) THEN {Fault(OutOfMemory(m), "null")} ELSE {}) \cup
  (IF Room(m) THEN {Push(With(m, Block("ack", "none")), "wifi2deviceAck", NewCell(m))} ELSE {})

Received(m, k, d) ==
  (IF MayFail(m) THEN {<<OutOfMemory(m), NULL>>} ELSE {}) \cup
  (IF Room(m) THEN {<<With(m, Block(k, d)), NewCell(m)>>} \cup
                   (IF HeapFails /\ d = "full" THEN {<<Fault(OutOfMemory(m), "freed"), NULL>>} ELSE {})
   ELSE {})

UartReceive(k, d, route) ==
  /\ Running /\ inputs > 0 /\ inputs' = inputs - 1 /\ (k = "data" => d = "full")
  /\ \E r \in Received(mem, IF route = "ack" THEN "ack" ELSE k, d) :
       IF r[2] = NULL THEN mem' = r[1]
       ELSE CASE route = "ack" -> mem' = Push(r[1], "device2wifiAck", r[2])
              [] route = "qos" -> \E a \in MakeUart2WifiResponsePacket(r[1]) :
                                    mem' = IF a.fault = "none" THEN Routed(a, k, r[2]) ELSE a
              [] OTHER -> mem' = Routed(r[1], k, r[2])
  /\ UNCHANGED <<pc, held, todo, info, events, session, hasId, sock, udp, history>>

(* A message of the cloud; the packet is forgotten when its data cannot be *)
(* allocated.  One that cannot be decrypted leaves no trace.               *)
EJ_messageArrived(k) ==
  LET l == IF k = "toDevice" THEN "cloud2device" ELSE "cloud2wifi"
  IN /\ Running /\ session /\ inputs > 0 /\ inputs' = inputs - 1
     /\ \/ MayFail(mem) /\ mem' = OutOfMemory(mem)
        \/ Room(mem) /\ mem' = PushOrFree(With(mem, Block(k, "full")), l, NewCell(mem))
        \/ HeapFails /\ Room(mem) /\ mem' = OutOfMemory(With(mem, Block(k, "missing")))
     /\ UNCHANGED <<pc, held, todo, info, events, session, hasId, sock, udp, history>>

(* The threads that send: the packet is taken, read and freed.  Without    *)
(* its data it cannot be read, and the buffers it is written to may not be *)
(* there.  An acknowledgement nobody waits for is taken and forgotten, see *)
(* UartSend; so is what the cloud sends when it cannot be converted.       *)
Sent(m, l) ==
  LET c == Head(m.list[l])
      t == Drop(m, l)
      b == m.heap[c]
  IN IF b # FREE /\ b.data = "missing" THEN Fault(t, "null") ELSE Free(t, c)

SendThread(l) ==
  /\ Running /\ mem.list[l] # << >>
  /\ \/ mem' = Sent(mem, l)
     \/ mem.heap[Head(mem.list[l])] = Block("answer", "unsized") /\ mem' = Fault(mem, "unsized")
     \/ l = "device2wifiAck" /\ mem' = Drop(mem, l)
     \/ l = "cloud2device" /\ MayFail(mem) /\ mem' = OutOfMemory(Drop(mem, l))
     \/ l \in {"wifi2device", "wifi2deviceAck"} /\ MayFail(mem)
          /\ mem' = Fault(OutOfMemory(mem), "null")
  /\ UNCHANGED <<pc, held, todo, info, events, session, hasId, sock, udp, history, inputs>>
UartSendThread == \E l \in {"wifi2device", "wifi2deviceAck", "device2wifiAck", "cloud2device"} :
                    SendThread(l)
MQTTSendThread == session /\ \E l \in {"wifi2cloud", "device2cloud"} : SendThread(l)

-----------------------------------------------------------------------------
(* The timer and the threads that only put events.                         *)
EJ_PutEventSem(e) ==
  /\ Running /\ inputs > 0 /\ inputs' = inputs - 1
  /\ e \in {"lost"} => session
  /\ e \in {"reApply", "timeSync"} => session /\ ~ hasId   \* atTaskTimerCB
  /\ events' = Put(events, e) /\ mem' = Tell(mem, events, e)
  /\ UNCHANGED <<pc, held, todo, info, session, hasId, sock, udp, history>>

-----------------------------------------------------------------------------
(* mainLoop: one event, when there is one.                                 *)
NoEvent == /\ Running /\ pc = "event" /\ events = << >>
           /\ pc' = "device"
           /\ UNCHANGED <<mem, held, todo, info, events, session, hasId, sock, udp, history, inputs>>

(* EJ_init_udpbroadcast: the sockets after it, and whether it succeeded.   *)
(* A mistake: when there is no second socket the first is left open.       *)
OneLeftOpen ==
  LET a == CHOOSE s \in 1..Sockets \ sock.open : TRUE
  IN {<<sock, "failed">>} \cup
     (IF 1..Sockets \subseteq sock.open THEN {}
      ELSE {<<[sock EXCEPT !.rx = NULL, !.open = @ \cup {a}], "failed">>})
InitUdpbroadcast ==
  LET left == 1..Sockets \ sock.open
      a == CHOOSE s \in left : TRUE
      b == CHOOSE s \in left \ {a} : TRUE
  IN {<<[sock EXCEPT !.rx = NULL], "failed">>} \cup
     (IF Cardinality(left) < 2 THEN {}
      ELSE {<<[rx |-> NULL, tx |-> NULL, open |-> sock.open], "failed">>} \cup
           {<<[rx |-> a, tx |-> b, open |-> sock.open \cup {a, b}], r>> : r \in {"option", "success"}})

(* Both services are started; each that fails puts the event back, so one  *)
(* event may become two.                                                   *)
RouterConnectedProcess ==
  \E u \in IF udp THEN {<<sock, "running">>} ELSE InitUdpbroadcast :
    LET again == u[2] \in {"failed", "option"}
        q == IF again THEN Append(Tail(events), "router") ELSE Tail(events)
    IN /\ sock' = u[1]
       /\ udp' = (udp \/ u[2] = "success")
       /\ history' = IF u[2] = "option" THEN history \cup {"option"} ELSE history
       /\ \/ session /\ mem' = mem /\ events' = q /\ UNCHANGED session
          \/ /\ ~ session /\ session' = TRUE /\ events' = q
             /\ mem' \in RequestDeviceID(mem)
          \/ /\ ~ session /\ events' = Put(q, "router")
             /\ mem' = Tell(mem, q, "router") /\ UNCHANGED session
       /\ pc' = "device" /\ UNCHANGED <<hasId, info>>

(* The events after which the module restarts.  easylink and airkiss stop  *)
(* the session and the UDP service before.                                 *)
(* A mistake: soft AP, whose other lines are commented out, does nothing.  *)
RestartsButSoftAP == {"reboot", "reset", "easylink", "airkiss", "authFailed"}
RestartEvents == {"reboot", "reset", "softAP", "easylink", "airkiss", "authFailed"}

RestartProcess(e) ==
  LET stops == e \in {"easylink", "airkiss"}
  IN /\ session' = (session /\ ~ stops)
     /\ sock' = IF stops /\ udp
                THEN [rx |-> NULL, tx |-> NULL, open |-> sock.open \ {sock.rx, sock.tx}] ELSE sock
     /\ udp' = (udp /\ ~ stops)
     /\ events' = Tail(events) /\ pc' = "restart"
     /\ UNCHANGED <<mem, history>>

TakeEvent ==
  LET e == Head(events)
      quiet == events' = Tail(events) /\ pc' = "device" /\ UNCHANGED <<sock, udp, history, inputs>>
  IN /\ Running /\ pc = "event" /\ events # << >>
     /\ \/ e = "router" /\ RouterConnectedProcess
        \/ e \in RestartEvents /\ RestartProcess(e)
        \/ e = "lost" /\ quiet /\ session' = FALSE /\ UNCHANGED mem
        \/ e = "reApply" /\ quiet /\ mem' \in RequestDeviceID(mem) /\ UNCHANGED session
        \/ e = "timeSync" /\ quiet /\ mem' \in GetSystemTime(mem) /\ UNCHANGED session
        \/ e \notin RestartEvents \cup {"router", "lost", "reApply", "timeSync"}
            /\ quiet /\ UNCHANGED <<mem, session>>   \* an empty handler
     /\ UNCHANGED <<held, todo, info, hasId, inputs>>

(* The 100 ms in which the send thread may still send the reply.           *)
EJ_App_reboot == /\ Running /\ pc = "restart" /\ pc' = "down"
                 /\ UNCHANGED <<mem, held, todo, info, events, session, hasId, sock, udp, history, inputs>>

(* One packet of the appliance: its callback, and after it the free.       *)
DeviceStep ==
  /\ Running /\ pc = "device"
  /\ \/ /\ mem.list["device2wifi"] = << >> /\ pc' = "cloud"
        /\ UNCHANGED <<mem, held, info, events, history>>
     \/ /\ mem.list["device2wifi"] # << >> /\ pc' = "freeDevice"
        /\ LET c == Head(mem.list["device2wifi"])
               m == Drop(mem, "device2wifi")
               b == m.heap[c]
           IN /\ held' = c
              /\ IF b = FREE THEN mem' = Fault(m, "freed") /\ UNCHANGED <<info, events, history>>
                 ELSE IF b.kind = "info" /\ b.data = "full"
                 THEN /\ \E r \in GetDeviceInfoResponse(m) : mem' = r[1] /\ info' = r[2]
                      /\ UNCHANGED <<events, history>>
                 ELSE \E r \in Answers(b.kind, m, c), e \in EventsOf(b.kind, b.data) :
                        /\ events' = IF e = "none" THEN events ELSE Put(events, e)
                        /\ mem' = IF e = "none" THEN r ELSE Tell(r, events, e)
                        /\ history' = history
                             \cup (IF e = "none" THEN {} ELSE {"restart"})
                             \cup (IF b.kind = "baud" THEN {"baud"} ELSE {})
                        /\ UNCHANGED info
  /\ UNCHANGED <<todo, session, hasId, sock, udp, inputs>>

FreeDevice == /\ Running /\ pc = "freeDevice"
              /\ mem' = Free(mem, held) /\ held' = NULL /\ pc' = "cloud"
              /\ UNCHANGED <<todo, info, events, session, hasId, sock, udp, history, inputs>>

(* One message of the cloud.  After a device ID mainLoop reports four      *)
(* times.                                                                  *)
CloudStep ==
  /\ Running /\ pc = "cloud"
  /\ \/ /\ mem.list["cloud2wifi"] = << >> /\ pc' = "event"
        /\ UNCHANGED <<mem, held, todo, hasId>>
     \/ /\ mem.list["cloud2wifi"] # << >>
        /\ LET c == Head(mem.list["cloud2wifi"])
               m == Drop(mem, "cloud2wifi")
               k == IF m.heap[c] = FREE THEN "freed" ELSE m.heap[c].kind
           IN /\ held' = c
              /\ hasId' = (hasId \/ k = "deviceId")
              /\ todo' = IF k = "deviceId" THEN Reports ELSE << >>
              /\ pc' = IF k = "deviceId" THEN "report" ELSE "freeCloud"
              /\ mem' \in Obeys(k, m)
  /\ UNCHANGED <<info, events, session, sock, udp, history, inputs>>

ReportStep == /\ Running /\ pc = "report"
              /\ mem' \in Report(Head(todo), mem)
              /\ todo' = Tail(todo) /\ pc' = IF Len(todo) = 1 THEN "freeCloud" ELSE "report"
              /\ UNCHANGED <<held, info, events, session, hasId, sock, udp, history, inputs>>

FreeCloud == /\ Running /\ pc = "freeCloud"
             /\ mem' = Free(mem, held) /\ held' = NULL /\ pc' = "event"
             /\ UNCHANGED <<todo, info, events, session, hasId, sock, udp, history, inputs>>

EJ_Event_Process == NoEvent \/ TakeEvent \/ EJ_App_reboot \/ DeviceStep \/ FreeDevice
                    \/ CloudStep \/ ReportStep \/ FreeCloud

Next == \/ \E k \in Frames, d \in {"none", "full"}, r \in {"plain", "ack", "qos"} : UartReceive(k, d, r)
        \/ \E k \in Messages : EJ_messageArrived(k)
        \/ UartSendThread \/ MQTTSendThread
        \/ \E e \in {"router", "lost", "reApply", "timeSync", "authFailed"} : EJ_PutEventSem(e)
        \/ EJ_Event_Process

Spec == Init /\ [][Next]_vars /\ WF_vars(EJ_Event_Process)

-----------------------------------------------------------------------------
Referenced == (UNION {Range(mem.list[l]) : l \in Lists}) \cup ({held} \ {NULL}) \cup info

(* No two of the lists, mainLoop and the description refer to one block.   *)
OneReference ==
  /\ \A k, l \in Lists : \A i \in DOMAIN mem.list[k], j \in DOMAIN mem.list[l] :
       mem.list[k][i] = mem.list[l][j] => k = l /\ i = j
  /\ \A l \in Lists : Range(mem.list[l]) \cap ({held} \cup info) = {}
  /\ held \notin info

TypeOK ==
  /\ mem.heap \in [Cells -> Blocks \cup {FREE}]
  /\ \A l \in Lists : mem.list[l] \in Seq(Cells) /\ Len(mem.list[l]) <= Cap(l)
  /\ mem.fault \in {"none", "freed", "null", "stack", "unsized"} /\ mem.oom \in BOOLEAN
  /\ mem.refused \subseteq {"packet", "events"} /\ inputs \in 0..Inputs
  /\ pc \in {"event", "device", "freeDevice", "cloud", "report", "freeCloud", "restart", "down"}
  /\ held \in Cells \cup {NULL} /\ info \subseteq Cells
  /\ Len(todo) <= 4 /\ Len(events) <= QueueCap
  /\ {session, hasId, udp} \subseteq BOOLEAN
  /\ sock.open \subseteq 1..Sockets /\ history \subseteq {"baud", "restart", "option"}

(* No block is used after it was freed: while no allocation has failed and *)
(* no new speed of the serial line was asked for, whatever a list, mainLoop*)
(* or the description of the appliance refers to is allocated, and only    *)
(* one of them refers to it (ej_packet.c EJ_PacketUartFree and its callers)*)
MemorySafe ==
  mem.oom \/ "baud" \in history \/
  /\ mem.fault \notin {"freed", "null"}
  /\ \A c \in Referenced : mem.heap[c] # FREE
  /\ OneReference

(* No packet is forgotten: a block that nothing refers to is some text, an *)
(* acknowledgement nobody waited for, or a packet whose data, or the packet*)
(* it was to become, could not be allocated, or a list that is pushed to   *)
(* without looking at the result was full.  What the appliance sends for   *)
(* the cloud and what the cloud sends is never forgotten because of a full *)
(* list.                                                                   *)
NoLeak ==
  \/ mem.oom \/ "baud" \in history \/ "packet" \in mem.refused
  \/ mem.fault # "none"
  \/ \A c \in Cells : \/ mem.heap[c] = FREE \/ c \in Referenced
                       \/ mem.heap[c].kind \in {"text", "ack"}

(* EJ_init_udpbroadcast closes what it opened when a later step fails: the *)
(* open sockets are those of rxsock and txsock, and all of them, however   *)
(* often the UDP service was started and stopped, unless an option could   *)
(* not be set.                                                             *)
SocketsKept == "option" \in history \/ sock.open = {sock.rx, sock.tx} \ {NULL}

(* A restart, a factory reset or a new configuration the appliance asked   *)
(* for (ej_cmd_uart.c EJ_PutEventSem) restarts the module in the end; the  *)
(* one way it is lost is an event queue that was full.                     *)
Obeyed == "restart" \in history ~>
            (pc = "down" \/ mem.fault # "none" \/ "events" \in mem.refused)
=============================================================================
