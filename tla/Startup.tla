------------------------------ MODULE Startup ------------------------------
(***************************************************************************)
(* How the module starts and which appliance it belongs to: the start-up   *)
(* states of mainLoop (src/ejcloud/ej_main.c), the appliance's UUID, the   *)
(* device ID the cloud gives and the configured flag, in RAM and in flash  *)
(* (WifiModuleStatus.c, ej_wificonfig.c), and the timer that applies for   *)
(* the ID again.  Power may be cut and the module reset between any two    *)
(* writes to flash; meanwhile the appliance answers late or not at all,    *)
(* the TCP/IP thread writes the configured flag and the cloud replies.     *)
(***************************************************************************)
EXTENDS Naturals, Sequences, SequencesExt

CONSTANTS NULL,
          Boards,      \* UUIDs of the appliance boards: text, six bytes that are not 0
          QosTries,    \* turns without an answer before QoS level 0 is taken (10)
          UuidTries,   \* reads of the UUID before the UART is restarted (3)
          MaxFaults,   \* bound: power cuts, resets and failed writes to flash
          MaxPresses,  \* bound: how often the user asks for a factory reset
          MaxAsked,    \* bound: requests of one kind the board has not answered
          ListCap,     \* packets device2wifiList holds (9 in the code)
          QueueCap,    \* events ejEventQueue holds (10 in the code)
          HeapFails,   \* TRUE: malloc may fail
          Reused       \* TRUE: freed memory may be reused before it is read

ASSUME StartupAssumption ==
  /\ {QosTries, UuidTries, ListCap, QueueCap, MaxAsked} \subseteq Nat \ {0}
  /\ {MaxFaults, MaxPresses} \subseteq Nat
  /\ {HeapFails, Reused} \subseteq BOOLEAN
  /\ NULL \notin Boards

VARIABLES nvUuid, nvDid,       \* in flash: "UUID" and "Deviceid"
          configured, profile, \* in flash: "SmartConfig", and a network to join
          board, asked,        \* the appliance, and what it has been asked
          mode,                \* wifimoduleRunningStatus once mainLoop runs
          pc,                  \* where mainLoop is in a turn of its loop
          readCount,
          uuid, did,           \* in RAM; an ID is named by the UUID it came under
          isHomeAPConfig,      \* read from flash once, at boot
          inbox,               \* device2wifiList
          events,              \* ejEventQueue: "home", "reset", "reApply"
          configuring,         \* smart connect was started
          connected, request, reply, \* the session, and the application for an ID
          atTaskTimer,         \* "none", "off" or "on"
          faults, presses,     \* bounded counters of the environment
          wantConfig, torn     \* history, see below

(* History: a new appliance, or the user, asked for a new configuration    *)
(* that no start has entered; an ID outlived its appliance because a write *)
(* to flash was cut off, or because the UUID came when mainLoop does not   *)
(* look at what its handler returns: it has an ID already, or the UUID is  *)
(* not in flash and the next ID will be.                                   *)
flash == <<nvUuid, nvDid, configured, profile>>
appliance == <<board, asked>>
identity == <<uuid, did>>
cloud == <<connected, request, reply>>
bounds == <<faults, presses>>
history == <<wantConfig, torn>>
vars == <<flash, appliance, mode, pc, readCount, identity, isHomeAPConfig, inbox, events,
          configuring, cloud, atTaskTimer, bounds, history>>

Ask(kind) == asked' = [asked EXCEPT ![kind] = IF @ < MaxAsked THEN @ + 1 ELSE @]
Put(e) == events' = IF Len(events) < QueueCap THEN Append(events, e) ELSE events

(* EJ_Iot_Init, after whatever restarted the module: RAM is filled from    *)
(* flash and the first readDeviceQos is sent.                              *)
Restart ==
  /\ mode' = "boot" /\ pc' = "turn" /\ readCount' = 0
  /\ uuid' = nvUuid /\ did' = nvDid
  /\ inbox' = << >> /\ events' = << >> /\ configuring' = FALSE
  /\ connected' = FALSE /\ request' = FALSE /\ reply' = FALSE
  /\ atTaskTimer' = "none"
  /\ UNCHANGED <<flash, isHomeAPConfig>>

Init == /\ nvUuid = NULL /\ nvDid = NULL /\ configured = FALSE /\ profile = FALSE
        /\ board \in Boards /\ asked = [qos |-> 1, uuid |-> 0]
        /\ mode = "boot" /\ pc = "turn" /\ readCount = 0
        /\ uuid = NULL /\ did = NULL /\ isHomeAPConfig = FALSE
        /\ inbox = << >> /\ events = << >> /\ configuring = FALSE
        /\ connected = FALSE /\ request = FALSE /\ reply = FALSE
        /\ atTaskTimer = "none"
        /\ faults = 0 /\ presses = 0 /\ wantConfig = FALSE /\ torn = FALSE

-----------------------------------------------------------------------------
(* The Wi-Fi stack is up before the platform task ran: EJ_Send_IotEvent    *)
(* makes the queue it puts the event in.                                   *)
InitComplete ==
  /\ mode = "boot" /\ mode' = "early"
  /\ UNCHANGED <<flash, appliance, pc, readCount, identity, isHomeAPConfig, inbox, events,
                 configuring, cloud, atTaskTimer, bounds, history>>

(* user_wifi_app_entry makes a queue, whether there is one or not, and     *)
(* reads the configured flag; once the Wi-Fi stack is up, initMainLoop     *)
(* announces a module that is not configured and starts mainLoop.  An      *)
(* event that was there before is gone, and no other comes.                *)
ReadConfigured ==
  /\ mode \in {"boot", "early"}
  /\ isHomeAPConfig' = configured
  /\ mode' = IF mode = "boot" THEN "wait" ELSE "stopped"
  /\ wantConfig' = (wantConfig /\ configured)
  /\ UNCHANGED <<flash, appliance, pc, readCount, identity, inbox, events, configuring,
                 cloud, atTaskTimer, bounds, torn>>

InitMainLoop ==
  /\ mode = "wait"
  /\ IF isHomeAPConfig THEN UNCHANGED events ELSE Put("home")
  /\ mode' = "qos"
  /\ UNCHANGED <<flash, appliance, pc, readCount, identity, isHomeAPConfig, inbox,
                 configuring, cloud, atTaskTimer, bounds, history>>

-----------------------------------------------------------------------------
(* mainLoop: a packet of the appliance.  Its handler runs, the packet is   *)
(* freed, and in QUERY_QOS its type is read after that.                    *)
Running == mode \in {"qos", "uuid", "normal"} /\ pc = "turn"

Seen(packet) == {packet = "qos"} \cup (IF Reused THEN BOOLEAN ELSE {})
NextMode(packet) == IF mode = "qos"
                    THEN {IF seen THEN "uuid" ELSE "qos" : seen \in Seen(packet)}
                    ELSE {mode}
Goes(m) == /\ mode' = m
           /\ readCount' = IF mode = "qos" /\ m = "uuid" THEN 0 ELSE readCount

TakeQos == /\ Running /\ inbox # << >> /\ Head(inbox) = "qos"
           /\ inbox' = Tail(inbox)
           /\ \E m \in NextMode("qos") : Goes(m)
           /\ UNCHANGED <<flash, appliance, pc, identity, isHomeAPConfig, events,
                          configuring, cloud, atTaskTimer, bounds, history>>

TakeReset == /\ Running /\ inbox # << >> /\ Head(inbox) = "reset"
             /\ inbox' = Tail(inbox)
             /\ Put("reset")
             /\ \E m \in NextMode("reset") : Goes(m)
             /\ UNCHANGED <<flash, appliance, pc, identity, isHomeAPConfig, configuring,
                            cloud, atTaskTimer, bounds, history>>

(* The UUID the module knows: its start-up is over, unless the next        *)
(* request cannot be allocated, for then mainLoop returns for good.        *)
TakeSameUuid ==
  /\ Running /\ inbox # << >> /\ Head(inbox) = uuid
  /\ inbox' = Tail(inbox)
  /\ \/ mode = "uuid" /\ mode' = "normal" /\ UNCHANGED readCount
     \/ mode = "uuid" /\ HeapFails /\ mode' = "dead" /\ UNCHANGED readCount
     \/ mode # "uuid" /\ \E m \in NextMode(uuid) : Goes(m)
  /\ UNCHANGED <<flash, appliance, pc, identity, isHomeAPConfig, events, configuring,
                 cloud, atTaskTimer, bounds, history>>

(* Another UUID is kept in RAM and in flash, and the ID in flash is        *)
(* cleared.  Only in VERIFY_DEVICEUUID is the module then told to          *)
(* configure itself again and rebooted.                                    *)
TakeNewUuid ==
  /\ Running /\ inbox # << >> /\ Head(inbox) \in Boards \ {uuid}
  /\ inbox' = Tail(inbox)
  /\ uuid' = Head(inbox)
  /\ pc' = "storeUuid"
  /\ wantConfig' = (wantConfig \/ mode = "uuid")
  /\ torn' = (torn \/ (mode # "uuid" /\ did # NULL))
  /\ UNCHANGED <<flash, appliance, mode, readCount, did, isHomeAPConfig, events,
                 configuring, cloud, atTaskTimer, bounds>>

(* A write to flash takes effect, or fails and nobody looks.               *)
Written(item, value) == \/ item' = value /\ UNCHANGED faults
                        \/ /\ faults < MaxFaults /\ faults' = faults + 1
                           /\ UNCHANGED item

(* A mistake: the UUID is kept in RAM only. *)
StoreUuidNot == /\ pc = "storeUuid"
                /\ pc' = "clearDid"
                /\ UNCHANGED <<flash, appliance, mode, readCount, identity, isHomeAPConfig,
                               inbox, events, configuring, cloud, atTaskTimer, bounds, history>>

StoreUuid == /\ pc = "storeUuid"
             /\ Written(nvUuid, uuid)
             /\ torn' = (torn \/ (mode # "uuid" /\ nvUuid' # uuid))
             /\ pc' = "clearDid"
             /\ UNCHANGED <<nvDid, configured, profile, appliance, mode, readCount, identity,
                            isHomeAPConfig, inbox, events, configuring, cloud, atTaskTimer,
                            presses, wantConfig>>

(* A mistake: the ID is left in flash. *)
ClearDidNot == /\ pc = "clearDid"
               /\ pc' = IF mode = "uuid" THEN "unconfigure" ELSE "turn"
               /\ \E m \in NextMode(uuid) : Goes(m)
               /\ UNCHANGED <<flash, appliance, identity, isHomeAPConfig, inbox, events,
                              configuring, cloud, atTaskTimer, bounds, history>>

ClearDid == /\ pc = "clearDid"
            /\ Written(nvDid, NULL)
            /\ torn' = (torn \/ (faults' # faults /\ nvDid # NULL))
            /\ pc' = IF mode = "uuid" THEN "unconfigure" ELSE "turn"
            /\ \E m \in NextMode(uuid) : Goes(m)
            /\ UNCHANGED <<nvUuid, configured, profile, appliance, identity, isHomeAPConfig,
                           inbox, events, configuring, cloud, atTaskTimer, presses, wantConfig>>

(* EJ_App_network_configured(0), and the reboot that follows it.           *)
Unconfigure == /\ pc = "unconfigure"
               /\ Written(configured, FALSE)
               /\ pc' = "reboot"
               /\ UNCHANGED <<nvUuid, nvDid, profile, appliance, mode, readCount, identity,
                              isHomeAPConfig, inbox, events, configuring, cloud, atTaskTimer,
                              presses, history>>

Reboot == /\ pc = "reboot"
          /\ Restart
          /\ Ask("qos") /\ UNCHANGED <<board, bounds, history>>

(* An empty list: the question is asked, once more or for the last time.   *)
AskQos ==
  /\ Running /\ mode = "qos" /\ inbox = << >>
  /\ \/ HeapFails /\ mode' = "dead" /\ UNCHANGED <<readCount, asked>>
     \/ /\ Ask("qos")
        /\ IF readCount + 1 >= QosTries THEN mode' = "uuid" /\ readCount' = 0
                                        ELSE readCount' = readCount + 1 /\ UNCHANGED mode
  /\ UNCHANGED <<flash, board, pc, identity, isHomeAPConfig, inbox, events, configuring,
                 cloud, atTaskTimer, bounds, history>>

(* A mistake: the count of reads goes on when the UART is restarted. *)
AskUuidOn ==
  /\ Running /\ mode = "uuid" /\ inbox = << >>
  /\ Ask("uuid") /\ readCount' = readCount + 1
  /\ UNCHANGED <<flash, board, mode, pc, identity, isHomeAPConfig, inbox, events,
                 configuring, cloud, atTaskTimer, bounds, history>>

AskUuid ==
  /\ Running /\ mode = "uuid" /\ inbox = << >>
  /\ \/ HeapFails /\ mode' = "dead" /\ UNCHANGED <<readCount, asked>>
     \/ /\ Ask("uuid")
        /\ readCount' = IF readCount + 1 >= UuidTries THEN 0 ELSE readCount + 1
        /\ UNCHANGED mode
  /\ UNCHANGED <<flash, board, pc, identity, isHomeAPConfig, inbox, events, configuring,
                 cloud, atTaskTimer, bounds, history>>

-----------------------------------------------------------------------------
(* mainLoop in NORMAL_RUNNING: its events, its session, a reply.           *)

Normal == Running /\ mode = "normal"
Event(e) == Normal /\ events # << >> /\ Head(events) = e /\ events' = Tail(events)

TakeHome == /\ Event("home")
            /\ configuring' = TRUE
            /\ UNCHANGED <<flash, appliance, mode, pc, readCount, identity, isHomeAPConfig,
                           inbox, cloud, atTaskTimer, bounds, history>>

TakeResetEvent ==
  /\ Event("reset")
  /\ pc' = "unconfigure"
  /\ wantConfig' = TRUE
  /\ UNCHANGED <<flash, appliance, mode, readCount, identity, isHomeAPConfig, inbox,
                 configuring, cloud, atTaskTimer, bounds, torn>>

(* The application is put in wifi2cloudList, if there is memory and room.  *)
Apply == request' \in {TRUE, request}

TakeReApply ==
  /\ Event("reApply")
  /\ Apply
  /\ UNCHANGED <<flash, appliance, mode, pc, readCount, identity, isHomeAPConfig, inbox,
                 configuring, connected, reply, atTaskTimer, bounds, history>>

(* EJ_event_routerConnectedProcess, once the session is up; without memory *)
(* for the application it returns before the timer is set up.              *)
Connect ==
  /\ Normal /\ ~ connected /\ profile
  /\ connected' = TRUE
  /\ \/ Apply /\ atTaskTimer' = "on"
     \/ HeapFails /\ UNCHANGED <<request, atTaskTimer>>
  /\ UNCHANGED <<flash, appliance, mode, pc, readCount, identity, isHomeAPConfig, inbox,
                 events, configuring, reply, bounds, history>>

(* Process_RequestDeviceIDFromCloudResponseCB.                             *)
TakeReply ==
  /\ Normal /\ reply
  /\ reply' = FALSE
  /\ did' = uuid
  /\ pc' = "storeDid"
  /\ UNCHANGED <<flash, appliance, mode, readCount, uuid, isHomeAPConfig, inbox, events,
                 configuring, connected, request, atTaskTimer, bounds, history>>

StoreDid ==
  /\ pc = "storeDid"
  /\ Written(nvDid, did)
  /\ torn' = (torn \/ (faults' # faults /\ nvDid \notin {NULL, did}))
  /\ pc' = "turn"
  /\ UNCHANGED <<nvUuid, configured, profile, appliance, mode, readCount, identity,
                 isHomeAPConfig, inbox, events, configuring, cloud, atTaskTimer, presses,
                 wantConfig>>

TakeEvent == TakeHome \/ TakeResetEvent \/ TakeReApply

MainLoop == \/ ReadConfigured \/ InitMainLoop
            \/ TakeQos \/ TakeReset \/ TakeSameUuid \/ TakeNewUuid
            \/ StoreUuid \/ ClearDid \/ Unconfigure \/ Reboot
            \/ AskQos \/ AskUuid
            \/ TakeEvent \/ Connect \/ TakeReply \/ StoreDid

-----------------------------------------------------------------------------
(* The timer service, the appliance, the network and the cloud, the power. *)

mainLoop == <<mode, pc, readCount, identity, isHomeAPConfig, configuring>>

(* A mistake: the timer is not started again. *)
AtTaskTimerOnce ==
  /\ atTaskTimer = "on"
  /\ atTaskTimer' = "off"
  /\ IF did = NULL THEN Put("reApply") ELSE UNCHANGED events
  /\ UNCHANGED <<flash, appliance, mainLoop, inbox, cloud, bounds, history>>

(* atTaskTimerCB: as long as there is no ID the timer is started again.    *)
AtTaskTimer ==
  /\ atTaskTimer = "on"
  /\ IF did = NULL
     THEN Put("reApply") /\ UNCHANGED atTaskTimer
     ELSE atTaskTimer' = "off" /\ UNCHANGED events
  /\ UNCHANGED <<flash, appliance, mainLoop, inbox, cloud, bounds, history>>

(* The receive thread passes a packet on if the list has room.             *)
Receive(packet) == inbox' = IF Len(inbox) < ListCap THEN Append(inbox, packet) ELSE inbox

Answer(kind) ==
  /\ asked[kind] > 0
  /\ asked' = [asked EXCEPT ![kind] = @ - 1]
  /\ Receive(IF kind = "qos" THEN "qos" ELSE board)
  /\ UNCHANGED <<flash, board, mainLoop, events, cloud, atTaskTimer, bounds, history>>

LineLoses(kind) ==
  /\ asked[kind] > 0
  /\ asked' = [asked EXCEPT ![kind] = @ - 1]
  /\ UNCHANGED <<flash, board, mainLoop, inbox, events, cloud, atTaskTimer, bounds, history>>

UserPressesReset ==
  /\ presses < MaxPresses
  /\ presses' = presses + 1
  /\ Receive("reset")
  /\ UNCHANGED <<flash, appliance, mainLoop, events, cloud, atTaskTimer, faults, history>>

(* Smart connect gets a network; user_wifi_status_ipready, run by the      *)
(* TCP/IP thread whenever it got an address, which takes longer than the   *)
(* start of the module up to its look at the flag.                         *)
NetworkChosen ==
  /\ configuring /\ ~ profile
  /\ profile' = TRUE
  /\ UNCHANGED <<nvUuid, nvDid, configured, appliance, mainLoop, inbox, events, cloud,
                 atTaskTimer, bounds, history>>

IpReady ==
  /\ profile /\ ~ configured /\ mode \notin {"boot", "early"}
  /\ configured' = TRUE
  /\ UNCHANGED <<nvUuid, nvDid, profile, appliance, mainLoop, inbox, events, cloud,
                 atTaskTimer, bounds, history>>

Disconnect ==
  /\ connected /\ Running
  /\ connected' = FALSE
  /\ UNCHANGED <<flash, appliance, mainLoop, inbox, events, request, reply, atTaskTimer,
                 bounds, history>>

(* The application reaches the cloud and is granted; or it is lost on the  *)
(* way, or refused, which leaves no trace.                                 *)
Granted ==
  /\ connected /\ request
  /\ request' = FALSE /\ reply' = TRUE
  /\ UNCHANGED <<flash, appliance, mainLoop, inbox, events, connected, atTaskTimer, bounds,
                 history>>

NotGranted ==
  /\ connected /\ request
  /\ request' = FALSE
  /\ UNCHANGED <<flash, appliance, mainLoop, inbox, events, connected, reply, atTaskTimer,
                 bounds, history>>

(* The power is cut, and the module may come back on another appliance; or *)
(* the module alone is reset, and finds the answers to its old questions.  *)
Cut == torn' = (torn \/ (pc = "clearDid" /\ nvDid # NULL) \/ (pc = "storeDid" /\ nvDid \notin {NULL, did}))

PowerCut ==
  /\ faults < MaxFaults /\ faults' = faults + 1
  /\ Restart
  /\ board' \in Boards /\ asked' = [qos |-> 1, uuid |-> 0]
  /\ Cut /\ UNCHANGED <<presses, wantConfig>>

ModuleReset ==
  /\ faults < MaxFaults /\ faults' = faults + 1
  /\ Restart
  /\ Ask("qos") /\ UNCHANGED board
  /\ Cut /\ UNCHANGED <<presses, wantConfig>>

Environment == \/ InitComplete \/ AtTaskTimer \/ UserPressesReset \/ NetworkChosen \/ IpReady
               \/ Disconnect \/ Granted \/ NotGranted \/ PowerCut \/ ModuleReset
               \/ \E kind \in {"qos", "uuid"} : Answer(kind) \/ LineLoses(kind)

Next == MainLoop \/ Environment

Spec == Init /\ [][Next]_vars

(* mainLoop is scheduled and takes its events in order, the timer expires, *)
(* a session that is lost comes back, and a line and a cloud that are      *)
(* asked for ever answer in the end.                                       *)
FairSpec == /\ Spec
            /\ WF_vars(MainLoop) /\ SF_vars(TakeEvent) /\ WF_vars(AtTaskTimer)
            /\ SF_vars(Answer("uuid"))
            /\ SF_vars(Connect) /\ SF_vars(Granted) /\ SF_vars(TakeReply)
            /\ SF_vars(TakeReApply /\ request')

-----------------------------------------------------------------------------
TypeOK ==
  /\ {nvUuid, nvDid, uuid, did} \subseteq Boards \cup {NULL}
  /\ {configured, profile, isHomeAPConfig, configuring, connected, request, reply,
      wantConfig, torn} \subseteq BOOLEAN
  /\ board \in Boards /\ asked \in [{"qos", "uuid"} -> 0 .. MaxAsked]
  /\ mode \in {"boot", "early", "wait", "stopped", "qos", "uuid", "normal", "dead"}
  /\ pc \in {"turn", "storeUuid", "clearDid", "unconfigure", "reboot", "storeDid"}
  /\ mode \in {"boot", "uuid", "normal"} => readCount < UuidTries
  /\ mode = "qos" => readCount < QosTries
  /\ Len(inbox) <= ListCap /\ Len(events) <= QueueCap
  /\ atTaskTimer \in {"none", "off", "on"}

(* A module in its normal state knows the ID of the appliance it talks to, *)
(* or none, never the ID of the appliance before: over power cuts between  *)
(* any two writes, writes that fail, and boards that are swapped, but for  *)
(* the windows that torn names.                                            *)
OwnId == mode = "normal" /\ pc = "turn" => did \in {NULL, uuid} \/ torn

(* The start-up ends: the reboot that follows a new UUID does not find the *)
(* UUID new again, and an appliance that answers late, or a late answer to *)
(* the question before, holds nothing up for ever; only mainLoop without   *)
(* memory, or a platform task that was too late for its event, stops.      *)
Settles == <>[](mode \in {"normal", "dead", "stopped"})

(* A module that applied for an ID and did not get it applies again, with  *)
(* the event queue full, no memory for the request, the request refused or *)
(* the session lost on the way, until it has one.                          *)
IdObtained == (atTaskTimer = "on" /\ did = NULL)
                ~> (did # NULL \/ atTaskTimer = "none" \/ mode = "dead")

(* What the log line above the writes of mainLoop says (ej_main.c:594):    *)
(* "prepare to enter wificonfig mode".  The start that follows does.       *)
EntersConfig == mode = "wait" => ~ wantConfig

=============================================================================
