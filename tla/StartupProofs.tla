--------------------------- MODULE StartupProofs ---------------------------
(***************************************************************************)
(* What TLAPS proves of the start of the module, for every set of boards,  *)
(* every number of tries, of faults and of presses, and every size of the  *)
(* queues: its variables have their types, and a module that runs knows    *)
(* the ID of its own appliance or none, but for the windows torn names.    *)
(***************************************************************************)
EXTENDS Startup, SequenceTheorems, TLAPS

-----------------------------------------------------------------------------
(* The inductive invariant, in parts. *)

Packets == Boards \cup {"qos", "reset"}
Events == {"home", "reset", "reApply"}

(* The module counts its reads only once mainLoop runs. *)
Typed == /\ TypeOK
         /\ inbox \in Seq(Packets) /\ events \in Seq(Events)
         /\ readCount \in Nat /\ faults \in Nat
         /\ mode \in {"boot", "early", "wait"} => readCount = 0

(* A new UUID in VERIFY_DEVICEUUID is on its way to the reboot. *)
Passing == mode = "uuid" /\ pc \notin {"turn", "storeDid"}

(* What a restart finds in flash belongs together, except while the ID is  *)
(* to be cleared; and so does what is in RAM, which is what is in flash,   *)
(* except while a new UUID is to be stored or the module is to be rebooted.*)
Own == \/ torn
       \/ /\ pc = "clearDid" \/ nvDid \in {NULL, nvUuid}
          /\ Passing \/ did \in {NULL, uuid}
          /\ Passing \/ pc = "storeUuid" \/ uuid = nvUuid

-----------------------------------------------------------------------------
(* Helpers of the actions. *)

(* Only QUERY_QOS is left because of a packet, and only for the next state.*)
LEMMA NextModeValue ==
  ASSUME NEW p, NEW m \in NextMode(p)
  PROVE  m = mode \/ (mode = "qos" /\ m = "uuid")
BY DEF NextMode

(* A packet that is received, or an event that is put, has the type of the *)
(* others, and there is never more than the list or the queue has room for.*)
LEMMA ReceiveType ==
  ASSUME NEW packet \in Packets, Receive(packet), inbox \in Seq(Packets), Len(inbox) <= ListCap
  PROVE  inbox' \in Seq(Packets) /\ Len(inbox') <= ListCap
<1>1. ListCap \in Nat /\ Len(inbox) \in Nat
  BY StartupAssumption
<1>2. CASE Len(inbox) < ListCap
  <2>1. inbox' = Append(inbox, packet)
    BY <1>2 DEF Receive
  <2> QED
    BY <1>1, <1>2, <2>1, AppendProperties
<1> QED
  BY <1>2 DEF Receive

(* The event queue keeps within its capacity.                              *)
LEMMA PutType ==
  ASSUME NEW e \in Events, Put(e), events \in Seq(Events), Len(events) <= QueueCap
  PROVE  events' \in Seq(Events) /\ Len(events') <= QueueCap
<1>1. QueueCap \in Nat /\ Len(events) \in Nat
  BY StartupAssumption
<1>2. CASE Len(events) < QueueCap
  <2>1. events' = Append(events, e)
    BY <1>2 DEF Put
  <2> QED
    BY <1>1, <1>2, <2>1, AppendProperties
<1> QED
  BY <1>2 DEF Put

(* Taking a packet or an event leaves the others. *)
LEMMA TakenType ==
  ASSUME NEW S, NEW s \in Seq(S), s # << >>, NEW n \in Nat, Len(s) <= n
  PROVE  Head(s) \in S /\ Tail(s) \in Seq(S) /\ Len(Tail(s)) <= n
BY HeadTailProperties

(* Asking keeps the number of questions within its bound. *)
LEMMA AskType ==
  ASSUME NEW kind \in {"qos", "uuid"}, Ask(kind), asked \in [{"qos", "uuid"} -> 0 .. MaxAsked]
  PROVE  asked' \in [{"qos", "uuid"} -> 0 .. MaxAsked]
<1>1. MaxAsked \in Nat
  BY StartupAssumption
<1>2. (IF asked[kind] < MaxAsked THEN asked[kind] + 1 ELSE asked[kind]) \in 0 .. MaxAsked
  BY <1>1
<1> QED
  BY <1>2 DEF Ask

-----------------------------------------------------------------------------
(* An ID is never known under another appliance's UUID. *)

(* At the start nothing is known of the appliance.                         *)
LEMMA OwnInit == Init => Own
BY DEF Init, Own

(* A step within a state of mainLoop, or between two turns, that keeps     *)
(* what is known of the appliance.                                         *)
LEMMA OwnSame ==
  ASSUME Own, UNCHANGED <<nvUuid, nvDid, uuid, did, pc, torn>>,
         mode' = mode \/ pc = "turn" \/ "uuid" \notin {mode, mode'}
  PROVE  Own'
BY DEF Own, Passing

(* RAM is filled from flash.                                               *)
LEMMA OwnRestart ==
  ASSUME Own, Restart, torn => torn', pc = "clearDid" /\ nvDid # NULL => torn'
  PROVE  Own'
BY DEF Own, Passing, Restart, flash

(* The steps that touch neither the ID nor the UUID.                       *)
LEMMA OwnOther ==
  ASSUME Own,
         \/ InitComplete \/ ReadConfigured \/ InitMainLoop \/ TakeQos \/ TakeReset
         \/ TakeSameUuid \/ AskQos \/ AskUuid \/ TakeHome \/ TakeReApply \/ Connect
         \/ AtTaskTimer \/ UserPressesReset \/ NetworkChosen \/ IpReady \/ Disconnect
         \/ Granted \/ NotGranted \/ \E kind \in {"qos", "uuid"} : Answer(kind) \/ LineLoses(kind)
  PROVE  Own'
<1> USE DEF flash, identity, history, mainLoop
<1>1. CASE InitComplete \/ ReadConfigured \/ InitMainLoop
  BY <1>1, OwnSame DEF InitComplete, ReadConfigured, InitMainLoop
<1>2. CASE TakeQos \/ TakeReset \/ TakeSameUuid
  BY <1>2, OwnSame DEF TakeQos, TakeReset, TakeSameUuid, Running
<1>3. CASE AskQos \/ AskUuid
  BY <1>3, OwnSame DEF AskQos, AskUuid, Running
<1>4. CASE TakeHome \/ TakeReApply \/ Connect
  BY <1>4, OwnSame DEF TakeHome, TakeReApply, Connect
<1>5. CASE AtTaskTimer \/ UserPressesReset \/ NetworkChosen \/ IpReady
  BY <1>5, OwnSame DEF AtTaskTimer, UserPressesReset, NetworkChosen, IpReady
<1>6. CASE Disconnect \/ Granted \/ NotGranted
  BY <1>6, OwnSame DEF Disconnect, Granted, NotGranted
<1>7. CASE \E kind \in {"qos", "uuid"} : Answer(kind) \/ LineLoses(kind)
  BY <1>7, OwnSame DEF Answer, LineLoses
<1> QED
  BY <1>1, <1>2, <1>3, <1>4, <1>5, <1>6, <1>7

(* Every step keeps an ID with the UUID it was given for.                  *)
LEMMA OwnNext == faults \in Nat /\ Own /\ [Next]_vars => Own'
<1> SUFFICES ASSUME faults \in Nat, Own, [Next]_vars PROVE Own'
  OBVIOUS
<1>1. CASE TakeNewUuid
  BY <1>1 DEF TakeNewUuid, Running, Own, Passing, flash
<1>2. CASE StoreUuid
  BY <1>2 DEF StoreUuid, Own, Passing, identity
<1>3. CASE ClearDid
  <2>1. mode' = mode \/ (mode = "qos" /\ mode' = "uuid")
    BY <1>3, NextModeValue DEF ClearDid, Goes
  <2>2. nvDid' = NULL \/ (nvDid' = nvDid /\ faults' # faults)
    BY <1>3 DEF ClearDid, Written
  <2> QED
    BY <1>3, <2>1, <2>2 DEF ClearDid, Own, Passing, identity
<1>4. CASE Unconfigure
  <2>1. pc = "unconfigure" /\ pc' = "reboot" /\ torn' = torn
        /\ UNCHANGED <<nvUuid, nvDid, mode, uuid, did>>
    BY <1>4 DEF Unconfigure, identity, history
  <2> QED
    BY <2>1 DEF Own, Passing
<1>5. CASE Reboot
  BY <1>5, OwnRestart DEF Reboot, history
<1>6. CASE TakeResetEvent
  BY <1>6 DEF TakeResetEvent, Event, Normal, Running, Own, Passing, flash, identity
<1>7. CASE TakeReply
  BY <1>7 DEF TakeReply, Normal, Running, Own, Passing, flash, history
<1>8. CASE StoreDid
  BY <1>8 DEF StoreDid, Written, Own, Passing, identity
<1>9. CASE PowerCut
  BY <1>9, OwnRestart DEF PowerCut, Cut
<1>10. CASE ModuleReset
  BY <1>10, OwnRestart DEF ModuleReset, Cut
<1>11. CASE UNCHANGED vars
  BY <1>11, OwnSame DEF vars, flash, identity, history
<1> QED
  BY <1>1, <1>2, <1>3, <1>4, <1>5, <1>6, <1>7, <1>8, <1>9, <1>10, <1>11, OwnOther
     DEF Next, MainLoop, TakeEvent, Environment

-----------------------------------------------------------------------------
(* The types. *)

(* At the start every variable has its type.                               *)
LEMMA TypedInit == Init => Typed
<1> SUFFICES ASSUME Init PROVE Typed
  OBVIOUS
<1>1. asked \in [{"qos", "uuid"} -> 0 .. MaxAsked]
  BY StartupAssumption DEF Init
<1>2. inbox \in Seq(Packets) /\ Len(inbox) <= ListCap /\ events \in Seq(Events)
      /\ Len(events) <= QueueCap
  BY StartupAssumption DEF Init
<1>3. 0 < UuidTries
  BY StartupAssumption
<1> QED
  BY <1>1, <1>2, <1>3 DEF Init, Typed, TypeOK

(* Every step keeps the types.                                             *)
LEMMA TypedNext == Typed /\ [Next]_vars => Typed'
<1> SUFFICES ASSUME Typed, [Next]_vars PROVE Typed'
  OBVIOUS
<1> USE DEF Typed, TypeOK, flash, appliance, identity, cloud, bounds, history, mainLoop
<1>0. /\ QosTries \in Nat /\ QosTries > 0 /\ UuidTries \in Nat /\ UuidTries > 0
      /\ ListCap \in Nat /\ QueueCap \in Nat /\ MaxAsked \in Nat /\ MaxAsked > 0
  BY StartupAssumption
<1>1. CASE InitComplete
  BY <1>1 DEF InitComplete
<1>2. CASE ReadConfigured
  BY <1>2 DEF ReadConfigured
<1>3. CASE InitMainLoop
  <2>1. events' \in Seq(Events) /\ Len(events') <= QueueCap
    BY <1>3, PutType DEF InitMainLoop, Events
  <2> QED
    BY <1>0, <1>3, <2>1 DEF InitMainLoop
<1>4. CASE TakeQos
  <2>1. inbox' \in Seq(Packets) /\ Len(inbox') <= ListCap
    BY <1>0, <1>4, TakenType DEF TakeQos
  <2>2. mode' = mode \/ (mode = "qos" /\ mode' = "uuid")
    BY <1>4, NextModeValue DEF TakeQos, Goes
  <2> QED
    BY <1>0, <1>4, <2>1, <2>2 DEF TakeQos, Running, Goes
<1>5. CASE TakeReset
  <2>1. inbox' \in Seq(Packets) /\ Len(inbox') <= ListCap
    BY <1>0, <1>5, TakenType DEF TakeReset
  <2>2. mode' = mode \/ (mode = "qos" /\ mode' = "uuid")
    BY <1>5, NextModeValue DEF TakeReset, Goes
  <2>3. events' \in Seq(Events) /\ Len(events') <= QueueCap
    BY <1>5, PutType DEF TakeReset, Events
  <2> QED
    BY <1>0, <1>5, <2>1, <2>2, <2>3 DEF TakeReset, Running, Goes
<1>6. CASE TakeSameUuid
  <2>1. inbox' \in Seq(Packets) /\ Len(inbox') <= ListCap
    BY <1>0, <1>6, TakenType DEF TakeSameUuid
  <2>2. CASE mode = "uuid"
    BY <1>0, <1>6, <2>1, <2>2 DEF TakeSameUuid, Running, Goes
  <2>3. CASE mode # "uuid"
    <3>1. mode' = mode \/ (mode = "qos" /\ mode' = "uuid")
      BY <1>6, <2>3, NextModeValue DEF TakeSameUuid, Goes
    <3> QED
      BY <1>0, <1>6, <2>1, <2>3, <3>1 DEF TakeSameUuid, Running, Goes
  <2> QED
    BY <2>2, <2>3
<1>7. CASE TakeNewUuid
  <2>1. inbox' \in Seq(Packets) /\ Len(inbox') <= ListCap /\ uuid' \in Boards
    BY <1>0, <1>7, TakenType DEF TakeNewUuid
  <2>2. {wantConfig, torn}' \subseteq BOOLEAN
    BY <1>7 DEF TakeNewUuid
  <2> QED
    BY <1>7, <2>1, <2>2 DEF TakeNewUuid
<1>8. CASE StoreUuid
  <2>1. nvUuid' \in Boards \cup {NULL} /\ faults' \in Nat
    BY <1>8 DEF StoreUuid, Written
  <2>2. torn' \in BOOLEAN
    BY <1>8 DEF StoreUuid
  <2> QED
    BY <1>8, <2>1, <2>2 DEF StoreUuid
<1>9. CASE ClearDid
  <2>1. nvDid' \in Boards \cup {NULL} /\ faults' \in Nat
    BY <1>9 DEF ClearDid, Written
  <2>2. torn' \in BOOLEAN
    BY <1>9 DEF ClearDid
  <2>3. mode' = mode \/ (mode = "qos" /\ mode' = "uuid")
    BY <1>9, NextModeValue DEF ClearDid, Goes
  <2>4. readCount' = IF mode = "qos" /\ mode' = "uuid" THEN 0 ELSE readCount
    BY <1>9 DEF ClearDid, Goes
  <2>5. pc' \in {"unconfigure", "turn"}
        /\ UNCHANGED <<nvUuid, configured, profile, appliance, identity, isHomeAPConfig,
                       inbox, events, configuring, cloud, atTaskTimer, presses, wantConfig>>
    BY <1>9 DEF ClearDid
  <2> QED
    BY <1>0, <2>1, <2>2, <2>3, <2>4, <2>5
<1>10. CASE Unconfigure
  <2>1. configured' \in BOOLEAN
    <3>1. configured' = FALSE \/ configured' = configured
      BY <1>10 DEF Unconfigure, Written
    <3> QED
      BY <3>1
  <2>2. faults' \in Nat
    <3>1. faults' = faults \/ faults' = faults + 1
      BY <1>10, Zenon DEF Unconfigure, Written
    <3> QED
      BY <3>1
  <2> QED
    BY <1>10, <2>1, <2>2 DEF Unconfigure
<1>11. ASSUME Restart, board' \in Boards, asked' \in [{"qos", "uuid"} -> 0 .. MaxAsked],
              faults' \in Nat, {wantConfig, torn}' \subseteq BOOLEAN
       PROVE  Typed'
  <2>1. inbox' \in Seq(Packets) /\ Len(inbox') <= ListCap
        /\ events' \in Seq(Events) /\ Len(events') <= QueueCap
    BY <1>0, <1>11 DEF Restart
  <2> QED
    BY <1>0, <1>11, <2>1 DEF Restart
<1>12. CASE Reboot
  BY <1>11, <1>12, AskType DEF Reboot
<1>13. CASE AskQos
  <2>1. CASE mode' = "dead" /\ UNCHANGED <<readCount, asked>>
    BY <1>13, <2>1 DEF AskQos
  <2>2. CASE Ask("qos") /\ readCount + 1 >= QosTries /\ mode' = "uuid" /\ readCount' = 0
    BY <1>0, <1>13, <2>2, AskType DEF AskQos
  <2>3. CASE Ask("qos") /\ ~ readCount + 1 >= QosTries /\ readCount' = readCount + 1
             /\ UNCHANGED mode
    BY <1>0, <1>13, <2>3, AskType DEF AskQos
  <2> QED
    BY <1>13, <2>1, <2>2, <2>3 DEF AskQos
<1>14. CASE AskUuid
  <2>1. CASE mode' = "dead" /\ UNCHANGED <<readCount, asked>>
    BY <1>14, <2>1 DEF AskUuid
  <2>2. CASE Ask("uuid") /\ UNCHANGED mode
             /\ readCount' = IF readCount + 1 >= UuidTries THEN 0 ELSE readCount + 1
    BY <1>0, <1>14, <2>2, AskType DEF AskUuid
  <2> QED
    BY <1>14, <2>1, <2>2 DEF AskUuid
<1>15. ASSUME NEW e \in Events, Event(e)
       PROVE  events' \in Seq(Events) /\ Len(events') <= QueueCap
  BY <1>0, <1>15, TakenType DEF Event
<1>16. CASE TakeHome
  BY <1>15, <1>16 DEF TakeHome, Events
<1>17. CASE TakeResetEvent
  BY <1>15, <1>17 DEF TakeResetEvent, Events
<1>18. CASE TakeReApply
  BY <1>15, <1>18 DEF TakeReApply, Apply, Events
<1>19. CASE Connect
  BY <1>19 DEF Connect, Apply
<1>20. CASE TakeReply
  BY <1>20 DEF TakeReply
<1>21. CASE StoreDid
  <2>1. nvDid' \in Boards \cup {NULL} /\ faults' \in Nat
    BY <1>21 DEF StoreDid, Written
  <2>2. torn' \in BOOLEAN
    BY <1>21 DEF StoreDid
  <2> QED
    BY <1>21, <2>1, <2>2 DEF StoreDid
<1>22. CASE AtTaskTimer
  <2>1. events' \in Seq(Events) /\ Len(events') <= QueueCap
    BY <1>22, PutType DEF AtTaskTimer, Events
  <2> QED
    BY <1>22, <2>1 DEF AtTaskTimer
<1>23. CASE UserPressesReset
  <2>1. inbox' \in Seq(Packets) /\ Len(inbox') <= ListCap
    BY <1>23, ReceiveType DEF UserPressesReset, Packets
  <2> QED
    BY <1>23, <2>1 DEF UserPressesReset
<1>24. CASE NetworkChosen \/ IpReady \/ Disconnect \/ Granted \/ NotGranted
  BY <1>24 DEF NetworkChosen, IpReady, Disconnect, Granted, NotGranted
<1>25. CASE PowerCut
  <2>1. asked' \in [{"qos", "uuid"} -> 0 .. MaxAsked]
    BY <1>0, <1>25 DEF PowerCut
  <2> QED
    BY <1>11, <1>25, <2>1 DEF PowerCut, Cut
<1>26. CASE ModuleReset
  BY <1>11, <1>26, AskType DEF ModuleReset, Cut
<1>27. ASSUME NEW kind \in {"qos", "uuid"}, Answer(kind) \/ LineLoses(kind) PROVE Typed'
  <2>1. asked' \in [{"qos", "uuid"} -> 0 .. MaxAsked]
    BY <1>0, <1>27 DEF Answer, LineLoses
  <2>2. CASE Answer(kind)
    <3>1. (IF kind = "qos" THEN "qos" ELSE board) \in Packets
      BY DEF Packets
    <3>2. inbox' \in Seq(Packets) /\ Len(inbox') <= ListCap
      BY <2>2, <3>1, ReceiveType DEF Answer
    <3> QED
      BY <2>1, <2>2, <3>2 DEF Answer
  <2>3. CASE LineLoses(kind)
    BY <2>1, <2>3 DEF LineLoses
  <2> QED
    BY <1>27, <2>2, <2>3
<1>28. CASE UNCHANGED vars
  BY <1>28 DEF vars
<1> QED
  BY <1>1, <1>2, <1>3, <1>4, <1>5, <1>6, <1>7, <1>8, <1>9, <1>10, <1>12, <1>13, <1>14, <1>16,
     <1>17, <1>18, <1>19, <1>20, <1>21, <1>22, <1>23, <1>24, <1>25, <1>26, <1>27, <1>28
     DEF Next, MainLoop, TakeEvent, Environment

-----------------------------------------------------------------------------
(* The theorems. *)

(* The invariant holds in every reachable state.                           *)
LEMMA Invariance == Spec => [](Typed /\ Own)
<1>1. Init => Typed /\ Own
  BY TypedInit, OwnInit
<1>2. Typed /\ Own /\ [Next]_vars => (Typed /\ Own)'
  <2>1. Typed => faults \in Nat
    BY DEF Typed
  <2> QED
    BY <2>1, TypedNext, OwnNext
<1> QED
  BY <1>1, <1>2, PTL DEF Spec

(* The variables of the start have their types; readCount stays below the  *)
(* number of tries of the state it counts in (ej_main.c mainLoop).         *)
THEOREM TypeCorrect == Spec => []TypeOK
<1>1. Typed => TypeOK
  BY DEF Typed
<1> QED
  BY <1>1, Invariance, PTL

(* A module in its normal state knows the ID of the appliance it talks to, *)
(* or none, however often the power is cut, a write fails or a board is    *)
(* swapped, but for the windows torn names (ej_main.c mainLoop,            *)
(* WifiModuleStatus.c storeDeviceInfoDeviceid).                            *)
THEOREM OwnIdKept == Spec => []OwnId
<1>1. Own => OwnId
  BY DEF Own, Passing, OwnId
<1> QED
  BY <1>1, Invariance, PTL
=============================================================================
