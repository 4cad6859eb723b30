-------------------------- MODULE MqttSessionProofs --------------------------
(***************************************************************************)
(* What TLAPS proves of the session with the broker, for every capacity of *)
(* the event queue and of wifi2cloudList and whatever the Wi-Fi stack, the *)
(* link and the broker do: two threads meet inside the client only if a    *)
(* teardown left one there, the retry that lives in the event queue is     *)
(* never lost, the module reboots at the eighth failed attempt, and, when  *)
(* answers come in time, a healthy link is never reported lost and every   *)
(* message that was acknowledged was delivered, in any number of sessions. *)
(***************************************************************************)
EXTENDS MqttSession, FiniteSetTheorems, SequenceTheorems, TLAPS

-----------------------------------------------------------------------------
(* The inductive invariant, in parts. *)

Kinds == {"router", "lost"}
Wire == Acks \cup Topics
Counts == [m \in {"3S", "10S", "25S"} |-> CASE m = "3S" -> 0 [] m = "10S" -> 4 [] OTHER -> 6]

(* What the variables hold. *)
Queued == events \in Seq(Kinds) /\ Len(events) <= QueueCap
Carried == in \in Seq(Wire) /\ Len(in) <= MaxIn
Scalars ==
  /\ pc \in {"loop", "connect", "CONNACK", "startSend", "startRecv", "disconnect",
             "suspendSend", "suspendRecv", "deinit", "reboot", "halt"} \cup Topics
  /\ {cloudStatus, mutex, wanted, broken, isconnected} \subseteq BOOLEAN
  /\ holder \in Threads \cup {NULL} /\ strays \subseteq Workers
  /\ at \in [Threads -> {"out", "lock", "blocked", "in"}]
  /\ created \subseteq Workers /\ suspended \subseteq Workers
  /\ ret \in {"ok", "FAILURE", "LOST"} /\ link \in {"none", "up", "silent", "reset"}
  /\ handlers \subseteq Topics /\ subs \subseteq Topics
Typed == Queued /\ Carried /\ Scalars

(* mainLoop is inside the client while it waits for an acknowledgement;    *)
(* while it connects there is no session, and before it no mutex.          *)
Connecting == {"CONNACK", "startSend", "startRecv"} \cup Topics
Located ==
  /\ at["main"] \in {"out", "in"} /\ (at["main"] = "in" => pc \in {"CONNACK", "halt"} \cup Topics)
  /\ pc = "CONNACK" => at["main"] = "in"
  /\ pc \in Connecting => mutex
  /\ pc \in Connecting \cup {"connect"} => ~ cloudStatus
  /\ pc = "connect" \/ (pc = "loop" /\ ~ cloudStatus) => ~ mutex

(* A thread inside the client holds the mutex, or is a stray.              *)
Exclusive == /\ ~ mutex => holder = NULL
             /\ holder # NULL => at[holder] = "in"
             /\ \A t \in strays : at[t] = "in"
             /\ \A t \in Threads : at[t] = "in" /\ t \notin strays => holder = t

(* The receive thread runs in a session only, so that while mainLoop is    *)
(* between two attempts nobody fills the place the failed one needs.       *)
Leaving == {"disconnect", "suspendSend", "suspendRecv", "deinit"}
Started ==
  /\ suspended \subseteq created
  /\ "recv" \in created \/ pc = "startRecv" => "send" \in created
  /\ OnQueue("lost") \/ pc \in Leaving => "recv" \in created
  /\ "recv" \in created \ suspended => cloudStatus
  /\ pc = "deinit" => "recv" \in suspended
Room == pc \in {"connect", "CONNACK"} => OnQueue("router") \/ Len(events) < QueueCap

(* The failures counted by mechanism and connectTimes together.            *)
Counted ==
  /\ fails \in Nat /\ mechanism \in DOMAIN Steps /\ connectTimes \in 0 .. Steps[mechanism] - 1
  /\ pc # "reboot" => fails = connectTimes + Counts[mechanism]

-----------------------------------------------------------------------------
(* The event queue and the packets on their way. *)

(* What is taken from a sequence, and what is left of it.                  *)
LEMMA Taken ==
  ASSUME NEW S, NEW s \in Seq(S), s # << >>
  PROVE  /\ Len(s) \in Nat /\ Len(s) > 0 /\ Head(s) \in S /\ Head(s) \in Range(s)
         /\ Tail(s) \in Seq(S) /\ Len(Tail(s)) = Len(s) - 1
         /\ Range(s) = Range(Tail(s)) \cup {Head(s)}
<1>1. Len(s) \in Nat /\ Len(s) > 0 /\ DOMAIN s = 1 .. Len(s)
  BY EmptySeq, LenProperties
<1>2. /\ Head(s) = s[1] /\ Head(s) \in S /\ Tail(s) \in Seq(S) /\ Len(Tail(s)) = Len(s) - 1
      /\ \A i \in 1 .. Len(Tail(s)) : Tail(s)[i] = s[i + 1]
  BY <1>1, HeadTailProperties
<1>3. DOMAIN Tail(s) = 1 .. Len(s) - 1
  BY <1>1, <1>2, LenProperties
<1>4. Range(s) \subseteq Range(Tail(s)) \cup {Head(s)}
  <2> SUFFICES ASSUME NEW i \in DOMAIN s PROVE s[i] \in Range(Tail(s)) \cup {Head(s)}
    BY DEF Range
  <2>1. CASE i = 1
    BY <1>2, <2>1
  <2>2. CASE i # 1
    <3>1. i - 1 \in DOMAIN Tail(s) /\ Tail(s)[i - 1] = s[i]
      BY <1>1, <1>2, <1>3, <2>2
    <3> QED
      BY <3>1 DEF Range
  <2> QED
    BY <2>1, <2>2
<1>5. Range(Tail(s)) \subseteq Range(s) /\ Head(s) \in Range(s)
  BY <1>1, <1>2, <1>3 DEF Range
<1> QED
  BY <1>1, <1>2, <1>4, <1>5

(* What a sequence holds after one more was appended.                      *)
LEMMA Added ==
  ASSUME NEW S, NEW s \in Seq(S), NEW x \in S
  PROVE  /\ Append(s, x) \in Seq(S) /\ Len(s) \in Nat /\ Len(Append(s, x)) = Len(s) + 1
         /\ Range(Append(s, x)) = Range(s) \cup {x}
<1>1. /\ Append(s, x) \in Seq(S) /\ Len(s) \in Nat /\ Len(Append(s, x)) = Len(s) + 1
      /\ \A i \in 1 .. Len(s) : Append(s, x)[i] = s[i]
      /\ Append(s, x)[Len(s) + 1] = x
  BY AppendProperties, LenProperties
<1>2. DOMAIN s = 1 .. Len(s) /\ DOMAIN Append(s, x) = 1 .. Len(s) + 1
  BY <1>1, LenProperties
<1>3. Range(Append(s, x)) \subseteq Range(s) \cup {x}
  <2> SUFFICES ASSUME NEW i \in DOMAIN Append(s, x) PROVE Append(s, x)[i] \in Range(s) \cup {x}
    BY DEF Range
  <2>1. i \in 1 .. Len(s) \/ i = Len(s) + 1
    BY <1>1, <1>2
  <2> QED
    BY <1>1, <1>2, <2>1 DEF Range
<1>4. Range(s) \cup {x} \subseteq Range(Append(s, x))
  BY <1>1, <1>2 DEF Range
<1> QED
  BY <1>1, <1>3, <1>4

(* The elements of a sequence over a set are of that set.                  *)
LEMMA InRange ==
  ASSUME NEW S, NEW s \in Seq(S)
  PROVE  Range(s) \subseteq S
BY LenProperties DEF Range

(* The queue only loses events that find it full, and never its own.       *)
LEMMA PutValue ==
  ASSUME NEW q \in Seq(Kinds), Len(q) <= QueueCap, NEW e \in Kinds
  PROVE  /\ Put(q, e) \in Seq(Kinds) /\ Len(Put(q, e)) <= QueueCap
         /\ Range(q) \subseteq Range(Put(q, e)) /\ Range(Put(q, e)) \subseteq Range(q) \cup {e}
         /\ Len(q) < QueueCap => e \in Range(Put(q, e))
<1>1. QueueCap \in Nat
  BY SessionAssumption
<1>2. CASE Len(q) < QueueCap
  BY <1>1, <1>2, Added DEF Put
<1>3. CASE ~ Len(q) < QueueCap
  BY <1>3 DEF Put
<1> QED
  BY <1>2, <1>3

(* What taking an event and putting one leave in the queue.                *)
LEMMA QueueFacts ==
  ASSUME Queued
  PROVE  /\ events # << >> =>
              /\ Tail(events) \in Seq(Kinds) /\ Len(Tail(events)) < QueueCap
              /\ Range(events) = Range(Tail(events)) \cup {Head(events)}
         /\ \A q \in Seq(Kinds) : Len(q) <= QueueCap =>
              /\ Range(q) \subseteq Range(Put(q, "router"))
              /\ Range(Put(q, "router")) \subseteq Range(q) \cup {"router"}
              /\ Len(q) < QueueCap => "router" \in Range(Put(q, "router"))
<1>1. "router" \in Kinds /\ QueueCap \in Nat
  BY SessionAssumption DEF Kinds
<1>2. \A q \in Seq(Kinds) : Len(q) <= QueueCap =>
        /\ Range(q) \subseteq Range(Put(q, "router"))
        /\ Range(Put(q, "router")) \subseteq Range(q) \cup {"router"}
        /\ Len(q) < QueueCap => "router" \in Range(Put(q, "router"))
  BY <1>1, PutValue
<1>3. ASSUME events # << >>
      PROVE  /\ Tail(events) \in Seq(Kinds) /\ Len(Tail(events)) < QueueCap
             /\ Range(events) = Range(Tail(events)) \cup {Head(events)}
  BY <1>1, <1>3, Taken DEF Queued
<1> QED
  BY <1>2, <1>3

(* What a step does to the event queue.                                    *)
Takes(e) == events # << >> /\ Head(events) = e

(* Each way a step may change the event queue, and from where.             *)
LEMMA EventShapes ==
  ASSUME [Next]_vars
  PROVE  \/ UNCHANGED events
         \/ pc = "loop" /\ Takes("router") /\ events' \in {Tail(events), Put(Tail(events), "router")}
         \/ pc = "loop" /\ Takes("lost") /\ events' = Tail(events)
         \/ Runs("recv") /\ events' = Put(events, "lost")
         \/ events' = Put(events, "router")
<1>1. CASE MainLoop
  BY <1>1 DEF MainLoop, TakeRouter, OpenFails, Open, Connack, ConnackFails, ConnectFails, Subscribe,
     Suback, SubscribeExpires, StartSend, StartRecv, TakeLost, Disconnect, DisconnectAgain, Deinit,
     MainTurn, Suspend, events_, Takes
<1>2. CASE SendThread \/ RecvThread \/ \E t \in Workers : WakeStray(t)
  BY <1>2 DEF SendThread, RecvThread, PopPacket, LockPublish, PublishTurn, PublishExpires, LockYield,
     YieldTurn, YieldReturns, WakeStray, steady, events_
<1>3. CASE Environment
  BY <1>3 DEF Environment, RouterUp, AddPacket, PingTimerExpires, RespTimerExpires, LinkBreaks,
     BrokerSends, events_
<1>4. CASE UNCHANGED vars
  BY <1>4 DEF vars, events_
<1> QED
  BY <1>1, <1>2, <1>3, <1>4 DEF Next

(* No step puts too much into the event queue.                             *)
LEMMA QueuedNext == Queued /\ [Next]_vars => Queued'
<1> SUFFICES ASSUME Queued, [Next]_vars PROVE Queued'
  OBVIOUS
<1>1. ASSUME events # << >> PROVE Tail(events) \in Seq(Kinds) /\ Len(Tail(events)) <= QueueCap
  BY <1>1, Taken, SessionAssumption DEF Queued
<1>2. \A q \in Seq(Kinds) : Len(q) <= QueueCap => \A e \in Kinds :
        Put(q, e) \in Seq(Kinds) /\ Len(Put(q, e)) <= QueueCap
  BY PutValue
<1>3. "router" \in Kinds /\ "lost" \in Kinds
  BY DEF Kinds
<1> QED
  BY <1>1, <1>2, <1>3, EventShapes DEF Queued, Takes

(* A turn of cycle takes at most one packet and may bring one ping.        *)
LEMMA CycleCarries ==
  ASSUME Carried, NEW p, Cycle(p)
  PROVE  Carried'
<1> DEFINE rest == IF p = NULL THEN in ELSE Tail(in)
<1>1. MaxIn \in Nat /\ "PINGRESP" \in Wire
  BY SessionAssumption DEF Wire, Acks
<1>2. rest \in Seq(Wire) /\ Len(rest) <= MaxIn
  <2>1. CASE p = NULL
    BY <2>1 DEF Carried
  <2>2. CASE p # NULL
    <3>1. in # << >>
      BY <2>2 DEF Cycle
    <3> QED
      BY <1>1, <2>2, <3>1, Taken DEF Carried
  <2> QED
    BY <2>1, <2>2
<1> HIDE DEF rest
<1>3. in' = rest \/ (Len(rest) < MaxIn /\ in' = Append(rest, "PINGRESP"))
  BY DEF Cycle, rest
<1>4. Len(rest) < MaxIn => /\ Append(rest, "PINGRESP") \in Seq(Wire)
                           /\ Len(Append(rest, "PINGRESP")) <= MaxIn
  BY <1>1, <1>2, Added
<1> QED
  BY <1>2, <1>3, <1>4 DEF Carried

(* What the broker sends keeps within its bound.                           *)
LEMMA CarriedNext == Carried /\ [Next]_vars => Carried'
<1> SUFFICES ASSUME Carried, [Next]_vars PROVE Carried'
  OBVIOUS
<1>1. MaxIn \in Nat /\ MaxIn > 0
  BY SessionAssumption
<1>2. ASSUME in' = in \/ in' = << >> PROVE Carried'
  <2>1. << >> \in Seq(Wire) /\ Len(<< >>) = 0
    BY EmptySeq
  <2> QED
    <3>1. CASE in' = in
      BY <3>1 DEF Carried
    <3>2. CASE in' = << >>
      BY <1>1, <2>1, <3>2 DEF Carried
    <3> QED
      BY <1>2, <3>1, <3>2
<1>3. ASSUME NEW x \in Wire, Len(in) < MaxIn, in' = Append(in, x) PROVE Carried'
  BY <1>1, <1>3, Added DEF Carried
<1>4. ASSUME NEW answer \in Acks, Request(answer) PROVE Carried'
  BY <1>2, <1>3, <1>4 DEF Request, Wire
<1>5. CASE Open
  <2>1. "CONNACK" \in Wire /\ << >> \in Seq(Wire) /\ Len(<< >>) = 0
    BY EmptySeq DEF Wire, Acks
  <2>2. in' = Append(<< >>, "CONNACK")
    BY <1>5 DEF Open
  <2> QED
    BY <1>1, <2>1, <2>2, Added DEF Carried
<1>6. CASE Connack \/ Suback \/ MainTurn \/ PublishTurn \/ YieldTurn
  BY <1>6, CycleCarries DEF Connack, Suback, MainTurn, PublishTurn, YieldTurn
<1>7. CASE Subscribe
  BY <1>2, <1>4, <1>7 DEF Subscribe, traffic, Acks
<1>8. CASE LockPublish \/ \E t \in Workers : WakeStray(t)
  BY <1>2, <1>4, <1>8 DEF LockPublish, WakeStray, Publish, traffic, Acks
<1>9. CASE \/ TakeRouter \/ OpenFails \/ ConnackFails \/ SubscribeExpires \/ StartSend \/ StartRecv
           \/ TakeLost \/ Disconnect \/ DisconnectAgain \/ Deinit
           \/ Suspend("send", "suspendRecv") \/ Suspend("recv", "deinit")
  BY <1>2, <1>9 DEF TakeRouter, OpenFails, ConnackFails, SubscribeExpires, StartSend, StartRecv,
     TakeLost, Disconnect, DisconnectAgain, Deinit, Suspend, traffic
<1>10. CASE PopPacket \/ PublishExpires \/ LockYield \/ YieldReturns
  BY <1>2, <1>10 DEF PopPacket, PublishExpires, LockYield, YieldReturns, traffic
<1>11. CASE RouterUp \/ AddPacket \/ PingTimerExpires \/ RespTimerExpires \/ LinkBreaks
  BY <1>2, <1>11 DEF RouterUp, AddPacket, PingTimerExpires, RespTimerExpires, LinkBreaks, traffic
<1>12. ASSUME NEW topic \in Topics, BrokerSends(topic) PROVE Carried'
  BY <1>3, <1>12 DEF BrokerSends, Wire
<1>13. CASE UNCHANGED vars
  BY <1>2, <1>13 DEF vars, traffic
<1> QED
  BY <1>5, <1>6, <1>7, <1>8, <1>9, <1>10, <1>11, <1>12, <1>13
     DEF Next, MainLoop, SendThread, RecvThread, Environment

-----------------------------------------------------------------------------
(* The other variables. *)

(* The other variables keep their types.                                   *)
LEMMA ScalarsNext == Scalars /\ [Next]_vars => Scalars'
<1> SUFFICES ASSUME Scalars, [Next]_vars PROVE Scalars'
  OBVIOUS
<1> USE DEF Scalars, Threads, Workers
<1>1. CASE TakeRouter \/ StartSend \/ StartRecv \/ TakeLost \/ Disconnect \/ DisconnectAgain
  BY <1>1 DEF TakeRouter, StartSend, StartRecv, TakeLost, Disconnect, DisconnectAgain, Start,
     mainVars, lock, client, tasks, net
<1>2. ASSUME ConnectFails
      PROVE  /\ pc' \in {"loop", "reboot"} /\ mutex' = FALSE /\ holder' = NULL
             /\ UNCHANGED <<cloudStatus, wanted, strays>>
  BY <1>2 DEF ConnectFails, BackOff
<1>3. CASE OpenFails \/ Open \/ ConnackFails
  BY <1>2, <1>3 DEF OpenFails, Open, ConnackFails, Goes, mainVars, client, tasks, net
<1>4. CASE Connack \/ Subscribe \/ Suback \/ SubscribeExpires
  <2>1. CASE Connack
    BY <2>1 DEF Connack, Subscribing, NextCall, Unlock, Goes, Cycle, mainVars, client, tasks, net,
       Topics
  <2>2. CASE Subscribe
    BY <2>2 DEF Subscribe, Subscribing, NextCall, Unlock, Goes, Cycle, mainVars, client, tasks, net,
       Topics
  <2>3. CASE Suback
    BY <2>3 DEF Suback, Subscribing, NextCall, Unlock, Goes, Cycle, mainVars, client, tasks, net,
       Topics
  <2>4. CASE SubscribeExpires
    BY <2>4 DEF SubscribeExpires, Subscribing, NextCall, Unlock, Goes, Cycle, mainVars, client,
       tasks, net, Topics
  <2> QED
    BY <1>4, <2>1, <2>2, <2>3, <2>4
<1>5. CASE Deinit
  <2>1. wanted' \in BOOLEAN /\ strays' \subseteq Workers
    <3>1. wanted' = OnQueue("router") /\ OnQueue("router") \in BOOLEAN
      BY <1>5 DEF Deinit, OnQueue
    <3> QED
      BY <1>5, <3>1 DEF Deinit
  <2>2. /\ pc' = "loop" /\ cloudStatus' = FALSE /\ mutex' = FALSE /\ holder' = NULL /\ link' = "none"
        /\ UNCHANGED <<broken, isconnected, handlers, at, created, suspended, ret, subs>>
    BY <1>5 DEF Deinit, client, tasks
  <2> QED
    BY <2>1, <2>2
<1>14. CASE MainTurn
  BY <1>14 DEF MainTurn, Cycle, mainVars, client, tasks, net, lock
<1>6. CASE Suspend("send", "suspendRecv") \/ Suspend("recv", "deinit")
  BY <1>6 DEF Suspend, Goes, mainVars, lock, client, tasks, net
<1>7. CASE SendThread
  BY <1>7 DEF SendThread, PopPacket, LockPublish, Publish, PublishTurn, PublishExpires, Cycle, Unlock,
     Goes, steady, mainVars, lock, client, tasks, net
<1>8. CASE RecvThread
  BY <1>8 DEF RecvThread, LockYield, YieldTurn, YieldReturns, Cycle, Unlock, Goes, steady, mainVars,
     lock, client, tasks, net
<1>9. ASSUME NEW t \in Workers, WakeStray(t) PROVE Scalars'
  BY <1>9 DEF WakeStray, Publish, Goes, mainVars, client, tasks, net
<1>10. CASE Environment
  BY <1>10 DEF Environment, RouterUp, AddPacket, PingTimerExpires, RespTimerExpires, LinkBreaks,
     BrokerSends, quiet, lock, client, tasks, net
<1>11. CASE UNCHANGED vars
  BY <1>11 DEF vars, mainVars, lock, client, tasks, net
<1> QED
  BY <1>1, <1>3, <1>4, <1>5, <1>6, <1>7, <1>8, <1>9, <1>10, <1>11, <1>14 DEF Next, MainLoop

-----------------------------------------------------------------------------
(* The mutex. *)

(* Only who is inside the client holds the mutex.                          *)
LEMMA LocatedNext == Scalars /\ Located /\ [Next]_vars => Located'
<1> SUFFICES ASSUME Scalars, Located, [Next]_vars PROVE Located'
  OBVIOUS
<1> USE DEF Scalars, Located, Connecting, Threads, Workers, Topics
<1>1. CASE TakeRouter \/ StartSend \/ StartRecv \/ TakeLost \/ Disconnect \/ DisconnectAgain
  BY <1>1 DEF TakeRouter, StartSend, StartRecv, TakeLost, Disconnect, DisconnectAgain, mainVars, lock
<1>2. ASSUME ConnectFails
      PROVE  pc' \in {"loop", "reboot"} /\ mutex' = FALSE /\ UNCHANGED cloudStatus
  BY <1>2 DEF ConnectFails, BackOff
<1>3. CASE OpenFails
  BY <1>2, <1>3 DEF OpenFails
<1>12. CASE Open
  BY <1>12 DEF Open, mainVars
<1>13. CASE ConnackFails
  BY <1>2, <1>13 DEF ConnackFails, Goes
<1>4. CASE Connack \/ Subscribe \/ Suback \/ SubscribeExpires
  BY <1>4 DEF Connack, Subscribe, Suback, SubscribeExpires, Subscribing, NextCall, Unlock, Goes,
     mainVars
<1>5. CASE Deinit \/ MainTurn
  BY <1>5 DEF Deinit, MainTurn, mainVars, lock
<1>6. CASE Suspend("send", "suspendRecv") \/ Suspend("recv", "deinit")
  BY <1>6 DEF Suspend, Goes, mainVars, lock
<1>7. CASE SendThread
  BY <1>7 DEF SendThread, PopPacket, LockPublish, Publish, PublishTurn, PublishExpires, Unlock,
     Goes, steady, mainVars, lock
<1>8. CASE RecvThread
  BY <1>8 DEF RecvThread, LockYield, YieldTurn, YieldReturns, Unlock, Goes, steady, mainVars, lock
<1>9. ASSUME NEW t \in Workers, WakeStray(t) PROVE Located'
  <2>1. at'["main"] = at["main"]
    BY <1>9 DEF WakeStray, Publish, Goes
  <2>2. UNCHANGED <<mutex, cloudStatus>> /\ pc' \in {pc, "halt"}
    BY <1>9 DEF WakeStray, mainVars
  <2> QED
    BY <2>1, <2>2
<1>10. CASE Environment
  BY <1>10 DEF Environment, RouterUp, AddPacket, PingTimerExpires, RespTimerExpires, LinkBreaks,
     BrokerSends, quiet, lock
<1>11. CASE UNCHANGED vars
  BY <1>11 DEF vars, mainVars, lock
<1> QED
  BY <1>1, <1>3, <1>4, <1>5, <1>6, <1>7, <1>8, <1>9, <1>10, <1>11, <1>12, <1>13 DEF Next, MainLoop

(* The mutex is given by taking it and taken back by leaving the client; a *)
(* teardown makes strays of those inside.                                  *)
LEMMA ExclusiveNext == Scalars /\ Located /\ Exclusive /\ [Next]_vars => Exclusive'
<1> SUFFICES ASSUME Scalars, Located, Exclusive, [Next]_vars PROVE Exclusive'
  OBVIOUS
<1>n. NULL \notin Threads
  BY NullAssumption
<1> USE <1>n DEF Scalars, Exclusive, Threads, Workers
<1>1. ASSUME UNCHANGED <<mutex, holder, strays, at>> PROVE Exclusive'
  BY <1>1
<1>2. ASSUME NEW t \in Threads, NEW where \in {"out", "lock"}, Unlock(t), Goes(t, where)
      PROVE  Exclusive'
  BY <1>2 DEF Unlock, Goes
<1>3. ASSUME NEW t \in Threads, holder = NULL, at[t] # "in", Goes(t, "in"), holder' = t, mutex' = TRUE,
             UNCHANGED strays
      PROVE  Exclusive'
  BY <1>3 DEF Goes
<1>4. CASE Connack \/ Suback \/ SubscribeExpires
  BY <1>2, <1>4 DEF Connack, Suback, SubscribeExpires
<1>5. CASE OpenFails
  BY <1>5 DEF OpenFails, ConnectFails, Located
<1>6. CASE Open
  BY <1>3, <1>6 DEF Open, Goes, Located, Topics
<1>7. CASE ConnackFails
  <2>1. at["main"] = "in" /\ holder = "main"
    BY <1>7 DEF ConnackFails, Located
  <2> QED
    BY <1>7, <2>1 DEF ConnackFails, ConnectFails, Goes
<1>8. CASE Subscribe
  <2>1. mutex /\ at["main"] = "out"
    BY <1>8 DEF Subscribe, Subscribing, Located, Connecting
  <2> QED
    BY <1>1, <1>3, <1>8, <2>1 DEF Subscribe
<1>9. CASE Deinit
  <2>1. at["main"] # "in"
    BY <1>9 DEF Deinit, Located, Topics
  <2> QED
    BY <1>9, <2>1 DEF Deinit
<1>10. CASE TakeRouter \/ StartSend \/ StartRecv \/ TakeLost \/ Disconnect \/ DisconnectAgain \/ MainTurn
  <2>1. UNCHANGED <<lock, at>>
    BY <1>10 DEF TakeRouter, StartSend, StartRecv, TakeLost, Disconnect, DisconnectAgain, MainTurn
  <2> QED
    BY <1>1, <2>1 DEF lock
<1>11. ASSUME NEW t \in Workers, NEW next, Suspend(t, next) PROVE Exclusive'
  <2>1. UNCHANGED <<mutex, holder, strays>>
    BY <1>11 DEF Suspend, lock
  <2>2. PICK where \in {at[t]} \cup (IF at[t] = "lock" THEN {"blocked"} ELSE {}) : Goes(t, where)
    BY <1>11 DEF Suspend
  <2>3. CASE where = at[t]
    BY <1>1, <2>1, <2>2, <2>3 DEF Goes
  <2>4. CASE at[t] = "lock" /\ where = "blocked"
    <3>1. at'[t] = "blocked" /\ \A s \in Threads \ {t} : at'[s] = at[s]
      BY <2>2, <2>4 DEF Goes
    <3> QED
      BY <2>1, <2>4, <3>1
  <2> QED
    BY <2>2, <2>3, <2>4
<1>12. CASE PopPacket \/ YieldReturns
  BY <1>12 DEF PopPacket, YieldReturns, Goes, lock
<1>13. CASE LockPublish
  BY <1>13 DEF LockPublish, Publish, Goes
<1>14. CASE PublishTurn
  BY <1>1, <1>2, <1>14 DEF PublishTurn, lock
<1>15. CASE PublishExpires \/ YieldTurn
  BY <1>2, <1>15 DEF PublishExpires, YieldTurn
<1>16. CASE LockYield
  BY <1>3, <1>16 DEF LockYield
<1>17. ASSUME NEW t \in Workers, WakeStray(t) PROVE Exclusive'
  BY <1>17 DEF WakeStray, Publish, Goes
<1>18. CASE Environment
  BY <1>1, <1>18 DEF Environment, RouterUp, AddPacket, PingTimerExpires, RespTimerExpires, LinkBreaks,
     BrokerSends, quiet, lock
<1>19. CASE UNCHANGED vars
  BY <1>1, <1>19 DEF vars, lock
<1> QED
  BY <1>4, <1>5, <1>6, <1>7, <1>8, <1>9, <1>10, <1>11, <1>12, <1>13, <1>14, <1>15, <1>16, <1>17, <1>18,
     <1>19 DEF Next, MainLoop, SendThread, RecvThread

-----------------------------------------------------------------------------
(* The event queue. *)

(* Every step keeps what follows from the threads that were started.       *)
LEMMA StartedNext == Queued /\ Scalars /\ Located /\ Started /\ [Next]_vars => Started'
<1> SUFFICES ASSUME Queued, Scalars, Located, Started, [Next]_vars PROVE Started'
  OBVIOUS
<1>q. OnQueue("lost")' => OnQueue("lost") \/ "recv" \in created
  <2>1. /\ events # << >> => Range(Tail(events)) \subseteq Range(events)
                             /\ Tail(events) \in Seq(Kinds) /\ Len(Tail(events)) <= QueueCap
        /\ \A q \in Seq(Kinds) : Len(q) <= QueueCap => Range(Put(q, "router")) \subseteq Range(q) \cup {"router"}
    BY QueueFacts, SessionAssumption
  <2>2. CASE Runs("recv")
    BY <2>2 DEF Runs
  <2>3. CASE UNCHANGED events
    BY <2>3 DEF OnQueue
  <2>4. CASE events # << >> /\ events' \in {Tail(events), Put(Tail(events), "router")}
    <3>1. Range(events') \subseteq Range(events) \cup {"router"}
      BY <2>1, <2>4
    <3> QED
      BY <3>1 DEF OnQueue
  <2>5. CASE events' = Put(events, "router")
    <3>1. Range(events') \subseteq Range(events) \cup {"router"}
      BY <2>1, <2>5 DEF Queued
    <3> QED
      BY <3>1 DEF OnQueue
  <2> QED
    BY <2>2, <2>3, <2>4, <2>5, EventShapes DEF Takes
<1>l. Takes("lost") => OnQueue("lost")
  BY Taken DEF Takes, Queued, OnQueue
<1> USE <1>q DEF Scalars, Started, Leaving, Workers
<1>1. ASSUME UNCHANGED <<pc, created, suspended, cloudStatus>> PROVE Started'
  BY <1>1
<1>2. CASE TakeRouter \/ Disconnect \/ DisconnectAgain
  BY <1>2 DEF TakeRouter, Disconnect, DisconnectAgain, mainVars, tasks
<1>3. CASE TakeLost
  BY <1>3, <1>l DEF TakeLost, Takes, mainVars, tasks
<1>4. ASSUME ConnectFails PROVE pc' \in {"loop", "reboot"} /\ UNCHANGED cloudStatus
  BY <1>4 DEF ConnectFails, BackOff
<1>5. CASE OpenFails \/ ConnackFails
  BY <1>4, <1>5 DEF OpenFails, ConnackFails, tasks
<1>6. CASE Open \/ Connack
  BY <1>6 DEF Open, Connack, mainVars, tasks
<1>7. CASE Subscribe \/ Suback \/ SubscribeExpires
  BY <1>7 DEF Subscribe, Suback, SubscribeExpires, Subscribing, NextCall, Topics, mainVars, tasks
<1>8. CASE StartSend \/ StartRecv
  BY <1>8 DEF StartSend, StartRecv, Start, mainVars
<1>9. CASE Deinit
  BY <1>9 DEF Deinit, tasks
<1>10. CASE MainTurn
  BY <1>1, <1>10 DEF MainTurn, mainVars, tasks
<1>11. CASE Suspend("send", "suspendRecv") \/ Suspend("recv", "deinit")
  BY <1>11 DEF Suspend, mainVars
<1>12. CASE SendThread \/ RecvThread
  BY <1>1, <1>12 DEF SendThread, RecvThread, PopPacket, LockPublish, PublishTurn, PublishExpires,
     LockYield, YieldTurn, YieldReturns, steady, mainVars, tasks
<1>13. ASSUME NEW t \in Workers, WakeStray(t) PROVE Started'
  BY <1>13 DEF WakeStray, mainVars, tasks
<1>14. CASE Environment
  BY <1>1, <1>14 DEF Environment, RouterUp, AddPacket, PingTimerExpires, RespTimerExpires, LinkBreaks,
     BrokerSends, quiet, tasks
<1>15. CASE UNCHANGED vars
  BY <1>1, <1>15 DEF vars, mainVars, tasks
<1> QED
  BY <1>2, <1>3, <1>5, <1>6, <1>7, <1>8, <1>9, <1>10, <1>11, <1>12, <1>13, <1>14, <1>15
     DEF Next, MainLoop

(* Events other than retries only leave the queue one at a time, and none  *)
(* but retries join it while mainLoop connects.                            *)
LEMMA RetryNext ==
  Queued /\ Scalars /\ Located /\ Started /\ Room /\ RetryPending /\ [Next]_vars
    => Room' /\ RetryPending'
<1> SUFFICES ASSUME Queued, Scalars, Located, Started, Room, RetryPending, [Next]_vars
             PROVE  Room' /\ RetryPending'
  OBVIOUS
<1> USE DEF Room, RetryPending, Ended, Scalars, Topics
<1>q. /\ events # << >> =>
           /\ Tail(events) \in Seq(Kinds) /\ Len(Tail(events)) < QueueCap
           /\ Range(events) = Range(Tail(events)) \cup {Head(events)}
      /\ \A q \in Seq(Kinds) : Len(q) <= QueueCap =>
           /\ Range(q) \subseteq Range(Put(q, "router"))
           /\ Len(q) < QueueCap => "router" \in Range(Put(q, "router"))
  BY QueueFacts
<1>p. ASSUME events' = Put(events, "router")
      PROVE  OnQueue("router") \/ Len(events) < QueueCap => OnQueue("router")'
  BY <1>q, <1>p DEF Queued, OnQueue
<1>1. CASE TakeRouter
  <2>1. OnQueue("router")' \/ Len(events') < QueueCap
    <3>1. Tail(events) \in Seq(Kinds) /\ Len(Tail(events)) < QueueCap
      BY <1>1, <1>q DEF TakeRouter
    <3>2. "router" \in Range(Put(Tail(events), "router"))
      <4>1. Len(Tail(events)) <= QueueCap
        BY <3>1, SessionAssumption
      <4> QED
        BY <1>q, <3>1, <4>1
    <3>3. events' = Tail(events) \/ events' = Put(Tail(events), "router")
      BY <1>1 DEF TakeRouter
    <3> QED
      BY <3>1, <3>2, <3>3 DEF OnQueue
  <2> QED
    BY <1>1, <2>1 DEF TakeRouter
<1>2. CASE OpenFails \/ ConnackFails
  <2>1. ConnectFails /\ pc \in {"connect", "CONNACK"}
    BY <1>2 DEF OpenFails, ConnackFails
  <2>2. events' = Put(events, "router") /\ pc' \in {"loop", "reboot"}
    BY <2>1 DEF ConnectFails, BackOff
  <2>3. OnQueue("router")'
    BY <1>p, <2>1, <2>2
  <2> QED
    BY <2>2, <2>3
<1>3. ASSUME UNCHANGED <<events, pc, wanted, cloudStatus>> PROVE Room' /\ RetryPending'
  BY <1>3 DEF OnQueue
<1>4. CASE TakeLost
  <2>1. OnQueue("router") => OnQueue("router")'
    BY <1>4, <1>q DEF TakeLost, OnQueue
  <2> QED
    BY <1>4, <2>1 DEF TakeLost, mainVars
<1>5. ASSUME UNCHANGED events PROVE OnQueue("router")' = OnQueue("router")
  BY <1>5 DEF OnQueue
<1>6. CASE Open \/ Connack \/ Subscribe \/ Suback \/ SubscribeExpires \/ StartSend \/ StartRecv
  BY <1>5, <1>6 DEF Open, Connack, Subscribe, Suback, SubscribeExpires, StartSend, StartRecv,
     Subscribing, NextCall, events_, mainVars
<1>7. CASE Disconnect \/ DisconnectAgain
           \/ Suspend("send", "suspendRecv") \/ Suspend("recv", "deinit")
  BY <1>5, <1>7 DEF Disconnect, DisconnectAgain, Suspend, events_, mainVars
<1>8. CASE Deinit
  BY <1>5, <1>8 DEF Deinit, events_
<1>9. CASE MainTurn \/ SendThread \/ LockYield \/ YieldTurn
  BY <1>3, <1>9 DEF MainTurn, SendThread, PopPacket, LockPublish, PublishTurn, PublishExpires,
     LockYield, YieldTurn, steady, events_, mainVars
<1>10. CASE YieldReturns
  <2>1. cloudStatus
    BY <1>10 DEF YieldReturns, Runs, Started
  <2> QED
    BY <1>10, <2>1 DEF YieldReturns, mainVars, Located, Connecting
<1>11. ASSUME NEW t \in Workers, WakeStray(t) PROVE Room' /\ RetryPending'
  BY <1>5, <1>11 DEF WakeStray, events_, mainVars
<1>12. CASE RouterUp
  <2>1. events' = Put(events, "router") /\ UNCHANGED <<pc, cloudStatus>>
        /\ (wanted' => wanted \/ OnQueue("router")')
    BY <1>12 DEF RouterUp, quiet, OnQueue
  <2> QED
    BY <1>p, <2>1
<1>13. CASE Environment /\ ~ RouterUp
  BY <1>3, <1>13 DEF Environment, AddPacket, PingTimerExpires, RespTimerExpires, LinkBreaks,
     BrokerSends, quiet, events_
<1>14. CASE UNCHANGED vars
  BY <1>3, <1>14 DEF vars, events_, mainVars
<1> QED
  BY <1>1, <1>2, <1>4, <1>6, <1>7, <1>8, <1>9, <1>10, <1>11, <1>12, <1>13, <1>14
     DEF Next, MainLoop, RecvThread

-----------------------------------------------------------------------------
(* The attempts. *)

(* fails and the two statics change together, when an attempt fails and    *)
(* when one succeeds.                                                      *)
CountVars == <<mechanism, connectTimes, fails>>

(* Each way a step may count an attempt.                                   *)
LEMMA CountShapes ==
  ASSUME [Next]_vars
  PROVE  \/ UNCHANGED CountVars /\ (pc' = "reboot" => pc = "reboot") /\ (pc = "reboot" => pc' = "reboot")
         \/ pc # "reboot" /\ BackOff /\ fails' = fails + 1
         \/ /\ pc # "reboot" /\ pc' = "mac" /\ mechanism' = "3S" /\ connectTimes' = 0 /\ fails' = 0
<1> USE DEF CountVars
<1>1. CASE OpenFails \/ ConnackFails
  BY <1>1 DEF OpenFails, ConnackFails, ConnectFails
<1>2. CASE Connack
  BY <1>2 DEF Connack
<1>3. CASE \/ TakeRouter \/ Open \/ Subscribe \/ Suback \/ SubscribeExpires \/ StartSend \/ StartRecv
           \/ TakeLost \/ Disconnect \/ DisconnectAgain \/ Deinit \/ MainTurn
           \/ Suspend("send", "suspendRecv") \/ Suspend("recv", "deinit")
  BY <1>3 DEF TakeRouter, Open, Subscribe, Suback, SubscribeExpires, StartSend, StartRecv, TakeLost,
     Disconnect, DisconnectAgain, Deinit, MainTurn, Suspend, Subscribing, NextCall, Topics, mainVars
<1>4. CASE SendThread \/ RecvThread
  BY <1>4 DEF SendThread, RecvThread, PopPacket, LockPublish, PublishTurn, PublishExpires, LockYield,
     YieldTurn, YieldReturns, steady, mainVars
<1>5. ASSUME NEW t \in Workers, WakeStray(t)
      PROVE  UNCHANGED CountVars /\ pc # "reboot" /\ pc' # "reboot"
  BY <1>5 DEF WakeStray, Runs, Ended, mainVars
<1>6. CASE Environment
  BY <1>6 DEF Environment, RouterUp, AddPacket, PingTimerExpires, RespTimerExpires, LinkBreaks,
     BrokerSends, quiet
<1>7. CASE UNCHANGED vars
  BY <1>7 DEF vars, mainVars
<1> QED
  BY <1>1, <1>2, <1>3, <1>4, <1>5, <1>6, <1>7 DEF Next, MainLoop

(* The numbers of EJ_user_connectServer.                                   *)
LEMMA Numbers ==
  /\ DOMAIN Steps = {"3S", "10S", "25S"}
  /\ Steps["3S"] = 4 /\ Steps["10S"] = 2 /\ Steps["25S"] = 2
  /\ Counts["3S"] = 0 /\ Counts["10S"] = 4 /\ Counts["25S"] = 6
  /\ NextMechanism["3S"] = "10S" /\ NextMechanism["10S"] = "25S" /\ NextMechanism["25S"] = "3S"
<1>1. /\ Counts["3S"] = (CASE "3S" = "3S" -> 0 [] "3S" = "10S" -> 4 [] OTHER -> 6)
      /\ Counts["10S"] = (CASE "10S" = "3S" -> 0 [] "10S" = "10S" -> 4 [] OTHER -> 6)
      /\ Counts["25S"] = (CASE "25S" = "3S" -> 0 [] "25S" = "10S" -> 4 [] OTHER -> 6)
  BY Zenon DEF Counts
<1>2. /\ NextMechanism["3S"] = (CASE "3S" = "3S" -> "10S" [] "3S" = "10S" -> "25S" [] OTHER -> "3S")
      /\ NextMechanism["10S"] = (CASE "10S" = "3S" -> "10S" [] "10S" = "10S" -> "25S" [] OTHER -> "3S")
      /\ NextMechanism["25S"] = (CASE "25S" = "3S" -> "10S" [] "25S" = "10S" -> "25S" [] OTHER -> "3S")
  BY Zenon DEF NextMechanism
<1>3. "3S" # "10S" /\ "3S" # "25S" /\ "10S" # "25S"
  OBVIOUS
<1> QED
  BY <1>1, <1>2, <1>3 DEF Steps

(* The counter restarts the module with its eighth failure only.           *)
LEMMA CountedNext == Counted /\ [Next]_vars => Counted' /\ (pc' = "reboot" /\ pc # "reboot" <=> fails = 7 /\ fails' = 8)
<1> SUFFICES ASSUME Counted, [Next]_vars
             PROVE  Counted' /\ (pc' = "reboot" /\ pc # "reboot" <=> fails = 7 /\ fails' = 8)
  OBVIOUS
<1>1. CASE UNCHANGED CountVars /\ (pc' = "reboot" => pc = "reboot") /\ (pc = "reboot" => pc' = "reboot")
  BY <1>1 DEF CountVars, Counted
<1>2. CASE pc # "reboot" /\ BackOff /\ fails' = fails + 1
  BY <1>2, Numbers DEF BackOff, Counted
<1>3. CASE pc # "reboot" /\ pc' = "mac" /\ mechanism' = "3S" /\ connectTimes' = 0 /\ fails' = 0
  BY <1>3, Numbers DEF Counted
<1> QED
  BY <1>1, <1>2, <1>3, CountShapes

-----------------------------------------------------------------------------
(* A healthy link. *)

(* Until a link breaks there is one session at most, in which nobody is    *)
(* suspended or left behind; an unanswered ping has its answer on its way  *)
(* and, when answers come in time, its timer running.                      *)
Healthy ==
  ~ broken =>
    /\ ret # "LOST" /\ ~ OnQueue("lost") /\ pc \notin Leaving \cup {"halt"}
    /\ strays = {} /\ suspended = {} /\ \A t \in Workers : at[t] # "blocked"
    /\ mutex => link = "up" /\ (ping_outstanding => OnItsWay("PINGRESP") /\ ~ respDue)

Answered == link = "up" /\ (ping_outstanding => OnItsWay("PINGRESP") /\ ~ respDue)

(* A turn of cycle on such a link finds the answer, or its timer running.  *)
LEMMA CycleAnswered ==
  ASSUME Carried, Answered, NEW p \in Range(in) \cup {NULL}, Cycle(p)
  PROVE  Answered' /\ Cycled(p).rc = p /\ p \notin {"FAILURE", "LOST"}
<1>1. Range(in) \subseteq Wire
  BY InRange DEF Carried
<1>2. p \notin {"FAILURE", "LOST"} /\ (p = NULL => p # "PINGRESP" /\ p \notin Topics)
  BY <1>1, NullAssumption DEF Wire, Acks, Topics
<1> DEFINE rest == IF p = NULL THEN in ELSE Tail(in)
           due == pingDue /\ p \notin Topics
           waiting == ping_outstanding /\ p # "PINGRESP"
           pinged == due /\ ~ waiting
           lost == (waiting \/ due) /\ respDue /\ ~ pinged
<1>3. /\ Cycled(p).rc = (IF lost THEN "LOST" ELSE p) /\ Cycled(p).pinged = pinged
      /\ Cycled(p).out = ((waiting \/ due) /\ ~ lost)
      /\ Cycled(p).resp = (respDue /\ ~ pinged)
  BY DEF Cycled, CycledWith, Answered
<1>4. ~ lost
  BY DEF Answered
<1>5. rest \in Seq(Wire) /\ (waiting => "PINGRESP" \in Range(rest))
  <2>1. CASE p = NULL
    BY <2>1 DEF Answered, OnItsWay, Carried
  <2>2. CASE p # NULL
    <3>1. in # << >> /\ p = Head(in)
      BY <2>2 DEF Cycle
    <3>2. Tail(in) \in Seq(Wire) /\ Range(in) = Range(Tail(in)) \cup {p}
      BY <3>1, Taken DEF Carried
    <3> QED
      BY <2>2, <3>2 DEF Answered, OnItsWay
  <2> QED
    BY <2>1, <2>2
<1>6. /\ in' = IF pinged THEN Append(rest, "PINGRESP") ELSE rest
      /\ ping_outstanding' = (waiting \/ due) /\ respDue' = (respDue /\ ~ pinged)
      /\ UNCHANGED link
  BY <1>3, <1>4 DEF Cycle, Answered, net
<1> HIDE DEF rest, due, waiting, pinged, lost
<1>7. "PINGRESP" \in Range(Append(rest, "PINGRESP"))
  BY <1>5, Added DEF Wire, Acks
<1>8. ping_outstanding' => "PINGRESP" \in Range(in') /\ ~ respDue'
  <2>1. CASE pinged
    BY <1>6, <1>7, <2>1
  <2>2. CASE ~ pinged
    <3>1. (waiting \/ due) => waiting
      BY <2>2 DEF pinged
    <3>2. waiting => ~ respDue
      BY DEF waiting, Answered
    <3> QED
      BY <1>5, <1>6, <2>2, <3>1, <3>2
  <2> QED
    BY <2>1, <2>2
<1> QED
  BY <1>2, <1>3, <1>4, <1>6, <1>8 DEF Answered, OnItsWay

(* No other step takes an answer from the line, and no timer of a ping     *)
(* runs out before its answer.                                             *)
LEMMA HealthyNext ==
  Timely /\ Typed /\ Located /\ Exclusive /\ Healthy /\ [Next]_vars => Healthy'
<1> SUFFICES ASSUME Timely, Typed, Located, Exclusive, Healthy, [Next]_vars, ~ broken'
             PROVE  Healthy'
  BY DEF Healthy
<1>b. ~ broken
  BY DEF Next, MainLoop, TakeRouter, OpenFails, Open, Connack, ConnackFails, Subscribe, Suback,
     SubscribeExpires, StartSend, StartRecv, TakeLost, Disconnect, DisconnectAgain, Deinit, MainTurn,
     Suspend, SendThread, RecvThread, PopPacket, LockPublish, PublishTurn, PublishExpires, LockYield,
     YieldTurn, YieldReturns, WakeStray, Environment, RouterUp, AddPacket, PingTimerExpires,
     RespTimerExpires, LinkBreaks, BrokerSends, Cycle, net, vars
<1> DEFINE Free(s, r, q, w) == s = {} /\ r = {} /\ q \notin Leaving \cup {"halt"}
                               /\ \A t \in Workers : w[t] # "blocked"
<1>1. /\ ret # "LOST" /\ ~ OnQueue("lost") /\ Free(strays, suspended, pc, at)
      /\ mutex => Answered
  BY <1>b DEF Healthy, Answered
<1>2. ASSUME ret' # "LOST", ~ OnQueue("lost")', Free(strays', suspended', pc', at'),
             mutex' => Answered'
      PROVE  Healthy'
  BY <1>2 DEF Healthy, Answered
<1>3. UNCHANGED events \/ events' = Put(events, "router") => ~ OnQueue("lost")'
  <2>1. Range(Put(events, "router")) \subseteq Range(events) \cup {"router"}
    BY QueueFacts DEF Typed, Queued
  <2> QED
    BY <1>1, <2>1 DEF OnQueue
<1>4. \A t \in Threads : at[t] = "in" => mutex
  BY <1>1, NullAssumption DEF Exclusive, Threads
<1>5. ASSUME NEW p \in Range(in) \cup {NULL}, Cycle(p), mutex
      PROVE  Answered' /\ Cycled(p).rc = p /\ p \notin {"FAILURE", "LOST"}
  BY <1>1, <1>5, CycleAnswered DEF Typed
<1>6. ASSUME NEW answer \in Acks, Request(answer), UNCHANGED link, mutex
      PROVE  Answered'
  <2>1. Range(Append(in, answer)) = Range(in) \cup {answer}
    BY Added DEF Typed, Carried, Wire
  <2>2. OnItsWay("PINGRESP") => OnItsWay("PINGRESP")'
    BY <1>6, <2>1 DEF Request, OnItsWay
  <2> QED
    BY <1>1, <1>6, <2>2 DEF Request, Answered
<1>7. ASSUME UNCHANGED <<ping_outstanding, respDue, link, in>>, mutex
      PROVE  Answered'
  BY <1>1, <1>7 DEF Answered, OnItsWay
<1> USE DEF Threads, Workers, Acks, Topics
<1>8. ASSUME UNCHANGED at \/ (\E t \in Threads, w \in {"out", "lock", "in"} : Goes(t, w))
      PROVE  \A t \in Workers : at'[t] # "blocked"
  <2>1. CASE UNCHANGED at
    BY <1>1, <2>1
  <2>2. ASSUME NEW t \in Threads, NEW w \in {"out", "lock", "in"}, Goes(t, w)
        PROVE  \A u \in Workers : at'[u] # "blocked"
    BY <1>1, <2>2 DEF Goes, Typed, Scalars
  <2> QED
    BY <1>8, <2>1, <2>2
<1>11. CASE TakeRouter
  <2>1. /\ UNCHANGED <<ret, suspended, strays, mutex, at, ping_outstanding, respDue, link, in>>
        /\ pc' \in {"loop", "connect"}
    BY <1>11 DEF TakeRouter, lock, ping, tasks, net, traffic
  <2>2. ~ OnQueue("lost")'
    <3>1. /\ Tail(events) \in Seq(Kinds) /\ Len(Tail(events)) <= QueueCap
          /\ Range(Tail(events)) \subseteq Range(events)
      BY <1>11, Taken, SessionAssumption DEF TakeRouter, Typed, Queued
    <3>2. Range(Put(Tail(events), "router")) \subseteq Range(events) \cup {"router"}
      BY <3>1, PutValue DEF Kinds
    <3>3. events' = Tail(events) \/ events' = Put(Tail(events), "router")
      BY <1>11 DEF TakeRouter
    <3>4. Range(events') \subseteq Range(events) \cup {"router"}
      BY <3>1, <3>2, <3>3
    <3>5. "lost" \notin Range(events)
      BY <1>1 DEF OnQueue
    <3> QED
      BY <3>4, <3>5 DEF OnQueue
  <2> QED
    BY <1>1, <1>2, <1>7, <1>8, <2>1, <2>2 DEF Leaving
<1>12. CASE OpenFails
  BY <1>1, <1>2, <1>3, <1>8, <1>12
     DEF OpenFails, ConnectFails, BackOff, tasks, net, Leaving
<1>13. CASE Open
  <2>1. Goes("main", "in") /\ Answered'
    BY <1>13 DEF Open, Goes, Answered
  <2>2. UNCHANGED <<ret, events, strays, suspended>> /\ pc' = "CONNACK"
    BY <1>13 DEF Open, events_, tasks
  <2> QED
    BY <1>1, <1>2, <1>3, <1>8, <2>1, <2>2 DEF Leaving
<1>14. CASE Connack
  <2>1. mutex /\ \E p \in Range(in) \cup {NULL} : Cycle(p)
    BY <1>4, <1>14 DEF Connack, Located
  <2>2. Answered'
    BY <1>5, <2>1
  <2>3. /\ UNCHANGED <<ret, events, suspended>> /\ pc' = "mac" /\ strays' \subseteq strays
        /\ Goes("main", "out")
    BY <1>14 DEF Connack, Unlock, events_, tasks
  <2> QED
    BY <1>1, <1>2, <1>3, <1>8, <2>2, <2>3 DEF Leaving
<1>15. CASE ConnackFails
  <2>1. /\ UNCHANGED <<ret, suspended, strays>> /\ Goes("main", "out") /\ ~ mutex'
        /\ events' = Put(events, "router") /\ pc' \in {"loop", "reboot"}
    BY <1>15 DEF ConnackFails, ConnectFails, BackOff, tasks
  <2> QED
    BY <1>1, <1>2, <1>3, <1>8, <2>1 DEF Leaving
<1>16. CASE Subscribe
  <2>1. mutex /\ UNCHANGED <<ret, events, suspended, strays, link>>
    BY <1>16 DEF Subscribe, Subscribing, Located, Connecting, tasks, events_
  <2>2. link # "reset"
    BY <1>1, <2>1 DEF Answered
  <2>3. Request("SUBACK") /\ Goes("main", "in") /\ UNCHANGED pc
    BY <1>16, <2>2 DEF Subscribe
  <2> QED
    BY <1>1, <1>2, <1>3, <1>6, <1>8, <2>1, <2>3
<1>17. CASE Suback
  <2>1. mutex /\ \E p \in Range(in) \cup {NULL} : Cycle(p)
    BY <1>4, <1>17 DEF Suback
  <2>2. Answered'
    BY <1>5, <2>1
  <2>3. /\ UNCHANGED <<ret, events, suspended>> /\ pc' \in {"uuid", "startSend"}
        /\ strays' \subseteq strays /\ Goes("main", "out")
    BY <1>17 DEF Suback, NextCall, Unlock, events_, tasks
  <2> QED
    BY <1>1, <1>2, <1>3, <1>8, <2>2, <2>3 DEF Leaving
<1>18. CASE SubscribeExpires
  <2>1. /\ UNCHANGED <<ret, events, suspended, mutex, ping_outstanding, respDue, link, in>>
        /\ pc' \in {"uuid", "startSend"} /\ strays' \subseteq strays /\ Goes("main", "out")
    BY <1>18 DEF SubscribeExpires, NextCall, Unlock, events_, tasks, ping, net, traffic
  <2> QED
    BY <1>1, <1>2, <1>3, <1>7, <1>8, <2>1 DEF Leaving
<1>19. CASE StartSend
  BY <1>1, <1>2, <1>3, <1>7, <1>8, <1>19
     DEF StartSend, Start, events_, lock, ping, net, traffic, Leaving
<1>20. CASE StartRecv
  BY <1>1, <1>2, <1>3, <1>7, <1>8, <1>20
     DEF StartRecv, Start, events_, lock, ping, net, traffic, Leaving
<1>21. CASE TakeLost
  <2>1. OnQueue("lost")
    BY <1>21, Taken DEF TakeLost, Typed, Queued, OnQueue
  <2> QED
    BY <1>1, <2>1
<1>22. CASE Disconnect \/ DisconnectAgain \/ Deinit
  BY <1>1, <1>22 DEF Disconnect, DisconnectAgain, Deinit, Leaving
<1>23. CASE Suspend("send", "suspendRecv") \/ Suspend("recv", "deinit")
  BY <1>1, <1>23 DEF Suspend, Leaving
<1>24. CASE MainTurn
  <2>1. mutex /\ \E p \in Range(in) \cup {NULL} : Cycle(p)
    BY <1>4, <1>24 DEF MainTurn
  <2>2. Answered'
    BY <1>5, <2>1
  <2>3. UNCHANGED <<ret, events, suspended, pc, strays, at>>
    BY <1>24 DEF MainTurn, events_, tasks, lock
  <2> QED
    BY <1>1, <1>2, <1>3, <1>8, <2>2, <2>3
<1>25. CASE PopPacket
  BY <1>1, <1>2, <1>3, <1>7, <1>8, <1>25
     DEF PopPacket, steady, events_, tasks, lock, ping, net, traffic
<1>26. CASE LockPublish
  <2>1. mutex /\ UNCHANGED <<ret, events, suspended, pc, strays, link, mutex>> /\ Publish
    BY <1>26 DEF LockPublish, steady, events_, tasks, net
  <2>2. \/ Request("PUBACK") /\ Goes("send", "in")
        \/ Goes("send", "out") /\ UNCHANGED <<ping_outstanding, respDue, in>>
    BY <2>1 DEF Publish, ping, traffic
  <2>3. Answered' /\ \A t \in Workers : at'[t] # "blocked"
    BY <1>6, <1>7, <1>8, <2>1, <2>2
  <2> QED
    BY <1>1, <1>2, <1>3, <2>1, <2>3
<1>27. CASE PublishTurn
  <2>1. PICK p \in Range(in) \cup {NULL} :
          /\ Cycle(p)
          /\ IF Cycled(p).rc = "PUBACK" THEN Goes("send", "out") /\ Unlock("send")
                                        ELSE UNCHANGED <<at, lock>>
    BY <1>27 DEF PublishTurn
  <2>2. mutex /\ UNCHANGED <<ret, events, suspended, pc>>
    BY <1>4, <1>27 DEF PublishTurn, steady, events_, tasks
  <2>3. Answered'
    BY <1>5, <2>1, <2>2
  <2>4. strays' \subseteq strays /\ (UNCHANGED at \/ Goes("send", "out"))
    BY <2>1 DEF Unlock, lock
  <2> QED
    BY <1>1, <1>2, <1>3, <1>8, <2>2, <2>3, <2>4
<1>28. CASE PublishExpires
  <2>1. /\ UNCHANGED <<ret, events, suspended, pc, mutex, ping_outstanding, respDue, link, in>>
        /\ strays' \subseteq strays /\ Goes("send", "out")
    BY <1>28 DEF PublishExpires, Unlock, steady, events_, tasks, ping, net, traffic
  <2> QED
    BY <1>1, <1>2, <1>3, <1>7, <1>8, <2>1
<1>29. CASE LockYield
  BY <1>1, <1>2, <1>3, <1>7, <1>8, <1>29
     DEF LockYield, steady, events_, tasks, ping, net, traffic
<1>30. CASE YieldTurn
  <2>1. PICK p \in Range(in) \cup {NULL} :
          /\ Cycle(p)
          /\ ret' = IF Cycled(p).rc \in {"FAILURE", "LOST"} THEN Cycled(p).rc ELSE ret
    BY <1>30 DEF YieldTurn
  <2>2. mutex
    BY <1>4, <1>30 DEF YieldTurn
  <2>3. Answered' /\ ret' = ret
    BY <1>5, <2>1, <2>2
  <2>4. UNCHANGED <<events, suspended, pc>> /\ strays' \subseteq strays /\ Goes("recv", "lock")
    BY <1>30 DEF YieldTurn, Unlock, steady, events_, tasks
  <2> QED
    BY <1>1, <1>2, <1>3, <1>8, <2>3, <2>4
<1>31. CASE YieldReturns
  BY <1>1, <1>2, <1>3, <1>7, <1>8, <1>31
     DEF YieldReturns, tasks, lock, ping, net, traffic
<1>32. CASE RouterUp
  BY <1>1, <1>2, <1>3, <1>7, <1>8, <1>32
     DEF RouterUp, quiet, tasks, lock, ping, net, traffic
<1>33. CASE AddPacket \/ PingTimerExpires
  BY <1>1, <1>2, <1>3, <1>7, <1>8, <1>33
     DEF AddPacket, PingTimerExpires, quiet, tasks, lock, events_, ping, net, traffic
<1>34. CASE RespTimerExpires
  <2>1. UNCHANGED <<ret, events, suspended, pc, strays, mutex, at, ping_outstanding, link, in>>
    BY <1>34 DEF RespTimerExpires, quiet, tasks, lock, events_, net, traffic
  <2>2. mutex => ~ ping_outstanding
    BY <1>1, <1>34 DEF RespTimerExpires, MayExpire, Answered
  <2>3. mutex' => Answered'
    BY <1>1, <2>1, <2>2 DEF Answered
  <2> QED
    BY <1>1, <1>2, <1>3, <1>8, <2>1, <2>3
<1>35. CASE LinkBreaks
  BY <1>35 DEF LinkBreaks
<1>36. ASSUME NEW topic \in Topics, BrokerSends(topic) PROVE Healthy'
  <2>1. /\ UNCHANGED <<ret, events, suspended, pc, strays, mutex, at, ping_outstanding, respDue, link>>
        /\ in' = Append(in, topic)
    BY <1>36 DEF BrokerSends, quiet, tasks, lock, events_, ping, net
  <2>2. Range(Append(in, topic)) = Range(in) \cup {topic}
    BY Added DEF Typed, Carried, Wire
  <2>3. mutex' => Answered'
    BY <1>1, <2>1, <2>2 DEF Answered, OnItsWay
  <2> QED
    BY <1>1, <1>2, <1>3, <1>8, <2>1, <2>3
<1>37. ASSUME NEW t \in Workers, WakeStray(t) PROVE Healthy'
  BY <1>1, <1>37 DEF WakeStray
<1>38. CASE UNCHANGED vars
  BY <1>1, <1>2, <1>3, <1>7, <1>8, <1>38
     DEF vars, tasks, lock, events_, ping, net, traffic
<1> QED
  BY <1>11, <1>12, <1>13, <1>14, <1>15, <1>16, <1>17, <1>18, <1>19, <1>20, <1>21, <1>22, <1>23, <1>24,
     <1>25, <1>26, <1>27, <1>28, <1>29, <1>30, <1>31, <1>32, <1>33, <1>34, <1>35, <1>36, <1>37, <1>38
     DEF Next, MainLoop, SendThread, RecvThread, Environment

-----------------------------------------------------------------------------
(* Acknowledged messages. *)

(* No worker runs while mainLoop waits for an acknowledgement of its own.  *)
Alone ==
  /\ Runs("send") => cloudStatus \/ pc = "startRecv"
  /\ pc \in {"suspendRecv", "deinit"} => "send" \in suspended

(* On a link that is up a message is of a topic the broker has accepted,   *)
(* and a topic without a handler is the one mainLoop subscribes to: the    *)
(* acknowledgement is on its way, ahead of every message of that topic.    *)
Awaiting == at["main"] = "in" /\ pc \in Topics
Ahead(s, x) == \A i \in DOMAIN s : s[i] = x => \E j \in 1 .. i - 1 : s[j] = "SUBACK"
Attended ==
  /\ link \in {"none", "silent"} => in = << >>
  /\ link = "up" =>
       /\ mutex
       /\ Range(in) \cap Topics \subseteq subs
       /\ \A x \in subs \ handlers : Awaiting /\ x = pc
       /\ pc \in {"CONNACK"} \cup Topics /\ ping_outstanding => OnItsWay("PINGRESP") /\ ~ respDue
       /\ Awaiting => OnItsWay("SUBACK") /\ (pc \in handlers \/ Ahead(in, pc))

(* What a worker does, it does while mainLoop connects to nothing.         *)
LEMMA WorkersLate ==
  ASSUME Located, Started, Alone, NEW t \in Workers, Runs(t)
  PROVE  pc \notin {"CONNACK"} \cup Topics /\ ~ Awaiting
BY DEF Located, Started, Alone, Runs, Workers, Awaiting, Connecting, Topics

(* The acknowledgement stays ahead when something else is read.            *)
LEMMA AheadTail ==
  ASSUME NEW s \in Seq(Wire), s # << >>, Head(s) # "SUBACK", NEW x, Ahead(s, x)
  PROVE  Ahead(Tail(s), x)
<1>1. Len(s) \in Nat /\ Len(s) > 0 /\ DOMAIN s = 1 .. Len(s)
  BY EmptySeq, LenProperties
<1>2. /\ Head(s) = s[1] /\ Tail(s) \in Seq(Wire) /\ Len(Tail(s)) = Len(s) - 1
      /\ \A i \in 1 .. Len(Tail(s)) : Tail(s)[i] = s[i + 1]
  BY <1>1, HeadTailProperties
<1>3. DOMAIN Tail(s) = 1 .. Len(s) - 1
  BY <1>1, <1>2, LenProperties
<1> SUFFICES ASSUME NEW i \in DOMAIN Tail(s), Tail(s)[i] = x
             PROVE  \E j \in 1 .. i - 1 : Tail(s)[j] = "SUBACK"
  BY DEF Ahead
<1>4. i \in Nat /\ i \in 1 .. Len(s) - 1 /\ i + 1 \in DOMAIN s /\ s[i + 1] = x
  BY <1>1, <1>2, <1>3
<1>5. PICK j \in 1 .. (i + 1) - 1 : s[j] = "SUBACK"
  BY <1>4 DEF Ahead
<1>6. j # 1
  BY <1>2, <1>5
<1>7. j - 1 \in 1 .. i - 1 /\ j - 1 \in 1 .. Len(Tail(s)) /\ (j - 1) + 1 = j
  BY <1>1, <1>2, <1>4, <1>5, <1>6
<1>8. Tail(s)[j - 1] = s[j]
  BY <1>2, <1>7
<1> QED
  BY <1>5, <1>7, <1>8

(* It is ahead of what comes after it.                                     *)
LEMMA AheadAppend ==
  ASSUME NEW s \in Seq(Wire), NEW y \in Wire, NEW x, Ahead(s, x), y # x \/ "SUBACK" \in Range(s)
  PROVE  Ahead(Append(s, y), x)
<1>1. /\ Append(s, y) \in Seq(Wire) /\ Len(s) \in Nat /\ Len(Append(s, y)) = Len(s) + 1
      /\ \A i \in 1 .. Len(s) : Append(s, y)[i] = s[i]
      /\ Append(s, y)[Len(s) + 1] = y
  BY AppendProperties, LenProperties
<1>2. DOMAIN s = 1 .. Len(s) /\ DOMAIN Append(s, y) = 1 .. Len(s) + 1
  BY <1>1, LenProperties
<1> SUFFICES ASSUME NEW i \in DOMAIN Append(s, y), Append(s, y)[i] = x
             PROVE  \E j \in 1 .. i - 1 : Append(s, y)[j] = "SUBACK"
  BY DEF Ahead
<1>3. CASE i \in 1 .. Len(s)
  <2>1. PICK j \in 1 .. i - 1 : s[j] = "SUBACK"
    BY <1>1, <1>2, <1>3 DEF Ahead
  <2>2. j \in 1 .. Len(s)
    BY <1>1, <1>3, <2>1
  <2> QED
    BY <1>1, <2>1, <2>2
<1>4. CASE i = Len(s) + 1
  <2>1. PICK j \in 1 .. Len(s) : s[j] = "SUBACK"
    BY <1>1, <1>2, <1>4 DEF Range
  <2> QED
    BY <1>1, <1>4, <2>1
<1> QED
  BY <1>1, <1>2, <1>3, <1>4

(* A turn of cycle takes no message without a handler, and leaves the rest *)
(* of what was on its way.                                                 *)
LEMMA CycleAttends ==
  ASSUME Carried, Scalars, Attended, NEW p \in Range(in) \cup {NULL}, Cycle(p)
  PROVE  /\ (~ missed => ~ missed') /\ UNCHANGED <<link, subs>>
         /\ in = << >> /\ link # "up" => in' = << >>
         /\ Range(in') \subseteq Range(in) \cup {"PINGRESP"}
         /\ p # "SUBACK" /\ OnItsWay("SUBACK") => OnItsWay("SUBACK")'
         /\ \A x \in Topics : p # "SUBACK" /\ Ahead(in, x) => Ahead(in', x)
<1> DEFINE rest == IF p = NULL THEN in ELSE Tail(in)
<1>1. UNCHANGED <<link, subs>>
  BY DEF Cycle, net
<1>2. p # NULL => in # << >> /\ p = Head(in) /\ Tail(in) \in Seq(Wire) /\ Range(in) = Range(Tail(in)) \cup {p}
  BY Taken DEF Cycle, Carried
<1>3. in' = rest \/ (link = "up" /\ in' = Append(rest, "PINGRESP"))
  BY DEF Cycle
<1>4. rest \in Seq(Wire) /\ Range(rest) \subseteq Range(in)
  BY <1>2 DEF Carried
<1>5. "PINGRESP" \in Wire /\ "PINGRESP" \notin Topics
  BY DEF Wire, Acks, Topics
<1>6. Range(Append(rest, "PINGRESP")) = Range(rest) \cup {"PINGRESP"}
  <2> HIDE DEF rest
  <2> QED
    BY <1>4, <1>5, Added
<1>7. ~ missed => ~ missed'
  <2>1. SUFFICES ASSUME p \in Topics \ handlers, Cycled(p).rc # "FAILURE"
                 PROVE  FALSE
    BY DEF Cycle
  <2>2. p # NULL
    BY <2>1, NullAssumption
  <2>3. p \in Range(in) /\ in # << >> /\ p = in[1] /\ 1 \in DOMAIN in
    <3>1. in # << >> /\ p = Head(in)
      BY <1>2, <2>2
    <3>2. Head(in) = in[1] /\ 1 \in DOMAIN in
      BY <3>1, HeadTailProperties, EmptySeq, LenProperties DEF Carried
    <3> QED
      BY <2>2, <3>1, <3>2
  <2>4. CASE link = "reset"
    BY <2>1, <2>4 DEF Cycled, CycledWith
  <2>5. CASE link = "up"
    <3>1. p \in subs \ handlers
      BY <2>1, <2>3, <2>5 DEF Attended
    <3>2. Awaiting /\ p = pc /\ Ahead(in, p)
      BY <2>1, <2>5, <3>1 DEF Attended
    <3>3. \E j \in 1 .. 1 - 1 : in[j] = "SUBACK"
      BY <2>3, <3>2 DEF Ahead
    <3> QED
      BY <3>3
  <2> QED
    BY <2>3, <2>4, <2>5 DEF Attended, Scalars
<1>8. p # "SUBACK" /\ OnItsWay("SUBACK") => "SUBACK" \in Range(rest)
  BY <1>2 DEF OnItsWay
<1>9. \A x \in Topics : p # "SUBACK" /\ Ahead(in, x) => Ahead(rest, x)
  BY <1>2, AheadTail DEF Carried
<1> HIDE DEF rest
<1>10. \A x \in Topics : Ahead(rest, x) => Ahead(Append(rest, "PINGRESP"), x)
  BY <1>4, <1>5, AheadAppend
<1>11. in = << >> /\ link # "up" => in' = << >>
  BY <1>2, <1>3 DEF rest
<1> QED
  BY <1>1, <1>3, <1>4, <1>6, <1>7, <1>8, <1>9, <1>10, <1>11 DEF OnItsWay

(* Every step keeps both: a worker's because mainLoop waits for nothing,   *)
(* mainLoop's because its own acknowledgement is read in its turn.         *)
LEMMA AloneNext == Located /\ Started /\ Alone /\ [Next]_vars => Alone'
<1> SUFFICES ASSUME Located, Started, Alone, [Next]_vars PROVE Alone'
  OBVIOUS
<1> USE DEF Alone, Runs, Ended, Workers
<1>1. ASSUME UNCHANGED <<pc, tasks, cloudStatus>> PROVE Alone'
  BY <1>1 DEF tasks
<1>2. CASE TakeRouter \/ TakeLost \/ Disconnect \/ DisconnectAgain \/ Open \/ Connack
  BY <1>2 DEF TakeRouter, TakeLost, Disconnect, DisconnectAgain, Open, Connack, tasks, mainVars
<1>3. CASE OpenFails \/ ConnackFails
  BY <1>3 DEF OpenFails, ConnackFails, ConnectFails, BackOff, tasks
<1>4. CASE Subscribe \/ Suback \/ SubscribeExpires
  BY <1>4 DEF Subscribe, Suback, SubscribeExpires, Subscribing, NextCall, Topics, tasks, mainVars
<1>5. CASE StartSend \/ StartRecv
  BY <1>5 DEF StartSend, StartRecv, Start, mainVars
<1>6. CASE Deinit
  BY <1>6 DEF Deinit, tasks
<1>7. CASE Suspend("send", "suspendRecv") \/ Suspend("recv", "deinit")
  BY <1>7 DEF Suspend, mainVars
<1>8. CASE MainTurn \/ SendThread \/ RecvThread
  BY <1>1, <1>8 DEF MainTurn, SendThread, RecvThread, PopPacket, LockPublish, PublishTurn,
     PublishExpires, LockYield, YieldTurn, YieldReturns, steady, mainVars
<1>9. ASSUME NEW t \in Workers, WakeStray(t) PROVE Alone'
  BY <1>9 DEF WakeStray, tasks, mainVars
<1>10. CASE Environment
  BY <1>1, <1>10 DEF Environment, RouterUp, AddPacket, PingTimerExpires, RespTimerExpires,
     LinkBreaks, BrokerSends, quiet
<1>11. CASE UNCHANGED vars
  BY <1>1, <1>11 DEF vars, mainVars
<1> QED
  BY <1>2, <1>3, <1>4, <1>5, <1>6, <1>7, <1>8, <1>9, <1>10, <1>11 DEF Next, MainLoop

(* A step takes an acknowledgement from mainLoop only by giving it to it.  *)
LEMMA AttendedNext ==
  Timely /\ Typed /\ Located /\ Started /\ Alone /\ Attended /\ AcknowledgedDelivered /\ [Next]_vars
    => Attended' /\ AcknowledgedDelivered'
<1> SUFFICES ASSUME Timely, Typed, Located, Started, Alone, Attended, ~ missed, [Next]_vars
             PROVE  Attended' /\ ~ missed'
  BY DEF AcknowledgedDelivered
<1> USE DEF Typed
<1> DEFINE Asks(q) == q \in {"CONNACK"} \cup Topics
           Same == UNCHANGED <<link, in, subs, missed>>
<1>w. ASSUME NEW t \in Workers, Runs(t) PROVE ~ Asks(pc) /\ ~ Awaiting
  BY <1>w, WorkersLate
<1>c. ASSUME NEW p \in Range(in) \cup {NULL}, Cycle(p)
      PROVE  /\ ~ missed' /\ UNCHANGED <<link, subs>>
             /\ link # "up" /\ in = << >> => in' = << >>
             /\ link = "up" => Range(in') \cap Topics \subseteq subs
             /\ p # "SUBACK" /\ OnItsWay("SUBACK") => OnItsWay("SUBACK")'
             /\ \A x \in Topics : p # "SUBACK" /\ Ahead(in, x) => Ahead(in', x)
  <2>1. link = "up" => Range(in') \cap Topics \subseteq subs
    <3>1. Range(in') \subseteq Range(in) \cup {"PINGRESP"} /\ "PINGRESP" \notin Topics
      BY <1>c, CycleAttends DEF Topics
    <3> QED
      BY <3>1 DEF Attended
  <2> QED
    BY <1>c, <2>1, CycleAttends
<1>a. ASSUME NEW p \in Range(in) \cup {NULL}, Cycle(p), link = "up", Asks(pc)
      PROVE  /\ ping_outstanding' => OnItsWay("PINGRESP")' /\ ~ respDue'
             /\ Cycled(p).rc = p
  <2>1. Answered
    BY <1>a DEF Attended, Answered
  <2> QED
    BY <1>a, <2>1, CycleAnswered DEF Answered
<1> HIDE DEF Asks, Same
<1>s. ASSUME UNCHANGED <<link, in, subs, missed, mutex, handlers, ping_outstanding, respDue>>,
             \/ UNCHANGED <<pc, at>>
             \/ ~ Asks(pc') /\ ~ Awaiting
      PROVE  Attended' /\ ~ missed'
  BY <1>s DEF Attended, Awaiting, OnItsWay, Asks
<1>1. CASE TakeRouter
  BY <1>1, <1>s DEF TakeRouter, lock, ping, client, net, traffic, Asks, Topics, Awaiting
<1>2. CASE OpenFails \/ ConnackFails
  <2>1. /\ ~ mutex' /\ UNCHANGED missed /\ ~ Asks(pc')
        /\ \/ UNCHANGED <<link, in>> /\ link # "up"
           \/ link' = "none" /\ in' = << >>
    BY <1>2 DEF OpenFails, ConnackFails, ConnectFails, BackOff, net, traffic, Asks, Topics, Located,
       Attended
  <2> QED
    BY <2>1 DEF Attended
<1>3. CASE Open
  <2>1. /\ link' = "up" /\ mutex' = TRUE /\ subs' = {} /\ UNCHANGED missed /\ ~ ping_outstanding'
        /\ in' = <<"CONNACK">> /\ pc' = "CONNACK"
    BY <1>3 DEF Open
  <2>2. Range(in') \cap Topics = {}
    BY <2>1 DEF Range, Topics
  <2> QED
    BY <2>1, <2>2 DEF Attended, Awaiting, Topics
<1>4. CASE Connack
  <2>1. PICK p \in Range(in) : Cycle(p) /\ Cycled(p).rc = "CONNACK"
    BY <1>4 DEF Connack
  <2>2. /\ pc = "CONNACK" /\ pc' = "mac" /\ UNCHANGED <<handlers, mutex>> /\ at'["main"] = "out"
        /\ link = "up" \/ link = "reset"
    <3>1. in # << >>
      BY <2>1 DEF Range
    <3> QED
      BY <1>4, <3>1 DEF Connack, Unlock, Goes, Attended, Scalars, Threads
  <2>3. link = "up" => (ping_outstanding' => OnItsWay("PINGRESP")' /\ ~ respDue')
    BY <1>a, <2>1, <2>2 DEF Asks
  <2>4. ~ Awaiting /\ ~ Awaiting'
    BY <2>2 DEF Awaiting, Topics
  <2> QED
    BY <1>c, <2>1, <2>2, <2>3, <2>4 DEF Attended
<1>5. CASE Subscribe
  <2>1. CASE link = "up"
    <3>1. /\ Request("SUBACK") /\ pc \in Topics /\ UNCHANGED <<pc, mutex, link, handlers>>
          /\ at["main"] = "out" /\ at'["main"] = "in" /\ subs' = subs \cup {pc}
      BY <1>5, <2>1 DEF Subscribe, Subscribing, Goes, client, Scalars, Threads
    <3>2. in' = Append(in, "SUBACK") /\ UNCHANGED <<missed, ping_outstanding, respDue>>
      BY <2>1, <3>1 DEF Request
    <3>3. Range(in') = Range(in) \cup {"SUBACK"} /\ "SUBACK" \notin Topics
      BY <3>2, Added DEF Carried, Wire, Acks, Topics
    <3>4. ~ Awaiting /\ Awaiting'
      BY <3>1 DEF Awaiting
    <3>5. pc \in handlers \/ Ahead(in', pc)
      <4>1. SUFFICES ASSUME pc \notin handlers PROVE Ahead(in', pc)
        OBVIOUS
      <4>2. pc \notin Range(in)
        BY <2>1, <3>1, <3>4, <4>1 DEF Attended
      <4>3. Ahead(in, pc)
        BY <4>2 DEF Ahead, Range
      <4>4. "SUBACK" # pc /\ "SUBACK" \in Wire
        BY <3>1, <3>3 DEF Wire, Acks
      <4> QED
        BY <3>2, <4>3, <4>4, AheadAppend DEF Carried
    <3>6. OnItsWay("SUBACK")' /\ (OnItsWay("PINGRESP") => OnItsWay("PINGRESP")')
      BY <3>3 DEF OnItsWay
    <3>7. \A x \in subs' \ handlers' : Awaiting' /\ x = pc'
      BY <2>1, <3>1, <3>4 DEF Attended
    <3>8. Range(in') \cap Topics \subseteq subs'
      BY <2>1, <3>1, <3>3 DEF Attended
    <3>9. ping_outstanding' => OnItsWay("PINGRESP")' /\ ~ respDue'
      BY <2>1, <3>1, <3>2, <3>6 DEF Attended
    <3> QED
      BY <2>1, <3>1, <3>2, <3>5, <3>6, <3>7, <3>8, <3>9 DEF Attended
  <2>2. CASE link # "up"
    <3>1. UNCHANGED <<link, in, missed>>
      BY <1>5, <2>2 DEF Subscribe, Request, traffic
    <3> QED
      BY <2>2, <3>1 DEF Attended
  <2> QED
    BY <2>1, <2>2
<1>6. CASE Suback
  <2>1. PICK p \in Range(in) : Cycle(p) /\ Cycled(p).rc = "SUBACK"
    BY <1>6 DEF Suback
  <2>2. /\ Awaiting /\ Asks(pc) /\ handlers' = handlers \cup {pc} /\ UNCHANGED mutex
        /\ at'["main"] = "out" /\ in # << >>
    BY <1>6, <2>1 DEF Suback, Subscribing, Awaiting, Asks, Unlock, Goes, Scalars, Threads, Range
  <2>3. link = "up" => (ping_outstanding' => OnItsWay("PINGRESP")' /\ ~ respDue')
    BY <1>a, <2>1, <2>2
  <2>4. ~ Awaiting'
    BY <2>2 DEF Awaiting
  <2>5. link = "up" => subs' \ handlers' = {}
    BY <1>c, <2>1, <2>2 DEF Attended
  <2> QED
    BY <1>c, <2>1, <2>2, <2>3, <2>4, <2>5 DEF Attended
<1>7. CASE SubscribeExpires
  <2>1. link # "up" /\ UNCHANGED <<link, in, missed>>
    BY <1>7 DEF SubscribeExpires, Subscribing, MayExpire, Attended, Awaiting, net, traffic
  <2> QED
    BY <2>1 DEF Attended
<1>8. CASE StartSend \/ StartRecv \/ TakeLost
  BY <1>8, <1>s DEF StartSend, StartRecv, TakeLost, lock, ping, client, net, traffic, Asks, Topics,
     Awaiting
<1>9. CASE Disconnect \/ DisconnectAgain
  BY <1>9, <1>s DEF Disconnect, DisconnectAgain, lock, ping, client, net, traffic, Asks, Topics,
     Awaiting
<1>10. CASE Suspend("send", "suspendRecv") \/ Suspend("recv", "deinit")
  BY <1>10, <1>s DEF Suspend, lock, ping, client, net, traffic, Asks, Topics, Awaiting
<1>11. CASE Deinit
  BY <1>11 DEF Deinit, Attended
<1>12. CASE MainTurn
  <2>1. PICK p \in Range(in) \cup {NULL} :
          Cycle(p) /\ Cycled(p).rc # (IF pc = "CONNACK" THEN "CONNACK" ELSE "SUBACK")
    BY <1>12 DEF MainTurn
  <2>2. UNCHANGED <<pc, at, mutex, handlers>>
    BY <1>12 DEF MainTurn, lock, client
  <2>3. CASE link = "up"
    <3>1. Asks(pc) => (ping_outstanding' => OnItsWay("PINGRESP")' /\ ~ respDue')
      BY <1>a, <2>1, <2>3
    <3>2. Awaiting => p # "SUBACK"
      BY <1>a, <2>1, <2>3 DEF Awaiting, Asks, Topics
    <3>3. Awaiting => OnItsWay("SUBACK")' /\ (pc \in handlers \/ Ahead(in', pc))
      BY <1>c, <2>1, <2>3, <3>2 DEF Attended, Awaiting
    <3>4. Awaiting' = Awaiting
      BY <2>2 DEF Awaiting
    <3> QED
      BY <1>c, <2>1, <2>2, <2>3, <3>1, <3>3, <3>4 DEF Attended, Asks
  <2>4. CASE link # "up"
    BY <1>c, <2>1, <2>4 DEF Attended
  <2> QED
    BY <2>3, <2>4
<1>13. CASE PopPacket
  BY <1>13, <1>s, <1>w DEF PopPacket, steady, lock, ping, client, net, traffic, Workers
<1>14. ASSUME NEW t \in Workers, Runs(t), UNCHANGED <<mutex, handlers, link, subs>>, pc' \in {pc, "halt"},
              Goes(t, "in") \/ Goes(t, "out") \/ Goes(t, "lock") \/ UNCHANGED at,
              Request("PUBACK") \/ UNCHANGED <<in, missed>>
       PROVE  Attended' /\ ~ missed'
  <2>1. ~ Asks(pc) /\ ~ Awaiting
    BY <1>14, <1>w
  <2>2. ~ Asks(pc') /\ ~ Awaiting'
    BY <1>14, <2>1 DEF Asks, Awaiting, Topics
  <2>3. link # "up" => UNCHANGED in
    BY <1>14 DEF Request
  <2>4. Range(in') \cap Topics \subseteq Range(in) /\ ~ missed'
    <3>1. Range(Append(in, "PUBACK")) = Range(in) \cup {"PUBACK"} /\ "PUBACK" \notin Topics
      BY Added DEF Carried, Wire, Acks, Topics
    <3>2. CASE UNCHANGED <<in, missed>>
      BY <3>2
    <3>3. CASE Request("PUBACK")
      <4>1. ~ missed' /\ (in' = in \/ in' = Append(in, "PUBACK"))
        BY <3>3 DEF Request
      <4> QED
        BY <3>1, <4>1
    <3> QED
      BY <1>14, <3>2, <3>3
  <2> QED
    BY <1>14, <2>1, <2>2, <2>3, <2>4 DEF Attended, Asks
<1>15. CASE LockPublish
  BY <1>14, <1>15 DEF LockPublish, Publish, steady, client, net, traffic, Workers
<1>16. ASSUME NEW t \in Workers, WakeStray(t) PROVE Attended' /\ ~ missed'
  BY <1>14, <1>16 DEF WakeStray, Publish, client, net, traffic
<1>17. CASE PublishTurn \/ YieldTurn
  <2>1. PICK p \in Range(in) \cup {NULL} : Cycle(p)
    BY <1>17 DEF PublishTurn, YieldTurn
  <2>2. UNCHANGED <<pc, mutex, handlers>>
    BY <1>17 DEF PublishTurn, YieldTurn, steady, client, lock, Unlock
  <2>3. ~ Asks(pc) /\ ~ Awaiting
    BY <1>17, <1>w DEF PublishTurn, YieldTurn, Workers
  <2>4. ~ Asks(pc') /\ ~ Awaiting'
    BY <2>2, <2>3 DEF Asks, Awaiting
  <2> QED
    BY <1>c, <2>1, <2>2, <2>3, <2>4 DEF Attended, Asks
<1>18. CASE PublishExpires \/ LockYield \/ YieldReturns
  BY <1>18, <1>s, <1>w DEF PublishExpires, LockYield, YieldReturns, Unlock, steady, lock, ping, client,
     net, traffic, Workers
<1>19. CASE RouterUp \/ AddPacket
  BY <1>19, <1>s DEF RouterUp, AddPacket, quiet, lock, ping, client, net, traffic
<1>20. CASE PingTimerExpires
  BY <1>20, <1>s DEF PingTimerExpires, quiet, lock, client, net, traffic
<1>21. CASE RespTimerExpires
  <2>1. UNCHANGED <<link, in, subs, missed, mutex, handlers, ping_outstanding, pc, at>>
    BY <1>21 DEF RespTimerExpires, quiet, lock, client, net, traffic
  <2>2. link = "up" /\ Asks(pc) => ~ ping_outstanding
    BY <1>21 DEF RespTimerExpires, MayExpire, Attended, Asks
  <2> QED
    BY <2>1, <2>2 DEF Attended, Awaiting, OnItsWay, Asks
<1>22. CASE LinkBreaks
  BY <1>22 DEF LinkBreaks, Attended
<1>23. ASSUME NEW topic \in Topics, BrokerSends(topic) PROVE Attended' /\ ~ missed'
  <2>1. /\ link = "up" /\ topic \in subs /\ in' = Append(in, topic)
        /\ UNCHANGED <<link, subs, missed, mutex, handlers, pc, at, ping_outstanding, respDue>>
    BY <1>23 DEF BrokerSends, quiet, lock, client, net, ping
  <2>2. Range(in') = Range(in) \cup {topic}
    BY <2>1, Added DEF Carried, Wire
  <2>3. \A y : OnItsWay(y) => OnItsWay(y)'
    BY <2>2 DEF OnItsWay
  <2>4. Awaiting /\ (pc \in handlers \/ Ahead(in, pc)) => pc \in handlers \/ Ahead(in', pc)
    <3>1. Awaiting => "SUBACK" \in Range(in)
      BY <2>1 DEF Attended, OnItsWay
    <3> QED
      BY <2>1, <3>1, AheadAppend DEF Carried, Wire
  <2>5. Awaiting' = Awaiting
    BY <2>1 DEF Awaiting
  <2> QED
    BY <2>1, <2>2, <2>3, <2>4, <2>5 DEF Attended
<1>24. CASE UNCHANGED vars
  BY <1>24, <1>s DEF vars, lock, ping, client, net, traffic
<1> QED
  BY <1>1, <1>2, <1>3, <1>4, <1>5, <1>6, <1>7, <1>8, <1>9, <1>10, <1>11, <1>12, <1>13, <1>15, <1>16,
     <1>17, <1>18, <1>19, <1>20, <1>21, <1>22, <1>23, <1>24
     DEF Next, MainLoop, SendThread, RecvThread, Environment

-----------------------------------------------------------------------------
(* The theorems. *)

IInv == Typed /\ Located /\ Exclusive /\ Started /\ Room /\ RetryPending /\ Counted

(* At the start nothing runs, and nothing is counted.                      *)
LEMMA Initially == Init => IInv
<1> SUFFICES ASSUME Init PROVE IInv
  OBVIOUS
<1>1. << >> \in Seq(Kinds) /\ << >> \in Seq(Wire) /\ Len(<< >>) = 0 /\ Range(<< >>) = {}
  BY EmptySeq DEF Range
<1>2. Queued /\ Carried
  BY <1>1, SessionAssumption DEF Init, Queued, Carried
<1>6. Scalars
  BY DEF Init, Scalars, Threads
<1>3. Located /\ Exclusive
  BY DEF Init, Located, Exclusive, Connecting, Topics, Threads
<1>4. Started /\ Room /\ RetryPending
  BY <1>1 DEF Init, Started, Room, RetryPending, Leaving, OnQueue
<1>5. Counted
  BY Numbers DEF Init, Counted
<1> QED
  BY <1>2, <1>3, <1>4, <1>5, <1>6 DEF IInv, Typed

(* Every step keeps the invariant.                                         *)
LEMMA Stays == IInv /\ [Next]_vars => IInv'
BY QueuedNext, CarriedNext, ScalarsNext, LocatedNext, ExclusiveNext, StartedNext, RetryNext, CountedNext
   DEF IInv, Typed

(* The invariant holds in every reachable state.                           *)
LEMMA Invariance == Spec => []IInv
BY Initially, Stays, PTL DEF Spec

(* The event queue and the buffers keep within their capacity, the mutex   *)
(* is held from inside the client only, and only threads that were created *)
(* are suspended.                                                          *)
THEOREM TypeCorrect == Spec => []TypeOK
<1>1. IInv => TypeOK
  <2> SUFFICES ASSUME IInv PROVE TypeOK
    OBVIOUS
  <2>1. Range(events) \subseteq {"router", "lost"} /\ Range(in) \subseteq Acks \cup Topics
    BY InRange DEF IInv, Typed, Queued, Carried, Kinds, Wire
  <2>2. strays \subseteq Workers \cap Inside
    BY DEF IInv, Typed, Scalars, Exclusive, Inside, Threads, Workers
  <2>3. holder # NULL => mutex /\ at[holder] = "in"
    BY DEF IInv, Exclusive
  <2> QED
    BY <2>1, <2>2, <2>3 DEF IInv, Typed, Queued, Carried, Scalars, Started, Counted, TypeOK
<1> QED
  BY <1>1, Invariance, PTL

(* Within a session every command keeps its acknowledgement to itself: two *)
(* threads read the socket at once only after a teardown caught one of     *)
(* them inside (EJ_user_uninit_MQTTThread, ej_user_mqtt.c; MQTTClient.c).  *)
THEOREM OneInside == Spec => []OnlyStraysOverlap
<1>1. IInv => OnlyStraysOverlap
  <2> SUFFICES ASSUME IInv, strays = {} PROVE ~ Cardinality(Inside) > 1
    BY DEF OnlyStraysOverlap
  <2>1. Inside \subseteq {holder}
    BY DEF IInv, Exclusive, Inside
  <2>2. Cardinality({holder}) = 1 /\ IsFiniteSet({holder})
    BY FS_Singleton
  <2>3. Cardinality(Inside) <= 1 /\ Cardinality(Inside) \in Nat
    BY <2>1, <2>2, FS_Subset, FS_CardinalityType
  <2> QED
    BY <2>3
<1> QED
  BY <1>1, Invariance, PTL

(* A module that has an address and no session is trying to get one: the   *)
(* retry put in the event queue finds room (EJ_user_connectServer).        *)
THEOREM RetryIsKept == Spec => []RetryPending
<1>1. IInv => RetryPending
  BY DEF IInv
<1> QED
  BY <1>1, Invariance, PTL

(* The module reboots at the eighth attempt that fails in a row and not    *)
(* before (EJ_user_connectServer).                                         *)
THEOREM EighthReboots == Spec => RebootAtEighth
<1>1. IInv /\ [Next]_vars => [pc' = "reboot" <=> fails' = 8 /\ fails = 7]_<<pc, fails>>
  <2> SUFFICES ASSUME IInv, [Next]_vars, <<pc, fails>>' # <<pc, fails>>
               PROVE  pc' = "reboot" <=> fails' = 8 /\ fails = 7
    OBVIOUS
  <2>1. pc # "reboot"
    BY CountShapes DEF CountVars
  <2> QED
    BY <2>1, CountedNext DEF IInv
<1> QED
  BY <1>1, Invariance, PTL DEF RebootAtEighth, Spec

(* When the answers that are coming arrive in time, no loss is reported as *)
(* long as the link holds, whichever thread reads the answers to the pings *)
(* the others sent (cycle and keepalive of MQTTClient.c).                  *)
THEOREM HealthyLinkStays == Timely /\ Spec => []HealthyLinkKept
<1>1. Timely /\ Init => IInv /\ Healthy
  <2> SUFFICES ASSUME Init PROVE Healthy
    BY Initially
  <2>1. Range(<< >>) = {}
    BY DEF Range
  <2> QED
    BY <2>1 DEF Init, Healthy, OnQueue, Leaving, Workers, Threads
<1>2. Timely /\ IInv /\ Healthy /\ [Next]_vars => (IInv /\ Healthy)'
  BY Stays, HealthyNext DEF IInv
<1>3. Timely => Timely'
  OBVIOUS
<1>4. Healthy => HealthyLinkKept
  BY DEF Healthy, HealthyLinkKept, Leaving
<1> QED
  BY <1>1, <1>2, <1>3, <1>4, PTL DEF Spec

(* When the answers that are coming arrive in time, every message that was *)
(* acknowledged went to a handler, in however many sessions and whoever a  *)
(* teardown left inside the client (cycle and MQTTSubscribe of             *)
(* MQTTClient.c): mainLoop subscribes while no other thread runs there.    *)
THEOREM AcknowledgedIsDelivered == Timely /\ Spec => []AcknowledgedDelivered
<1> DEFINE Inv == IInv /\ Alone /\ Attended /\ AcknowledgedDelivered
<1>1. Timely /\ Init => Inv
  BY Initially DEF Init, Alone, Runs, Attended, AcknowledgedDelivered
<1>2. Timely /\ Inv /\ [Next]_vars => Inv'
  BY Stays, AloneNext, AttendedNext DEF IInv
<1>3. Timely => Timely'
  OBVIOUS
<1>4. Inv => AcknowledgedDelivered
  OBVIOUS
<1> QED
  BY <1>1, <1>2, <1>3, <1>4, PTL DEF Spec
=============================================================================
