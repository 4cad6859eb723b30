------------------------- MODULE SmartConnectProofs -------------------------
(***************************************************************************)
(* What TLAPS proves of the smart connection, for every size of the queue, *)
(* every number of channels, of frames and of requests: its variables have *)
(* their types, a frame that waits is never overwritten, the queue is used *)
(* only while it exists, and the timer follows the decoder, each with the  *)
(* exceptions its property names.                                          *)
(***************************************************************************)
EXTENDS SmartConnect, SequenceTheorems, TLAPS

-----------------------------------------------------------------------------
(* The inductive invariant, in parts. *)

(* The buffer that is filled k frames before buffer b. *)
Back(b, k) == IF k <= b THEN b - k ELSE b + QueueSize + 1 - k

(* TypeOK, with the fields the records have. *)
Typed == /\ TypeOK
         /\ queue \in [exists : BOOLEAN, items : Seq(Buffers)]
         /\ joy \in [state : {"continue", "locked", "complete"},
                     prob : 0..Enough + Boost, got : SUBSET (Syncs \cup Data)]

(* The frames in the queue are the last that were filled, in order, and    *)
(* the one being decoded was filled before them.                           *)
Ring == /\ \A i \in 1..Len(queue.items) :
             queue.items[i] = Back(idx, Len(queue.items) + 1 - i)
        /\ thread = "decode" => cur = Back(idx, Len(queue.items) + 1)

(* Unless the task was restarted or ended while it was used, the queue     *)
(* exists as long as the task may use it, and the driver as well.          *)
Alive == \/ history \cap {"overlap", "restart"} # {}
         \/ /\ "dead" \notin history /\ ~ again
            /\ thread \notin {"none", "give"} => queue.exists
            /\ thread \in {"none", "deinit", "give"} => ~ listens /\ driver = "idle"

(* TimerFollows, from the first request on. *)
Following == \/ history \cap {"restart", "raced"} # {}
             \/ /\ thread # "none" /\ joy.state = "continue" => timer # "off"
                /\ joy.state # "continue" => timer = "off"
                /\ ~ again

IInv == Typed /\ Ring /\ Alive /\ Following

-----------------------------------------------------------------------------
(* The buffers and the decoder. *)

(* The numbers that the ring is made of. *)
LEMMA RingNumbers ==
  ASSUME Typed
  PROVE  /\ QueueSize \in Nat /\ QueueSize > 0 /\ idx \in 0..QueueSize
         /\ queue.items \in Seq(Buffers) /\ Len(queue.items) \in 0..QueueSize
         /\ queue \in [exists : BOOLEAN, items : Seq(Buffers)]
<1>1. QueueSize \in Nat /\ QueueSize > 0
  BY SmartConnectAssumption
<1>2. /\ queue.items \in Seq(Buffers) /\ Len(queue.items) <= QueueSize
      /\ queue \in [exists : BOOLEAN, items : Seq(Buffers)] /\ idx \in Buffers
  BY DEF Typed, TypeOK
<1>3. Len(queue.items) \in Nat
  BY <1>2, LenProperties
<1> QED
  BY <1>1, <1>2, <1>3 DEF Buffers

(* There is always a next channel. *)
LEMMA NextChannel ==
  ASSUME NEW c \in Nat
  PROVE  c % Channels \in 0..Channels - 1
<1>1. Channels \in Nat /\ Channels > 0
  BY SmartConnectAssumption
<1> QED
  BY <1>1

(* The next buffer is the following one, or the first after the last. *)
LEMMA NextBufferValue ==
  ASSUME NEW i \in Buffers
  PROVE  NextBuffer(i) = (IF i = QueueSize THEN 0 ELSE i + 1) /\ NextBuffer(i) \in Buffers
BY SmartConnectAssumption DEF NextBuffer, Buffers

(* Counted from the next buffer, every other one is one frame further back. *)
LEMMA BackNext ==
  ASSUME NEW b \in Buffers, NEW k \in 1..QueueSize
  PROVE  Back(NextBuffer(b), k + 1) = Back(b, k) /\ Back(NextBuffer(b), 1) = b
<1>1. NextBuffer(b) = (IF b = QueueSize THEN 0 ELSE b + 1)
  BY NextBufferValue
<1> QED
  BY <1>1, SmartConnectAssumption DEF Back, Buffers

(* What a frame does to the decoder keeps the types of its fields. *)
LEMMA RecognisedType ==
  ASSUME NEW f \in Air, Typed
  PROVE  Recognised(f) \in [state : {"continue", "locked", "complete"},
                            prob : 0..Enough + Boost, got : SUBSET (Syncs \cup Data)]
<1>1. joy.state \in {"continue", "locked", "complete"} /\ joy.prob \in 0..Enough + Boost
      /\ joy.got \in SUBSET (Syncs \cup Data)
  BY DEF Typed
<1>2. Boosted(joy.prob) \in 0..Enough + Boost
  BY <1>1, SmartConnectAssumption DEF Boosted
<1>3. CASE joy.state = "continue" /\ f \in Syncs
  BY <1>1, <1>2, <1>3 DEF Recognised, Locks, Typed
<1>4. CASE joy.state = "locked" /\ f \in Data
  BY <1>1, <1>2, <1>4 DEF Recognised
<1> QED
  BY <1>3, <1>4 DEF Recognised, Typed

(* A frame that leaves the decoder searching found it searching, and one   *)
(* that ends the search locks the channel.                                 *)
LEMMA LockedOnce ==
  ASSUME NEW f, Typed
  PROVE  Recognised(f).state = "continue" <=>
           joy.state = "continue" /\ ~ Recognised(f).state = "locked"
<1>1. joy.state \in {"continue", "locked", "complete"}
  BY DEF Typed, TypeOK
<1>2. CASE joy.state = "continue" /\ f \in Syncs
  <2>1. Recognised(f) = IF joy.got \cup {f} = Syncs THEN Locks(joy.prob)
                        ELSE [joy EXCEPT !.prob = Boosted(@), !.got = @ \cup {f}]
    BY <1>2 DEF Recognised
  <2> QED
    BY <1>2, <2>1 DEF Locks, Typed
<1>3. CASE joy.state = "locked" /\ f \in Data
  BY <1>3 DEF Recognised
<1>4. CASE ~ (joy.state = "continue" /\ f \in Syncs) /\ ~ (joy.state = "locked" /\ f \in Data)
  <2>1. Recognised(f) = joy
    BY <1>4 DEF Recognised
  <2> QED
    BY <1>1, <2>1
<1> QED
  BY <1>2, <1>3, <1>4

-----------------------------------------------------------------------------
(* The types. *)

(* At the start every variable has its type.                               *)
LEMMA TypedInit == Init => Typed
<1> SUFFICES ASSUME Init PROVE Typed
  OBVIOUS
<1>1. 0 \in Buffers /\ Home \in 0..Channels - 1 /\ 0 \in 0..Requests /\ 0 \in 0..Drops
      /\ 0 \in 0..Enough + Boost
  BY SmartConnectAssumption DEF Buffers, Home
<1>2. bufs \in [Buffers -> Air]
  BY DEF Init, Air
<1>3. queue \in [exists : BOOLEAN, items : Seq(Buffers)] /\ Len(queue.items) <= QueueSize
  BY SmartConnectAssumption DEF Init
<1>4. joy \in [state : {"continue", "locked", "complete"},
               prob : 0..Enough + Boost, got : SUBSET (Syncs \cup Data)]
  BY <1>1 DEF Init, Fresh
<1> QED
  BY <1>1, <1>2, <1>3, <1>4 DEF Init, Typed, TypeOK

(* The queue after a step that leaves the frames s in it. *)
LEMMA QueueType ==
  ASSUME NEW e \in BOOLEAN, NEW s \in Seq(Buffers), Len(s) <= QueueSize, e \/ s = << >>
  PROVE  LET q == [exists |-> e, items |-> s]
         IN /\ q \in [exists : BOOLEAN, items : Seq(Buffers)]
            /\ q.exists = e /\ q.items = s /\ Len(q.items) <= QueueSize
            /\ ~ q.exists => q.items = << >>
OBVIOUS

(* Every step keeps the types.                                             *)
LEMMA TypedNext == Typed /\ [Next]_vars => Typed'
<1> SUFFICES ASSUME Typed, [Next]_vars PROVE Typed'
  OBVIOUS
<1> USE SmartConnectAssumption DEF Typed, TypeOK
<1>0. 0 \in Buffers /\ Home \in 0..Channels - 1 /\ Other \in Air
  BY DEF Buffers, Home, Air
<1>1. CASE Connect
  <2>1. queue' = [exists |-> TRUE, items |-> queue.items]
    BY <1>1 DEF Connect
  <2>2. joy' \in [state : {"continue", "locked", "complete"},
                  prob : 0..Enough + Boost, got : SUBSET (Syncs \cup Data)]
    BY <1>1 DEF Connect, Fresh
  <2>3. /\ thread' \in {"none", "begin", "wait", "decode", "done", "deinit", "give"}
        /\ {again, listens}' \subseteq BOOLEAN /\ channel' \in 0..Channels - 1
        /\ timer' \in {"off", "armed", "switch", "rearm"}
    BY <1>0, <1>1 DEF Connect, CreateTask
  <2>4. /\ asked' \in 0..Requests /\ status' \in {"pre", "data", "fin"}
        /\ history' \subseteq {"dead", "raced", "stale", "overlap", "restart"}
        /\ UNCHANGED <<bufs, idx, cur, driver, flag, drops>>
    BY <1>1 DEF Connect
  <2> QED
    BY <2>1, <2>2, <2>3, <2>4
<1>2. CASE Stop
  BY <1>2 DEF Stop
<1>3. ASSUME NEW f \in Air, DriverCopy(f) PROVE Typed'
  BY <1>3 DEF DriverCopy
<1>4. CASE DriverQueue
  <2>1. idx' \in Buffers /\ bufs' \in [Buffers -> Air]
    <3>1. NextBuffer(idx) \in Buffers
      BY NextBufferValue
    <3>2. Dropped(idx) \in [Buffers -> Air]
      BY <1>0 DEF Dropped
    <3> QED
      BY <1>4, <3>1, <3>2 DEF DriverQueue
  <2>2. queue' \in [exists : BOOLEAN, items : Seq(Buffers)]
        /\ Len(queue'.items) <= QueueSize /\ (~ queue'.exists => queue'.items = << >>)
    <3>1. CASE UNCHANGED queue
      BY <3>1
    <3>2. CASE /\ queue.exists /\ Len(queue.items) < QueueSize
               /\ queue' = [queue EXCEPT !.items = Append(@, idx)]
      <4>1. queue' = [exists |-> TRUE, items |-> Append(queue.items, idx)]
        BY <3>2
      <4>2. Len(queue.items) \in Nat /\ QueueSize \in Nat
        OBVIOUS
      <4>3. Append(queue.items, idx) \in Seq(Buffers)
            /\ Len(Append(queue.items, idx)) = Len(queue.items) + 1
        BY AppendProperties
      <4>4. Len(Append(queue.items, idx)) <= QueueSize
        BY <3>2, <4>2, <4>3
      <4> HIDE DEF Typed, TypeOK
      <4> QED
        BY <4>1, <4>3, <4>4, QueueType
    <3> QED
      BY <1>4, <3>1, <3>2 DEF DriverQueue
  <2>3. /\ driver' = "idle" /\ history' \subseteq {"dead", "raced", "stale", "overlap", "restart"}
        /\ UNCHANGED <<thread, again, cur, listens, timer, channel, joy, status, flag, asked, drops>>
    BY <1>4 DEF DriverQueue
  <2> QED
    BY <2>1, <2>2, <2>3
<1>5. CASE DriverDrops
  BY <1>0, <1>5 DEF DriverDrops, Dropped
<1>6. CASE Begin
  BY <1>6 DEF Begin
<1>7. CASE Take
  <2>1. cur' \in Buffers /\ queue' \in [exists : BOOLEAN, items : Seq(Buffers)]
        /\ Len(queue'.items) <= QueueSize /\ (~ queue'.exists => queue'.items = << >>)
    <3>1. CASE UNCHANGED <<cur, queue>>
      BY <3>1
    <3>2. CASE /\ queue.exists /\ queue.items # << >> /\ cur' = Head(queue.items)
               /\ queue' = [queue EXCEPT !.items = Tail(@)]
      <4>1. queue' = [exists |-> TRUE, items |-> Tail(queue.items)]
        BY <3>2
      <4>2. Len(queue.items) \in Nat /\ QueueSize \in Nat
        OBVIOUS
      <4>3. Head(queue.items) \in Buffers /\ Tail(queue.items) \in Seq(Buffers)
            /\ Len(Tail(queue.items)) = Len(queue.items) - 1
        BY <3>2, HeadTailProperties
      <4>4. Len(Tail(queue.items)) <= QueueSize
        BY <4>2, <4>3
      <4> HIDE DEF Typed, TypeOK
      <4> QED
        BY <3>2, <4>1, <4>3, <4>4, QueueType
    <3> QED
      BY <1>7, <3>1, <3>2 DEF Take
  <2>2. /\ thread' \in {"wait", "decode"}
        /\ history' \subseteq {"dead", "raced", "stale", "overlap", "restart"}
        /\ UNCHANGED <<again, bufs, idx, driver, listens, timer, channel, joy, status, flag,
                       asked, drops>>
    BY <1>7 DEF Take
  <2> QED
    BY <2>1, <2>2
<1>8. CASE Decode
  <2>1. bufs[cur] \in Air
    OBVIOUS
  <2>2. joy' \in [state : {"continue", "locked", "complete"},
                  prob : 0..Enough + Boost, got : SUBSET (Syncs \cup Data)]
    BY <1>8, <2>1, RecognisedType DEF Decode
  <2>3. status' \in {"pre", "data", "fin"}
    BY <1>8, Zenon DEF Decode
  <2>4. bufs' \in [Buffers -> Air] /\ cur' \in Buffers
    BY <1>0, <1>8 DEF Decode, Dropped
  <2>5. timer' \in {"off", "armed", "switch", "rearm"} /\ flag' \in {"none", "fin", "exit"}
        /\ thread' \in {"wait", "done"}
        /\ history' \subseteq {"dead", "raced", "stale", "overlap", "restart"}
    BY <1>8 DEF Decode, JoycfgStopSwitch
  <2>6. UNCHANGED <<again, queue, idx, driver, listens, channel, asked, drops>>
    BY <1>8 DEF Decode
  <2> QED
    BY <2>2, <2>3, <2>4, <2>5, <2>6
<1>9. CASE Done
  <2>1. /\ queue' \in [exists : BOOLEAN, items : Seq(Buffers)]
        /\ Len(queue'.items) <= QueueSize /\ (~ queue'.exists => queue'.items = << >>)
    <3>1. queue' = [exists |-> queue.exists, items |-> << >>]
      BY <1>9 DEF Done
    <3>2. << >> \in Seq(Buffers) /\ Len(<< >>) <= QueueSize
      OBVIOUS
    <3> QED
      BY <3>1, <3>2, QueueType
  <2>2. bufs' \in [Buffers -> Air]
    BY <1>0, <1>9 DEF Done
  <2>3. /\ thread' = "deinit" /\ listens' = FALSE
        /\ history' \subseteq {"dead", "raced", "stale", "overlap", "restart"}
        /\ UNCHANGED <<again, idx, cur, driver, timer, channel, joy, status, flag, asked, drops>>
    BY <1>9 DEF Done
  <2> QED
    BY <2>1, <2>2, <2>3
<1>10. CASE Deinit
  BY <1>10 DEF Deinit
<1>11. CASE Give
  BY <1>11 DEF Give
<1>12. CASE TimerFires
  <2>1. joy.prob > 0 => joy.prob - 1 \in 0..Enough + Boost
    OBVIOUS
  <2>2. joy' \in [state : {"continue", "locked", "complete"},
                  prob : 0..Enough + Boost, got : SUBSET (Syncs \cup Data)]
    BY <1>12, <2>1 DEF TimerFires
  <2>3. timer' \in {"off", "armed", "switch", "rearm"}
        /\ UNCHANGED <<thread, again, queue, bufs, idx, cur, driver, listens, channel, status, flag,
                       asked, drops, history>>
    BY <1>12 DEF TimerFires
  <2> QED
    BY <2>2, <2>3
<1>13. CASE SmtContinueSwitch
  <2>1. (channel + 1) % Channels \in 0..Channels - 1
    <3>1. channel + 1 \in Nat
      BY Channels \in Nat
    <3> QED
      BY <3>1, NextChannel
  <2>2. joy' \in [state : {"continue", "locked", "complete"},
                  prob : 0..Enough + Boost, got : SUBSET (Syncs \cup Data)]
    BY <1>13 DEF SmtContinueSwitch, Fresh
  <2>3. channel' \in 0..Channels - 1 /\ timer' = "rearm" /\ status' = "pre"
        /\ UNCHANGED <<thread, again, queue, bufs, idx, cur, driver, listens, flag, asked, drops, history>>
    BY <1>13, <2>1 DEF SmtContinueSwitch
  <2> QED
    BY <2>2, <2>3
<1>14. CASE Rearm
  BY <1>14 DEF Rearm
<1>15. CASE UNCHANGED vars
  BY <1>15 DEF vars
<1> QED
  BY <1>1, <1>2, <1>3, <1>4, <1>5, <1>6, <1>7, <1>8, <1>9, <1>10, <1>11, <1>12, <1>13,
     <1>14, <1>15 DEF Next, Task

-----------------------------------------------------------------------------
(* The buffers in the queue. *)

(* At the start no frame is queued.                                        *)
LEMMA RingInit == Init => Ring
BY DEF Init, Ring

(* A step that adds no frame and takes none keeps the order. *)
LEMMA RingSame ==
  ASSUME Ring, queue'.items = queue.items, idx' = idx, cur' = cur,
         thread' = "decode" => thread = "decode"
  PROVE  Ring'
BY DEF Ring

(* A queue that is empty, with no frame being decoded, is in order. *)
LEMMA RingEmpty ==
  ASSUME queue'.items = << >>, thread' # "decode"
  PROVE  Ring'
BY DEF Ring

(* Every step keeps the order of the buffers in the ring.                  *)
LEMMA RingNext == Typed /\ Ring /\ [Next]_vars => Ring'
<1> SUFFICES ASSUME Typed, Ring, [Next]_vars PROVE Ring'
  OBVIOUS
<1>0. /\ QueueSize \in Nat /\ QueueSize > 0 /\ idx \in 0..QueueSize
      /\ queue.items \in Seq(Buffers) /\ Len(queue.items) \in 0..QueueSize
      /\ queue \in [exists : BOOLEAN, items : Seq(Buffers)]
  BY RingNumbers
<1>1. CASE Connect
  BY <1>0, <1>1, RingSame DEF Connect, CreateTask
<1>2. CASE Stop
  BY <1>2, RingSame DEF Stop
<1>3. ASSUME NEW f \in Air, DriverCopy(f) PROVE Ring'
  BY <1>3, RingSame DEF DriverCopy
<1>4. CASE DriverQueue
  <2>1. CASE UNCHANGED <<queue, idx>>
    BY <1>4, <2>1, RingSame DEF DriverQueue
  <2>2. CASE /\ Len(queue.items) < QueueSize /\ idx' = NextBuffer(idx)
             /\ queue' = [queue EXCEPT !.items = Append(@, idx)]
    <3> DEFINE n == Len(queue.items)
    <3>1. /\ queue'.items = Append(queue.items, idx)
          /\ Len(queue'.items) = n + 1
          /\ \A i \in 1..n : queue'.items[i] = queue.items[i]
          /\ queue'.items[n + 1] = idx
      BY <1>0, <2>2, AppendProperties DEF Buffers
    <3>2. n \in Nat /\ n + 1 <= QueueSize
      BY <1>0, <2>2
    <3>3. \A k \in 1..n + 1 : Back(idx', k + 1) = Back(idx, k)
      BY <1>0, <2>2, <3>2, BackNext DEF Buffers
    <3>4. Back(idx', 1) = idx
      BY <1>0, <2>2, BackNext DEF Buffers
    <3>5. ASSUME NEW i \in 1..n + 1 PROVE queue'.items[i] = Back(idx', n + 2 - i)
      <4>1. CASE i = n + 1
        BY <1>0, <3>1, <3>4, <4>1
      <4>2. CASE i \in 1..n
        <5>1. queue'.items[i] = Back(idx, n + 1 - i)
          BY <3>1, <4>2 DEF Ring
        <5>2. n + 1 - i \in 1..n + 1 /\ (n + 1 - i) + 1 = n + 2 - i
          BY <1>0, <4>2
        <5> QED
          BY <3>3, <5>1, <5>2
      <4> QED
        BY <1>0, <4>1, <4>2
    <3>6. thread' = thread /\ cur' = cur
      BY <1>4 DEF DriverQueue
    <3>7. thread = "decode" => cur = Back(idx', n + 2)
      BY <1>0, <3>3 DEF Ring
    <3> QED
      BY <1>0, <3>1, <3>5, <3>6, <3>7 DEF Ring
  <2> QED
    BY <1>4, <2>1, <2>2 DEF DriverQueue
<1>5. CASE DriverDrops
  BY <1>5, RingSame DEF DriverDrops
<1>6. CASE Begin
  BY <1>6, RingSame DEF Begin
<1>7. CASE Take
  <2>1. CASE UNCHANGED <<cur, queue, thread>>
    BY <1>7, <2>1, RingSame DEF Take
  <2>2. CASE /\ queue.items # << >> /\ cur' = Head(queue.items)
             /\ queue' = [queue EXCEPT !.items = Tail(@)]
    <3> DEFINE n == Len(queue.items)
    <3>1. /\ n > 0 /\ cur' = queue.items[1]
          /\ queue'.items = Tail(queue.items)
          /\ Len(queue'.items) = n - 1
          /\ \A i \in 1..n - 1 : queue'.items[i] = queue.items[i + 1]
      BY <1>0, <2>2, HeadTailProperties
    <3>2. idx' = idx
      BY <1>7 DEF Take
    <3>3. cur' = Back(idx, n)
      BY <1>0, <3>1 DEF Ring
    <3>4. ASSUME NEW i \in 1..n - 1 PROVE queue'.items[i] = Back(idx, n - i)
      <4>1. i + 1 \in 1..n /\ n + 1 - (i + 1) = n - i
        BY <1>0
      <4> QED
        BY <3>1, <4>1 DEF Ring
    <3> QED
      BY <1>0, <3>1, <3>2, <3>3, <3>4 DEF Ring
  <2> QED
    BY <1>7, <2>1, <2>2 DEF Take
<1>8. CASE Decode
  <2>1. thread' # "decode" /\ queue' = queue /\ idx' = idx
    BY <1>8 DEF Decode
  <2> QED
    BY <2>1 DEF Ring
<1>9. CASE Done
  BY <1>0, <1>9, RingEmpty DEF Done
<1>10. CASE Deinit
  BY <1>10, RingEmpty DEF Deinit
<1>11. CASE Give
  BY <1>11, RingSame DEF Give
<1>12. CASE TimerFires
  BY <1>12, RingSame DEF TimerFires
<1>13. CASE SmtContinueSwitch
  BY <1>13, RingSame DEF SmtContinueSwitch
<1>14. CASE Rearm
  BY <1>14, RingSame DEF Rearm
<1>15. CASE UNCHANGED vars
  BY <1>15, RingSame DEF vars
<1> QED
  BY <1>1, <1>2, <1>3, <1>4, <1>5, <1>6, <1>7, <1>8, <1>9, <1>10, <1>11, <1>12, <1>13,
     <1>14, <1>15 DEF Next, Task

-----------------------------------------------------------------------------
(* The life of the queue, and the timer. *)

(* Unless the task was restarted or ended in use, its queue lives.         *)
LEMMA AliveNext == Typed /\ Alive /\ [Next]_vars => Alive'
<1> SUFFICES ASSUME Typed, Alive, [Next]_vars PROVE Alive'
  OBVIOUS
<1> USE DEF Alive
<1>0. queue \in [exists : BOOLEAN, items : Seq(Buffers)]
  BY DEF Typed
<1>1. CASE Connect
  <2>1. queue'.exists = TRUE
    BY <1>0, <1>1 DEF Connect
  <2>2. CASE thread = "none"
    BY <1>1, <2>1, <2>2 DEF Connect, CreateTask, Blocked
  <2>3. CASE thread # "none"
    BY <1>1, <2>3 DEF Connect
  <2> QED
    BY <2>2, <2>3
<1>2. CASE Stop
  BY <1>2 DEF Stop
<1>3. ASSUME NEW f \in Air, DriverCopy(f) PROVE Alive'
  BY <1>3 DEF DriverCopy
<1>4. CASE DriverQueue
  <2>1. queue'.exists = queue.exists
    BY <1>0, <1>4 DEF DriverQueue
  <2> QED
    BY <1>4, <2>1 DEF DriverQueue
<1>5. CASE DriverDrops
  BY <1>5 DEF DriverDrops
<1>6. CASE Begin
  BY <1>6 DEF Begin
<1>7. CASE Take
  <2>1. queue'.exists = queue.exists
    BY <1>0, <1>7 DEF Take
  <2> QED
    BY <1>7, <2>1 DEF Take
<1>8. CASE Decode
  BY <1>8 DEF Decode
<1>9. CASE Done
  <2>1. queue'.exists = queue.exists
    BY <1>0, <1>9 DEF Done
  <2>2. /\ thread' = "deinit" /\ listens' = FALSE /\ thread = "done"
        /\ UNCHANGED <<again, driver>>
        /\ history' = IF driver = "queue" THEN history \cup {"overlap"} ELSE history
    BY <1>9 DEF Done
  <2>3. CASE history \cap {"overlap", "restart"} # {}
    BY <2>2, <2>3
  <2>4. CASE driver = "queue"
    BY <2>2, <2>4
  <2>5. CASE driver # "queue" /\ ~ history \cap {"overlap", "restart"} # {}
    BY <2>1, <2>2, <2>5 DEF Typed, TypeOK
  <2> QED
    BY <2>3, <2>4, <2>5
<1>10. CASE Deinit
  BY <1>10 DEF Deinit
<1>11. CASE Give
  BY <1>11 DEF Give
<1>12. CASE TimerFires
  BY <1>12 DEF TimerFires
<1>13. CASE SmtContinueSwitch
  BY <1>13 DEF SmtContinueSwitch
<1>14. CASE Rearm
  BY <1>14 DEF Rearm
<1>15. CASE UNCHANGED vars
  BY <1>15 DEF vars
<1> QED
  BY <1>1, <1>2, <1>3, <1>4, <1>5, <1>6, <1>7, <1>8, <1>9, <1>10, <1>11, <1>12, <1>13,
     <1>14, <1>15 DEF Next, Task

(* Every step keeps the timer with the channel search.                     *)
LEMMA FollowingNext == Typed /\ Following /\ [Next]_vars => Following'
<1> SUFFICES ASSUME Typed, Following, [Next]_vars PROVE Following'
  OBVIOUS
<1> USE DEF Following
<1>1. CASE Connect
  BY <1>1 DEF Connect, CreateTask, Fresh
<1>2. CASE Stop
  BY <1>2 DEF Stop
<1>3. ASSUME NEW f \in Air, DriverCopy(f) PROVE Following'
  BY <1>3 DEF DriverCopy
<1>4. CASE DriverQueue
  BY <1>4 DEF DriverQueue
<1>5. CASE DriverDrops
  BY <1>5 DEF DriverDrops
<1>6. CASE Begin
  BY <1>6 DEF Begin
<1>7. CASE Take
  BY <1>7 DEF Take
<1>8. CASE Decode
  <2>1. joy' = Recognised(bufs[cur]) /\ again' = again
    BY <1>8 DEF Decode
  <2>2. joy'.state = "continue" <=> joy.state = "continue" /\ ~ joy'.state = "locked"
    BY <2>1, LockedOnce
  <2> DEFINE locks == joy.state = "continue" /\ joy'.state = "locked"
  <2>3. /\ thread # "none" /\ history \subseteq history'
        /\ timer' = IF locks THEN JoycfgStopSwitch ELSE timer
        /\ locks /\ timer \in {"switch", "rearm"} => "raced" \in history'
    BY <1>8, <2>1 DEF Decode
  <2>4. CASE history \cap {"restart", "raced"} # {}
    BY <2>3, <2>4
  <2>5. CASE ~ history \cap {"restart", "raced"} # {} /\ locks
    <3>1. timer \in {"armed", "switch", "rearm"}
      BY <2>3, <2>5 DEF Typed, TypeOK
    <3> QED
      BY <2>1, <2>3, <2>5, <3>1 DEF JoycfgStopSwitch
  <2>6. CASE ~ history \cap {"restart", "raced"} # {} /\ ~ locks
    BY <2>1, <2>2, <2>3, <2>6
  <2> QED
    BY <2>4, <2>5, <2>6
<1>9. CASE Done
  BY <1>9 DEF Done
<1>10. CASE Deinit
  BY <1>10 DEF Deinit
<1>11. CASE Give
  BY <1>11 DEF Give
<1>12. CASE TimerFires
  <2>1. joy'.state = joy.state /\ timer = "armed" /\ timer' # "off"
        /\ UNCHANGED <<thread, again, history>>
    BY <1>12 DEF TimerFires, Typed
  <2> QED
    BY <2>1
<1>13. CASE SmtContinueSwitch
  BY <1>13 DEF SmtContinueSwitch, Fresh
<1>14. CASE Rearm
  BY <1>14 DEF Rearm
<1>15. CASE UNCHANGED vars
  BY <1>15 DEF vars
<1> QED
  BY <1>1, <1>2, <1>3, <1>4, <1>5, <1>6, <1>7, <1>8, <1>9, <1>10, <1>11, <1>12, <1>13,
     <1>14, <1>15 DEF Next, Task

-----------------------------------------------------------------------------
(* The theorems. *)

(* The invariant holds in every reachable state.                           *)
LEMMA Invariance == Spec => []IInv
<1>1. Init => IInv
  BY TypedInit, RingInit DEF Init, Fresh, IInv, Alive, Following
<1>2. IInv /\ [Next]_vars => IInv'
  BY TypedNext, RingNext, AliveNext, FollowingNext DEF IInv
<1> QED
  BY <1>1, <1>2, PTL DEF Spec

(* The variables of the smart connection have their types: the queue never *)
(* holds more than its size, and the probability stays within a byte.      *)
THEOREM TypeCorrect == Spec => []TypeOK
<1>1. IInv => TypeOK
  BY DEF IInv, Typed
<1> QED
  BY <1>1, Invariance, PTL

(* The driver copies a frame to a buffer that is not in the queue, and to  *)
(* the one being decoded only while the queue is full (smt_rx_handler).    *)
THEOREM BuffersAreKept == Spec => BufferKept
<1>1. IInv /\ [Next]_vars =>
        [(driver = "idle" /\ driver' = "queue") =>
           /\ idx \notin ToSet(queue.items)
           /\ (thread = "decode" /\ idx = cur) => Len(queue.items) = QueueSize]_vars
  <2> SUFFICES ASSUME IInv
               PROVE  /\ idx \notin ToSet(queue.items)
                      /\ (thread = "decode" /\ idx = cur) => Len(queue.items) = QueueSize
    OBVIOUS
  <2>1. /\ QueueSize \in Nat /\ QueueSize > 0 /\ idx \in 0..QueueSize
        /\ queue.items \in Seq(Buffers) /\ Len(queue.items) \in 0..QueueSize
    BY RingNumbers DEF IInv
  <2>2. \A k \in 1..QueueSize : Back(idx, k) # idx
    BY <2>1 DEF Back
  <2>3. \A i \in 1..Len(queue.items) : queue.items[i] # idx
    <3>1. \A i \in 1..Len(queue.items) : Len(queue.items) + 1 - i \in 1..QueueSize
      BY <2>1
    <3> QED
      BY <2>2, <3>1 DEF IInv, Ring
  <2>4. idx \notin ToSet(queue.items)
    BY <2>1, <2>3 DEF ToSet
  <2> QED
    BY <2>1, <2>2, <2>4 DEF IInv, Ring
<1> QED
  BY <1>1, Invariance, PTL DEF BufferKept, Spec

(* The queue is used only while it exists, but for a task that was started *)
(* again before it had ended or a driver the task did not wait for.        *)
THEOREM QueueStaysAlive == Spec => []QueueAlive
<1>1. IInv => QueueAlive
  BY DEF IInv, Alive, QueueAlive
<1> QED
  BY <1>1, Invariance, PTL

(* The timer runs while nothing is recognised and is off for good once the *)
(* channel is locked, but for a second start or a lock that raced with its *)
(* callback (jy_lock_timeout, joycfg_stop_switch).                         *)
THEOREM TimerIsRight == Spec => []TimerFollows
<1>1. IInv => TimerFollows
  BY DEF IInv, Following, TimerFollows
<1> QED
  BY <1>1, Invariance, PTL
=============================================================================
