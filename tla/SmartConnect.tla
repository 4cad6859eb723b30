--------------------------- MODULE SmartConnect ---------------------------
(***************************************************************************)
(* The smart connection (src/ejcloud/ej_wificonfig.c, joycfg.c): a phone   *)
(* repeats, on the channel of its access point, multicast frames whose     *)
(* addresses carry the name and the password of the network.  Three        *)
(* threads share the decoder without a lock: the driver of the radio       *)
(* copies a frame to one of a few static buffers and queues it, the        *)
(* connection task takes it from the queue and decodes it, and a one-shot  *)
(* timer switches the channel while no frame is recognised.  What the      *)
(* addresses mean is in JoyCfg; here a frame is recognised or it is not.   *)
(***************************************************************************)
EXTENDS Naturals, FiniteSets, Sequences, SequencesExt

CONSTANTS QueueSize,  \* SMT_RX_QUEUE_SIZE, 5 in the code
          Channels,   \* entries of channel_list, 20 in the code
          SyncCount,  \* frames of the prologue before the channel is locked
          Slots,      \* frames that carry the credentials
          Boost,      \* what a frame adds to chCurrentProbability, 3
          Enough,     \* it adds nothing from here on, 20
          Requests,   \* bound: times somebody starts or stops a connection
          Drops       \* bound: frames lost because the queue is full for 5 ticks

ASSUME SmartConnectAssumption ==
  {QueueSize, Channels, SyncCount, Slots, Boost, Enough, Requests, Drops} \subseteq Nat \ {0}

Other == <<"other", 0>>   \* a frame of somebody else
Syncs == {"sync"} \X (1..SyncCount)
Data == {"data"} \X (1..Slots)
Air == Syncs \cup Data \cup {Other}
Buffers == 0..QueueSize   \* one more than the queue has room for
Home == 0                 \* search_idx of the phone's channel

VARIABLES thread,   \* the connection task: what it does next
          again,    \* a second task waits for smt_config_mutex
          queue,    \* smt_rx_queue exists; the buffers of the frames in it
          bufs,     \* smt_rx_buf; Other where nobody will read it
          idx,      \* smt_rx_buf_idx
          cur,      \* the buffer whose frame is decoded
          driver,   \* the driver is idle, or is to queue the frame it copied
          listens,  \* the rx handler is registered
          timer,    \* joy_lock_timer: off, armed, or where its callback is
          channel,  \* smt_conn_st.search_idx
          joy,      \* jy_context: state, prob, and the frames recognised
          status,   \* jy_status
          flag,     \* saved_smt_info.smtcn_flag
          asked,    \* Requests so far
          drops,    \* Drops so far
          history   \* see below

(* history: "dead" when a queue was used that does not exist; "raced" when *)
(* the channel was locked while the timer's callback ran; "stale" when the *)
(* frame that locked it had waited in the queue while the channel changed; *)
(* "overlap" when the task ended with the driver in smt_rx_handler, or was *)
(* started again before it had ended; "restart" when it was set up again   *)
(* while it ran.                                                           *)
vars == <<thread, again, queue, bufs, idx, cur, driver, listens, timer, channel, joy,
          status, flag, asked, drops, history>>

Fresh == [state |-> "continue", prob |-> 0, got |-> {}]

Init == /\ thread = "none" /\ again = FALSE /\ queue = [exists |-> FALSE, items |-> << >>]
        /\ bufs = [b \in Buffers |-> Other] /\ idx = 0 /\ cur = 0
        /\ driver = "idle" /\ listens = FALSE /\ timer = "off" /\ channel = Home
        /\ joy = Fresh /\ status = "pre" /\ flag = "none" /\ asked = 0 /\ drops = 0 /\ history = {}

-----------------------------------------------------------------------------
(* joylink_smart_connect: wifi_smart_connect_init makes a new decoder and a*)
(* new timer (an armed one shot of the old timer arms the new one), and    *)
(* wifi_smart_connect_start refuses when the task is blocked; a task that  *)
(* is ready to run does not stop it from creating another.                 *)
Blocked == thread = "wait"
Ready == thread \notin {"none", "wait"}
CreateTask ==
  /\ thread' = IF thread = "none" THEN "begin" ELSE thread
  /\ again' = (thread # "none")
  /\ listens' = TRUE /\ channel' = Home
  /\ timer' = IF timer = "off" THEN "armed" ELSE timer

Connect ==
  /\ asked < Requests /\ asked' = asked + 1 /\ ~ again
  /\ queue' = [queue EXCEPT !.exists = TRUE]
  /\ joy' = Fresh /\ status' = "pre"
  /\ history' = history \cup (IF thread = "none" THEN {} ELSE {"restart"})
                        \cup (IF Ready /\ thread # "begin" THEN {"overlap"} ELSE {})
  /\ IF Blocked THEN UNCHANGED <<thread, again, listens, channel, timer>> ELSE CreateTask
  /\ UNCHANGED <<bufs, idx, cur, driver, flag, drops>>

(* joylink_smart_stop, of the command line.                                *)
Stop == /\ asked < Requests /\ asked' = asked + 1
        /\ flag' = "exit"
        /\ UNCHANGED <<thread, again, queue, bufs, idx, cur, driver, listens, timer, channel,
                       joy, status, drops, history>>

-----------------------------------------------------------------------------
(* smt_rx_handler: the frame is copied before it is known whether there is *)
(* room.  A frame of the phone is heard on its channel only.  With a full  *)
(* queue the copy overwrites the frame that is decoded, which is lost.     *)
DriverCopy(f) ==
  /\ listens /\ driver = "idle"
  /\ f # Other => channel = Home
  /\ bufs' = [bufs EXCEPT ![idx] = f] /\ driver' = "queue"
  /\ IF thread = "decode" /\ idx = cur THEN drops < Drops /\ drops' = drops + 1
                                       ELSE UNCHANGED drops
  /\ UNCHANGED <<thread, again, queue, idx, cur, listens, timer, channel, joy, status, flag,
                 asked, history>>

(* The buffer after the one that was filled.                               *)
(* A mistake: as many buffers as the queue has entries.                    *)
NextOfQueue(i) == (i + 1) % QueueSize
(* A mistake: the index does not wrap.                                     *)
NextUnbounded(i) == i + 1
NextBuffer(i) == (i + 1) % (QueueSize + 1)

Dropped(b) == [bufs EXCEPT ![b] = Other]
DriverQueue ==
  /\ driver = "queue" /\ driver' = "idle"
  /\ \/ /\ ~ queue.exists /\ history' = history \cup {"dead"}
        /\ bufs' = Dropped(idx) /\ UNCHANGED <<queue, idx>>
     \/ /\ queue.exists /\ Len(queue.items) < QueueSize
        /\ queue' = [queue EXCEPT !.items = Append(@, idx)]
        /\ idx' = NextBuffer(idx) /\ UNCHANGED <<bufs, history>>
  /\ UNCHANGED <<thread, again, cur, listens, timer, channel, joy, status, flag, asked, drops>>

(* The queue stayed full for 5 ticks.                                      *)
DriverDrops ==
  /\ driver = "queue" /\ driver' = "idle" /\ drops < Drops /\ drops' = drops + 1
  /\ queue.exists /\ Len(queue.items) = QueueSize
  /\ bufs' = Dropped(idx)
  /\ UNCHANGED <<thread, again, queue, idx, cur, listens, timer, channel, joy, status, flag,
                 asked, history>>

-----------------------------------------------------------------------------
(* smt_rcv_pkt_thread: the memset of saved_smt_info forgets a stop that    *)
(* came before it.                                                         *)
Begin == /\ thread = "begin" /\ thread' = "wait" /\ flag' = "none"
         /\ UNCHANGED <<again, queue, bufs, idx, cur, driver, listens, timer, channel, joy,
                        status, asked, drops, history>>

Take == /\ thread = "wait"
        /\ \/ /\ queue.exists /\ queue.items # << >>
              /\ cur' = Head(queue.items) /\ queue' = [queue EXCEPT !.items = Tail(@)]
              /\ thread' = "decode" /\ UNCHANGED history
           \/ /\ ~ queue.exists /\ "dead" \notin history
              /\ history' = history \cup {"dead"} /\ UNCHANGED <<cur, queue, thread>>
        /\ UNCHANGED <<again, bufs, idx, driver, listens, timer, channel, joy, status, flag,
                       asked, drops>>

(* muticastAddNoEncode: a frame of the prologue counts until the channel is*)
(* locked, one with data after it.  The channel is locked when SyncCount   *)
(* different frames of the prologue came, and the credentials are complete *)
(* when every slot is filled (JoyCfg says why).                            *)
Boosted(p) == IF p < Enough THEN p + Boost ELSE p
(* A mistake: what the prologue left is taken for slots.                   *)
LocksDirty(p) == [state |-> "locked", prob |-> Boosted(p), got |-> Syncs]
Locks(p) == [state |-> "locked", prob |-> Boosted(p), got |-> {}]
Recognised(f) ==
  CASE joy.state = "continue" /\ f \in Syncs ->
         IF joy.got \cup {f} = Syncs
         THEN Locks(joy.prob)
         ELSE [joy EXCEPT !.prob = Boosted(@), !.got = @ \cup {f}]
    [] joy.state = "locked" /\ f \in Data ->
         [state |-> IF joy.got \cup {f} = Data THEN "complete" ELSE "locked",
          prob |-> Boosted(joy.prob), got |-> joy.got \cup {f}]
    [] OTHER -> joy

(* joycfg_stop_switch: a one shot that is armed is disarmed; the callback  *)
(* that runs arms it again after this.                                     *)
(* A mistake: the timer is left alone.                                     *)
KeepSwitch == timer
JoycfgStopSwitch == IF timer = "armed" THEN "off" ELSE timer

(* The loop of the task reads the flag after each frame.                   *)
(* A mistake: it ends when it is finished only.                            *)
LoopEndsOnFin(f) == f = "fin"
LoopEnds(f) == f \in {"fin", "exit"}

(* jy_rx_handler and the end of the loop.                                  *)
Decode ==
  LET after == Recognised(bufs[cur])
      locks == joy.state = "continue" /\ after.state = "locked"
      done == status = "data" /\ after.state = "complete"
      f == IF done THEN "fin" ELSE flag
  IN /\ thread = "decode"
     /\ joy' = after
     /\ status' = CASE status = "pre" /\ after.state = "locked" -> "data"
                    [] done -> "fin"
                    [] OTHER -> status
     /\ timer' = IF locks THEN JoycfgStopSwitch ELSE timer
     /\ history' = history
          \cup (IF locks /\ timer \in {"switch", "rearm"} THEN {"raced"} ELSE {})
          \cup (IF locks /\ channel # Home THEN {"stale"} ELSE {})
     /\ flag' = f
     /\ thread' = IF LoopEnds(f) THEN "done" ELSE "wait"
     /\ bufs' = Dropped(cur) /\ cur' = 0
     /\ UNCHANGED <<again, queue, idx, driver, listens, channel, asked, drops>>

(* smt_done: nothing is received any more, and the queue is emptied.       *)
(* A mistake: the handler stays registered.                                *)
DoneListens == /\ thread = "done" /\ thread' = "deinit"
               /\ listens' = listens /\ queue' = [queue EXCEPT !.items = << >>]
               /\ history' = IF driver = "queue" THEN history \cup {"overlap"} ELSE history
               /\ bufs' = [b \in Buffers |-> IF driver = "queue" /\ b = idx THEN bufs[b] ELSE Other]
               /\ UNCHANGED <<again, idx, cur, driver, timer, channel, joy, status, flag, asked, drops>>
Done == /\ thread = "done" /\ thread' = "deinit"
        /\ listens' = FALSE /\ queue' = [queue EXCEPT !.items = << >>]
        /\ history' = IF driver = "queue" THEN history \cup {"overlap"} ELSE history
        /\ bufs' = [b \in Buffers |-> IF driver = "queue" /\ b = idx THEN bufs[b] ELSE Other]
        /\ UNCHANGED <<again, idx, cur, driver, timer, channel, joy, status, flag, asked, drops>>

(* wifi_smart_connect_deinit, by the task itself or by smt_evt_handler     *)
(* after it stored the credentials.  The timer of the decoder stays.       *)
Deinit == /\ thread = "deinit" /\ thread' = "give"
          /\ queue' = [exists |-> FALSE, items |-> << >>]
          /\ UNCHANGED <<again, bufs, idx, cur, driver, listens, timer, channel, joy, status,
                         flag, asked, drops, history>>

Give == /\ thread = "give"
        /\ thread' = (IF again THEN "begin" ELSE "none") /\ again' = FALSE
        /\ UNCHANGED <<queue, bufs, idx, cur, driver, listens, timer, channel, joy, status,
                       flag, asked, drops, history>>

Task == Begin \/ Take \/ Decode \/ Done \/ Deinit \/ Give

-----------------------------------------------------------------------------
(* jy_lock_timeout: the callback decides, switches, and starts the timer   *)
(* again.  smt_continue_switch resets the decoder whatever it recognised   *)
(* in between.                                                             *)
TimerFires ==
  /\ timer = "armed"
  /\ IF joy.state = "complete" \/ joy.prob > 0
     THEN /\ joy' = [joy EXCEPT !.prob = IF joy.state = "complete" THEN @ ELSE @ - 1]
          /\ timer' = "rearm"
     ELSE timer' = "switch" /\ UNCHANGED joy
  /\ UNCHANGED <<thread, again, queue, bufs, idx, cur, driver, listens, channel, status, flag,
                 asked, drops, history>>

SmtContinueSwitch ==
  /\ timer = "switch" /\ timer' = "rearm"
  /\ joy' = Fresh /\ status' = "pre" /\ channel' = (channel + 1) % Channels
  /\ UNCHANGED <<thread, again, queue, bufs, idx, cur, driver, listens, flag, asked, drops, history>>

Rearm == /\ timer = "rearm" /\ timer' = "armed"
         /\ UNCHANGED <<thread, again, queue, bufs, idx, cur, driver, listens, channel, joy,
                        status, flag, asked, drops, history>>

Next == \/ Connect \/ Stop
        \/ \E f \in Air : DriverCopy(f)
        \/ DriverQueue \/ DriverDrops \/ Task \/ TimerFires \/ SmtContinueSwitch \/ Rearm

(* The task and the driver run, and the phone repeats every frame as long  *)
(* as it is heard; the task is slower than the frames come Drops times.    *)
Fairness == /\ WF_vars(Task) /\ WF_vars(DriverQueue)
            /\ \A f \in Air : SF_vars(DriverCopy(f))

Spec == Init /\ [][Next]_vars /\ Fairness

-----------------------------------------------------------------------------
TypeOK ==
  /\ thread \in {"none", "begin", "wait", "decode", "done", "deinit", "give"}
  /\ {again, listens, queue.exists} \subseteq BOOLEAN
  /\ queue.items \in Seq(Buffers) /\ Len(queue.items) <= QueueSize
  /\ ~ queue.exists => queue.items = << >>
  /\ bufs \in [Buffers -> Air] /\ idx \in Buffers /\ cur \in Buffers
  /\ driver \in {"idle", "queue"} /\ timer \in {"off", "armed", "switch", "rearm"}
  /\ channel \in 0..Channels - 1 /\ joy.state \in {"continue", "locked", "complete"}
  /\ joy.prob \in 0..Enough + Boost /\ joy.got \subseteq Syncs \cup Data
  /\ status \in {"pre", "data", "fin"} /\ flag \in {"none", "fin", "exit"}
  /\ asked \in 0..Requests /\ drops \in 0..Drops /\ history \subseteq {"dead", "raced", "stale", "overlap", "restart"}

(* The queue has 5 entries and there are 6 buffers: a frame that waits is  *)
(* never overwritten, and the one being decoded is only when the queue is  *)
(* full (ej_wificonfig.c smt_rx_handler copies before it asks the queue).  *)
BufferKept ==
  [][(driver = "idle" /\ driver' = "queue") =>
       /\ idx \notin ToSet(queue.items)
       /\ (thread = "decode" /\ idx = cur) => Len(queue.items) = QueueSize]_vars

(* The queue is used only while it exists, unless the task was started     *)
(* again before it had ended, or the driver was in its handler when the    *)
(* task took the handler away (smt_done, wifi_smart_connect_deinit).       *)
QueueAlive == "dead" \in history => history \cap {"overlap", "restart"} # {}

(* While the decoder recognises nothing the timer will switch the channel, *)
(* and once the channel is locked it is off: the code never arms it again. *)
(* What breaks this is a second start, or a channel that was locked while  *)
(* the callback ran (jy_lock_timeout, joycfg_stop_switch).                 *)
TimerFollows ==
  history \cap {"restart", "raced"} = {} =>
    /\ (thread \in {"wait", "decode"} /\ joy.state = "continue") => timer # "off"
    /\ joy.state # "continue" => timer = "off"

(* A task whose flag says stop ends (smt_rcv_pkt_thread reads the flag     *)
(* after every frame), since frames of somebody are always in the air.     *)
Ends == (thread = "wait" /\ flag = "exit") ~> (thread \notin {"wait", "decode"} \/ "dead" \in history)

(* Once the channel is locked the credentials are decoded and the task     *)
(* ends, unless it was locked by a frame that had waited while the channel *)
(* changed, so that the phone is on another channel: the timer is off and  *)
(* nothing in the task has a timeout (joycfg.c joycfg_stop_switch).        *)
Decoded == (joy.state = "locked" /\ thread = "wait")
             ~> (thread \notin {"wait", "decode"} \/ history # {})
=============================================================================
