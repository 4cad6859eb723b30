----------------------------- MODULE NolockList -----------------------------
(***************************************************************************)
(* The ring buffer every thread of the module hands packets through        *)
(* (src/ejcloud/nolock-list.c): an array of length pointers, a read cursor *)
(* only the consumer writes and a write cursor only the producer writes,   *)
(* and no lock.  One thread pushes and one thread pops, statement by       *)
(* statement, so every interleaving of the two is explored.  The           *)
(* statements of one thread take effect in program order.                  *)
(***************************************************************************)
EXTENDS Naturals, Sequences

CONSTANTS Packets,   \* the packets a producer may push
          NULL,      \* the null pointer
          Length     \* the length given to new_nolock_list (10 in the code)

ASSUME ListAssumption == /\ Length \in Nat /\ Length >= 2
                         /\ NULL \notin Packets

VARIABLES data,      \* the array of pointers
          r_cursor,  \* the next slot to pop, written by the consumer
          w_cursor,  \* the next slot to fill, written by the producer
          ppc,       \* the producer's next statement in nolock_list_push
          pPacket,   \* the data argument of the push that runs
          pCursor,   \* the producer's local w_cursor
          pushed,    \* what the last push returned
          cpc,       \* the consumer's next statement in nolock_list_pop
          cPacket,   \* the *data of the pop that runs
          popped     \* what the last pop left in *data

producer == <<ppc, pPacket, pCursor, pushed>>
consumer == <<cpc, cPacket, popped>>
vars == <<data, r_cursor, w_cursor, producer, consumer>>

Slots == 0 .. Length - 1
Succ(c) == (c + 1) % Length

(***************************************************************************)
(* new_nolock_list.  The array comes from malloc: its slots hold nothing   *)
(* yet (NULL stands for whatever they contain).                            *)
(***************************************************************************)
Init == /\ data = [s \in Slots |-> NULL]
        /\ r_cursor = 0 /\ w_cursor = 0
        /\ ppc = "idle" /\ pPacket = NULL /\ pCursor = 0 /\ pushed = "none"
        /\ cpc = "idle" /\ cPacket = NULL /\ popped = NULL

-----------------------------------------------------------------------------
(* nolock_list_push(list, p). *)

PushFull(p) == /\ ppc = "idle"
               /\ Succ(w_cursor) = r_cursor
               /\ pPacket' = p /\ pCursor' = Succ(w_cursor)
               /\ pushed' = "failed"
               /\ UNCHANGED <<data, r_cursor, w_cursor, ppc, consumer>>

(* A mistake: the full test is left out. *)
PushTestNoRoom(p) == /\ ppc = "idle"
                     /\ pPacket' = p /\ pCursor' = Succ(w_cursor)
                     /\ ppc' = "write"
                     /\ UNCHANGED <<data, r_cursor, w_cursor, pushed, consumer>>

PushTest(p) == /\ ppc = "idle"
               /\ Succ(w_cursor) # r_cursor
               /\ pPacket' = p /\ pCursor' = Succ(w_cursor)
               /\ ppc' = "write"
               /\ UNCHANGED <<data, r_cursor, w_cursor, pushed, consumer>>

(* A mistake: the slot is taken from the local w_cursor, not the list's. *)
PushWriteLocal == /\ ppc = "write"
                  /\ data' = [data EXCEPT ![pCursor] = pPacket]
                  /\ ppc' = "publish"
                  /\ UNCHANGED <<r_cursor, w_cursor, pPacket, pCursor, pushed, consumer>>

PushWrite == /\ ppc = "write"
             /\ data' = [data EXCEPT ![w_cursor] = pPacket]
             /\ ppc' = "publish"
             /\ UNCHANGED <<r_cursor, w_cursor, pPacket, pCursor, pushed, consumer>>

PushPublish == /\ ppc = "publish"
               /\ w_cursor' = pCursor
               /\ ppc' = "idle"
               /\ pushed' = "success"
               /\ UNCHANGED <<data, r_cursor, pPacket, pCursor, consumer>>

(* nolock_list_pop(list, &packet), by a caller whose packet starts as NULL. *)

PopEmpty == /\ cpc = "idle"
            /\ r_cursor = w_cursor
            /\ popped' = NULL
            /\ UNCHANGED <<data, r_cursor, w_cursor, producer, cpc, cPacket>>

(* Two mistakes: no empty test, and one that keeps a packet back. *)
PopTestNone == /\ cpc = "idle"
               /\ cpc' = "read"
               /\ UNCHANGED <<data, r_cursor, w_cursor, producer, cPacket, popped>>

PopTestLast == /\ cpc = "idle"
               /\ r_cursor # w_cursor /\ Succ(r_cursor) # w_cursor
               /\ cpc' = "read"
               /\ UNCHANGED <<data, r_cursor, w_cursor, producer, cPacket, popped>>

PopTest == /\ cpc = "idle"
           /\ r_cursor # w_cursor
           /\ cpc' = "read"
           /\ UNCHANGED <<data, r_cursor, w_cursor, producer, cPacket, popped>>

PopRead == /\ cpc = "read"
           /\ cPacket' = data[r_cursor]
           /\ cpc' = "advance"
           /\ UNCHANGED <<data, r_cursor, w_cursor, producer, popped>>

PopAdvance == /\ cpc = "advance"
              /\ r_cursor' = Succ(r_cursor)
              /\ cpc' = "idle"
              /\ popped' = cPacket
              /\ UNCHANGED <<data, w_cursor, producer, cPacket>>

-----------------------------------------------------------------------------
Producer == (\E p \in Packets : PushFull(p) \/ PushTest(p)) \/ PushWrite \/ PushPublish
Consumer == PopEmpty \/ PopTest \/ PopRead \/ PopAdvance
Next == Producer \/ Consumer

Spec == Init /\ [][Next]_vars

(* Both threads loop for ever: the consumer polls its list on every turn,  *)
(* and a producer that entered push runs on to its return.                 *)
FairSpec == Spec /\ WF_vars(Consumer) /\ WF_vars(PushWrite \/ PushPublish)

-----------------------------------------------------------------------------
TypeOK == /\ data \in [Slots -> Packets \cup {NULL}]
          /\ r_cursor \in Slots /\ w_cursor \in Slots
          /\ ppc \in {"idle", "write", "publish"}
          /\ pPacket \in Packets \cup {NULL} /\ pCursor \in Slots
          /\ pushed \in {"none", "failed", "success"}
          /\ cpc \in {"idle", "read", "advance"}
          /\ cPacket \in Packets \cup {NULL} /\ popped \in Packets \cup {NULL}

(* How many slots from the read cursor up to, not including, the write     *)
(* cursor, and the i-th of them.                                           *)
Count == IF r_cursor <= w_cursor THEN w_cursor - r_cursor
                                 ELSE w_cursor + Length - r_cursor
Slot(i) == IF r_cursor + i - 1 < Length THEN r_cursor + i - 1
                                        ELSE r_cursor + i - 1 - Length
Content == [i \in 1 .. Count |-> data[Slot(i)]]

(* The slot a push is about to fill is never a slot a pop is about to read *)
(* or has read and not yet given up: the two threads share the array       *)
(* without a lock, and only this makes it correct.                         *)
NoSlotRace == (ppc # "idle" /\ cpc # "idle") => w_cursor # r_cursor

(* What a pop has read, and not yet returned, is still the oldest packet   *)
(* when it gives the slot up: no packet is lost, and none is handed over   *)
(* twice (both consumers of a doubled packet would free it).               *)
PopTakesOldest == cpc = "advance" => /\ Count > 0
                                     /\ cPacket = Content[1]
                                     /\ cPacket \in Packets

(* The inductive invariant: TypeOK, the room the producer found stays, the *)
(* packet the consumer found stays, and both have copied the right word.   *)
Inv == /\ TypeOK
       /\ ppc # "idle" => pCursor = Succ(w_cursor) /\ pCursor # r_cursor
                          /\ pPacket \in Packets
       /\ ppc = "publish" => data[w_cursor] = pPacket
       /\ cpc # "idle" => r_cursor # w_cursor
       /\ cpc = "advance" => cPacket = data[r_cursor]
       /\ \A i \in 1 .. Count : data[Slot(i)] \in Packets

(* The list implements the bounded FIFO queue, of one packet less than its *)
(* length: every push and pop takes effect at one instant between its call *)
(* and its return, in every interleaving.                                  *)
Queue == INSTANCE BoundedQueue WITH queue <- Content, Capacity <- Length - 1
ImplementsQueue == Queue!Spec

(* A packet in the list is eventually handed to the consumer: the polling  *)
(* loop cannot strand one, whatever the producer does meanwhile.           *)
EventuallyPopped == \A p \in Packets :
                      (\E i \in 1 .. Count : data[Slot(i)] = p) ~> (popped = p)

=============================================================================
