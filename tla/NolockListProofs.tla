-------------------------- MODULE NolockListProofs --------------------------
(***************************************************************************)
(* What TLAPS proves of the ring buffer, for every length of at least two  *)
(* and every set of packets: its invariant, that no slot is written and    *)
(* read at once, that a pop returns the oldest packet, and that the list   *)
(* is a bounded FIFO queue.                                                *)
(***************************************************************************)
EXTENDS NolockList, SequenceTheorems, TLAPS

-----------------------------------------------------------------------------
(* Arithmetic of the cursors. *)

(* The next cursor is the next slot, or slot 0 after the last one. *)
LEMMA SuccValue ==
  ASSUME NEW c \in Slots
  PROVE  /\ Succ(c) \in Slots
         /\ Succ(c) = (IF c + 1 = Length THEN 0 ELSE c + 1)
         /\ Succ(c) # c
BY ListAssumption DEF Succ, Slots

(* Distinct cursors have distinct successors. *)
LEMMA SuccInjective ==
  ASSUME NEW c \in Slots, NEW d \in Slots, Succ(c) = Succ(d)
  PROVE  c = d
BY SuccValue, ListAssumption DEF Slots

(* The list holds at most Length - 1 packets, is empty when the cursors    *)
(* meet and full when one more push would make them meet; its packets are  *)
(* in distinct slots, the first at the read cursor, none at the write one. *)
LEMMA CountValue ==
  ASSUME TypeOK
  PROVE  /\ Count \in 0 .. Length - 1
         /\ Count = 0 <=> r_cursor = w_cursor
         /\ Count = Length - 1 <=> Succ(w_cursor) = r_cursor
         /\ \A i \in 1 .. Count : Slot(i) \in Slots /\ Slot(i) # w_cursor
         /\ Slot(1) = r_cursor
         /\ Slot(Count + 1) = w_cursor
<1>1. r_cursor \in Slots /\ w_cursor \in Slots
  BY DEF TypeOK
<1>2. Count \in 0 .. Length - 1 /\ (Count = 0 <=> r_cursor = w_cursor)
  BY <1>1, ListAssumption DEF Count, Slots
<1>3. Count = Length - 1 <=> Succ(w_cursor) = r_cursor
  BY <1>1, SuccValue, ListAssumption DEF Count, Slots
<1>4. \A i \in 1 .. Count : Slot(i) \in Slots /\ Slot(i) # w_cursor
  BY <1>1, ListAssumption DEF Count, Slot, Slots
<1>5. Slot(1) = r_cursor /\ Slot(Count + 1) = w_cursor
  BY <1>1, ListAssumption DEF Count, Slot, Slots
<1> QED
  BY <1>2, <1>3, <1>4, <1>5

(* Advancing the write cursor of a list that is not full adds one slot at  *)
(* the end and moves none.                                                 *)
LEMMA PushCount ==
  ASSUME TypeOK, Succ(w_cursor) # r_cursor,
         w_cursor' = Succ(w_cursor), r_cursor' = r_cursor
  PROVE  /\ Count' = Count + 1
         /\ \A i \in 1 .. Count + 1 : Slot(i)' = Slot(i)
<1>1. r_cursor \in Slots /\ w_cursor \in Slots
  BY DEF TypeOK
<1> QED
  BY <1>1, SuccValue, ListAssumption DEF Count, Slot, Slots

(* Advancing the read cursor of a list that is not empty removes the first *)
(* slot and moves every other one place forward.                           *)
LEMMA PopCount ==
  ASSUME TypeOK, r_cursor # w_cursor,
         r_cursor' = Succ(r_cursor), w_cursor' = w_cursor
  PROVE  /\ Count' = Count - 1
         /\ \A i \in 1 .. Count - 1 : Slot(i)' = Slot(i + 1)
<1>1. r_cursor \in Slots /\ w_cursor \in Slots
  BY DEF TypeOK
<1> QED
  BY <1>1, SuccValue, ListAssumption DEF Count, Slot, Slots

(* A step that moves neither cursor keeps the slots in use. *)
LEMMA SameCount ==
  ASSUME UNCHANGED <<r_cursor, w_cursor>>
  PROVE  Count' = Count /\ \A i \in 1 .. Count : Slot(i)' = Slot(i)
BY DEF Count, Slot

-----------------------------------------------------------------------------
(* The invariant is inductive. *)

(* The lists start empty.                                                  *)
LEMMA InvInit == Init => Inv
<1> SUFFICES ASSUME Init PROVE Inv
  OBVIOUS
<1>1. 0 \in Slots
  BY ListAssumption DEF Slots
<1>2. TypeOK
  BY <1>1 DEF Init, TypeOK
<1>3. Count = 0
  BY <1>2, CountValue DEF Init
<1> QED
  BY <1>2, <1>3 DEF Init, Inv

(* Every step of the three functions keeps the invariant.                  *)
LEMMA InvNext == Inv /\ [Next]_vars => Inv'
<1> SUFFICES ASSUME Inv, [Next]_vars PROVE Inv'
  OBVIOUS
<1> USE DEF Inv
<1>0. TypeOK /\ r_cursor \in Slots /\ w_cursor \in Slots
  BY DEF TypeOK
<1>1. ASSUME NEW p \in Packets, PushFull(p) PROVE Inv'
  <2>1. TypeOK'
    BY <1>0, <1>1, SuccValue DEF PushFull, TypeOK, consumer
  <2> QED
    BY <1>1, <2>1, SameCount DEF PushFull, consumer, Slot
<1>2. ASSUME NEW p \in Packets, PushTest(p) PROVE Inv'
  <2>1. TypeOK'
    BY <1>0, <1>2, SuccValue DEF PushTest, TypeOK, consumer
  <2> QED
    BY <1>2, <2>1, SameCount DEF PushTest, consumer
<1>3. CASE PushWrite
  <2>1. TypeOK'
    BY <1>0, <1>3 DEF PushWrite, TypeOK, consumer
  <2>2. data'[w_cursor] = pPacket
    BY <1>0, <1>3 DEF PushWrite, TypeOK
  <2>3. \A s \in Slots : s # w_cursor => data'[s] = data[s]
    BY <1>3 DEF PushWrite, TypeOK
  <2>4. \A i \in 1 .. Count' : data'[Slot(i)'] \in Packets
    BY <1>0, <1>3, <2>3, SameCount, CountValue DEF PushWrite
  <2>5. cpc' = "advance" => cPacket' = data'[r_cursor']
    BY <1>0, <1>3, <2>3 DEF PushWrite, consumer
  <2> QED
    BY <1>3, <2>1, <2>2, <2>4, <2>5 DEF PushWrite, consumer
<1>4. CASE PushPublish
  <2>1. w_cursor' = Succ(w_cursor) /\ Succ(w_cursor) # r_cursor
    BY <1>4 DEF PushPublish
  <2>2. TypeOK'
    BY <1>0, <1>4 DEF PushPublish, TypeOK, consumer
  <2>3. \A i \in 1 .. Count' : data'[Slot(i)'] \in Packets
    BY <1>0, <1>4, <2>1, PushCount, CountValue DEF PushPublish
  <2> QED
    BY <1>4, <2>1, <2>2, <2>3 DEF PushPublish, consumer
<1>5. CASE PopEmpty
  <2>1. TypeOK'
    BY <1>5 DEF PopEmpty, TypeOK, producer
  <2> QED
    BY <1>5, <2>1, SameCount DEF PopEmpty, producer, Succ
<1>6. CASE PopTest
  <2>1. TypeOK'
    BY <1>6 DEF PopTest, TypeOK, producer
  <2> QED
    BY <1>6, <2>1, SameCount DEF PopTest, producer, Succ
<1>7. CASE PopRead
  <2>1. TypeOK'
    BY <1>0, <1>7 DEF PopRead, TypeOK, producer
  <2> QED
    BY <1>7, <2>1, SameCount DEF PopRead, producer, Succ
<1>8. CASE PopAdvance
  <2>1. r_cursor' = Succ(r_cursor) /\ r_cursor # w_cursor
    BY <1>8 DEF PopAdvance
  <2>2. TypeOK'
    BY <1>0, <1>8, SuccValue DEF PopAdvance, TypeOK, producer
  <2>3. \A i \in 1 .. Count' : data'[Slot(i)'] \in Packets
    <3>1. Count' = Count - 1 /\ \A i \in 1 .. Count - 1 : Slot(i)' = Slot(i + 1)
      BY <1>0, <1>8, <2>1, PopCount DEF PopAdvance
    <3> QED
      BY <1>0, <1>8, <3>1, CountValue DEF PopAdvance
  <2>4. ppc' # "idle" => pCursor' # r_cursor'
    BY <1>0, <1>8, <2>1, SuccInjective DEF PopAdvance, producer
  <2> QED
    BY <1>8, <2>2, <2>3, <2>4 DEF PopAdvance, producer, Succ
<1>9. CASE UNCHANGED vars
  <2>1. TypeOK'
    BY <1>9 DEF vars, producer, consumer, TypeOK
  <2> QED
    BY <1>9, <2>1, SameCount DEF vars, producer, consumer, Succ
<1> QED
  BY <1>1, <1>2, <1>3, <1>4, <1>5, <1>6, <1>7, <1>8, <1>9
     DEF Next, Producer, Consumer

(* Every reachable state of the two threads satisfies the invariant.       *)
THEOREM Invariance == Spec => []Inv
<1>1. Init => Inv
  BY InvInit
<1>2. Inv /\ [Next]_vars => Inv'
  BY InvNext
<1> QED
  BY <1>1, <1>2, PTL DEF Spec

-----------------------------------------------------------------------------
(* The safety properties of the run follow from the invariant.             *)

(* TypeOK holds in every reachable state.                                  *)
THEOREM TypeCorrect == Spec => []TypeOK
<1>1. Inv => TypeOK
  BY DEF Inv
<1> QED
  BY <1>1, Invariance, PTL

(* The producer never fills the slot the consumer has tested or read and   *)
(* not yet given up: two threads need no lock on a list of any length.     *)
THEOREM NoRace == Spec => []NoSlotRace
<1>1. Inv => NoSlotRace
  BY DEF Inv, NoSlotRace
<1> QED
  BY <1>1, Invariance, PTL

(* What a pop has copied when it advances the cursor is the oldest packet  *)
(* of the list, whatever the producer did since the copy.                  *)
THEOREM OldestPopped == Spec => []PopTakesOldest
<1>1. Inv => PopTakesOldest
  <2> SUFFICES ASSUME Inv, cpc = "advance"
               PROVE  Count > 0 /\ cPacket = Content[1] /\ cPacket \in Packets
    BY DEF PopTakesOldest
  <2>1. Count \in 0 .. Length - 1 /\ Count # 0 /\ Slot(1) = r_cursor
    BY CountValue DEF Inv
  <2>2. Count > 0 /\ 1 \in 1 .. Count
    BY <2>1, ListAssumption
  <2>3. Content[1] = data[r_cursor] /\ data[r_cursor] \in Packets
    BY <2>1, <2>2 DEF Content, Inv
  <2> QED
    BY <2>2, <2>3 DEF Inv
<1> QED
  BY <1>1, Invariance, PTL

-----------------------------------------------------------------------------
(* The list implements the bounded queue. *)

(* The abstract queue is a sequence of packets as long as the slots in use. *)
LEMMA ContentValue ==
  ASSUME Inv
  PROVE  /\ Content \in Seq(Packets)
         /\ Len(Content) = Count
         /\ Content = << >> <=> r_cursor = w_cursor
         /\ Len(Content) < Length - 1 <=> Succ(w_cursor) # r_cursor
<1>1. Count \in 0 .. Length - 1
  BY CountValue DEF Inv
<1>2. Count \in Nat
  BY <1>1, ListAssumption
<1>3. \A i \in 1 .. Count : data[Slot(i)] \in Packets
  BY DEF Inv
<1>4. Content \in Seq(Packets) /\ Len(Content) = Count
  BY <1>2, <1>3 DEF Content
<1>5. Content = << >> <=> Count = 0
  BY <1>4, EmptySeq
<1> QED
  BY <1>1, <1>4, <1>5, CountValue, ListAssumption DEF Inv

(* A step that changes neither a cursor nor a slot in use keeps the queue. *)
LEMMA SameContent ==
  ASSUME Inv, UNCHANGED <<r_cursor, w_cursor>>,
         \A s \in Slots : s # w_cursor => data'[s] = data[s]
  PROVE  Content' = Content
<1>1. \A i \in 1 .. Count : data'[Slot(i)'] = data[Slot(i)]
  BY SameCount, CountValue DEF Inv
<1> QED
  BY <1>1, SameCount DEF Content

(* Publishing the new write cursor is the instant a packet is enqueued.    *)
LEMMA PublishAppends ==
  ASSUME Inv, Inv', PushPublish
  PROVE  Queue!Push(pPacket)
<1>1. /\ w_cursor' = Succ(w_cursor) /\ Succ(w_cursor) # r_cursor
      /\ data[w_cursor] = pPacket /\ pPacket \in Packets
      /\ UNCHANGED <<data, r_cursor, popped>> /\ pushed' = "success"
  BY DEF Inv, PushPublish, consumer
<1>2. Count' = Count + 1 /\ \A i \in 1 .. Count + 1 : Slot(i)' = Slot(i)
  BY <1>1, PushCount DEF Inv
<1>3. Count \in Nat /\ Slot(Count + 1) = w_cursor
  BY CountValue, ListAssumption DEF Inv
<1>4. Content \in Seq(Packets) /\ Len(Content) = Count
  BY ContentValue
<1>5. Content' \in Seq(Packets) /\ Len(Content') = Count + 1
  BY <1>2, <1>3, <1>1 DEF Content, Inv
<1>6. /\ Append(Content, pPacket) \in Seq(Packets)
      /\ Len(Append(Content, pPacket)) = Count + 1
  BY <1>1, <1>4
<1>7. \A i \in 1 .. Count + 1 : Content'[i] = Append(Content, pPacket)[i]
  <2> SUFFICES ASSUME NEW i \in 1 .. Count + 1
               PROVE  Content'[i] = Append(Content, pPacket)[i]
    OBVIOUS
  <2>1. Content'[i] = data[Slot(i)]
    BY <1>1, <1>2, <1>3 DEF Content
  <2>2. CASE i = Count + 1
    <3>1. Append(Content, pPacket)[Count + 1] = pPacket
      BY <1>1, <1>4, AppendProperties
    <3>2. data[Slot(Count + 1)] = pPacket
      BY <1>1, <1>3
    <3> QED
      BY <2>1, <2>2, <3>1, <3>2
  <2>3. CASE i \in 1 .. Count
    <3>1. Append(Content, pPacket)[i] = Content[i]
      BY <1>1, <1>4, <2>3, AppendProperties
    <3>2. Content[i] = data[Slot(i)]
      BY <2>3 DEF Content
    <3> QED
      BY <2>1, <3>1, <3>2
  <2>4. i = Count + 1 \/ i \in 1 .. Count
    BY <1>3
  <2> QED
    BY <2>2, <2>3, <2>4
<1>8. Content' = Append(Content, pPacket)
  BY <1>5, <1>6, <1>7, SeqEqual
<1>9. Len(Content) < Length - 1
  BY <1>1, ContentValue
<1> QED
  BY <1>1, <1>8, <1>9 DEF Queue!Push

(* Advancing the read cursor is the instant a packet is dequeued.          *)
LEMMA AdvancePops ==
  ASSUME Inv, Inv', PopAdvance
  PROVE  Queue!Pop
<1>1. /\ r_cursor' = Succ(r_cursor) /\ r_cursor # w_cursor
      /\ cPacket = data[r_cursor]
      /\ UNCHANGED <<data, w_cursor, pushed>> /\ popped' = cPacket
  BY DEF Inv, PopAdvance, producer
<1>2. Count' = Count - 1 /\ \A i \in 1 .. Count - 1 : Slot(i)' = Slot(i + 1)
  BY <1>1, PopCount DEF Inv
<1>3. Count \in Nat \ {0} /\ Slot(1) = r_cursor
  BY <1>1, CountValue, ListAssumption DEF Inv
<1>4. Content \in Seq(Packets) /\ Len(Content) = Count /\ Content # << >>
  BY <1>1, ContentValue
<1>5. Content' \in Seq(Packets) /\ Len(Content') = Count - 1
  BY <1>2, <1>3 DEF Content, Inv
<1>6. /\ Tail(Content) \in Seq(Packets) /\ Len(Tail(Content)) = Count - 1
      /\ \A i \in 1 .. Count - 1 : Tail(Content)[i] = Content[i + 1]
  BY <1>4, HeadTailProperties
<1>7. \A i \in 1 .. Count - 1 : Content'[i] = Content[i + 1]
  BY <1>1, <1>2, <1>3 DEF Content
<1>8. Content' = Tail(Content)
  BY <1>5, <1>6, <1>7, SeqEqual
<1>9. Head(Content) = cPacket
  BY <1>1, <1>3, <1>4 DEF Content
<1> QED
  BY <1>1, <1>4, <1>8, <1>9 DEF Queue!Pop

(* In every interleaving of the two threads, a push and a pop each take    *)
(* effect at one instant, on a FIFO queue of Length - 1 packets, and fail  *)
(* only when that queue is full or empty.                                  *)
THEOREM Refinement == Spec => ImplementsQueue
<1>1. Init => Queue!Init
  <2> SUFFICES ASSUME Init PROVE Queue!Init
    OBVIOUS
  <2>1. Content = << >>
    BY InvInit, ContentValue DEF Init
  <2> QED
    BY <2>1 DEF Init, Queue!Init
<1>2. Inv /\ Inv' /\ [Next]_vars => [Queue!Next]_Queue!vars
  <2> SUFFICES ASSUME Inv, Inv', [Next]_vars PROVE [Queue!Next]_Queue!vars
    OBVIOUS
  <2>1. ASSUME NEW p \in Packets, PushFull(p) PROVE Queue!PushFull
    <3>1. Content' = Content
      BY <2>1, SameContent DEF PushFull
    <3>2. Len(Content) = Length - 1
      BY <2>1, ContentValue, CountValue DEF PushFull, Inv
    <3> QED
      BY <2>1, <3>1, <3>2 DEF PushFull, Queue!PushFull, consumer
  <2>2. ASSUME NEW p \in Packets, PushTest(p) PROVE UNCHANGED Queue!vars
    BY <2>2, SameContent DEF PushTest, Queue!vars, consumer
  <2>3. CASE PushWrite
    <3>1. \A s \in Slots : s # w_cursor => data'[s] = data[s]
      BY <2>3 DEF PushWrite, Inv, TypeOK
    <3> QED
      BY <2>3, <3>1, SameContent DEF PushWrite, Queue!vars, consumer
  <2>4. CASE PushPublish
    <3>1. pPacket \in Packets
      BY <2>4 DEF Inv, PushPublish
    <3> QED
      BY <2>4, <3>1, PublishAppends DEF Queue!Next
  <2>5. CASE PopEmpty
    <3>1. Content' = Content /\ Content = << >>
      BY <2>5, SameContent, ContentValue DEF PopEmpty
    <3> QED
      BY <2>5, <3>1 DEF PopEmpty, Queue!PopEmpty, Queue!Next, producer
  <2>6. CASE PopTest
    BY <2>6, SameContent DEF PopTest, Queue!vars, producer
  <2>7. CASE PopRead
    BY <2>7, SameContent DEF PopRead, Queue!vars, producer
  <2>8. CASE PopAdvance
    BY <2>8, AdvancePops DEF Queue!Next
  <2>9. CASE UNCHANGED vars
    BY <2>9, SameContent DEF vars, producer, consumer, Queue!vars
  <2> QED
    BY <2>1, <2>2, <2>3, <2>4, <2>5, <2>6, <2>7, <2>8, <2>9
       DEF Next, Producer, Consumer, Queue!Next
<1> QED
  BY <1>1, <1>2, Invariance, PTL DEF Spec, Queue!Spec, ImplementsQueue
=============================================================================
