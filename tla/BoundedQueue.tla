---------------------------- MODULE BoundedQueue ----------------------------
(***************************************************************************)
(* What a nolock_list promises to the two threads that share it: a FIFO    *)
(* queue of at most Capacity packets.  A push either appends the packet or *)
(* reports NOLOCK_OPERATION_FAILED, and only when the queue is full; a pop *)
(* either hands over the oldest packet or leaves the caller's pointer NULL,*)
(* and only when the queue is empty.  NolockList implements this module.   *)
(***************************************************************************)
EXTENDS Naturals, Sequences

CONSTANTS Packets,   \* the packets a producer may push
          NULL,      \* the caller's pointer before a successful pop
          Capacity   \* how many packets the queue holds, at least one

VARIABLES queue,     \* the packets pushed and not yet popped, oldest first
          pushed,    \* what the producer's last push returned
          popped     \* what the consumer's last pop stored through *data

vars == <<queue, pushed, popped>>

Results == {"none", "failed", "success"}

TypeOK == /\ queue \in Seq(Packets)
          /\ pushed \in Results
          /\ popped \in Packets \cup {NULL}

Init == /\ queue = << >>
        /\ pushed = "none"
        /\ popped = NULL

Push(p) == /\ Len(queue) < Capacity
           /\ queue' = Append(queue, p)
           /\ pushed' = "success"
           /\ UNCHANGED popped

PushFull == /\ Len(queue) = Capacity
            /\ pushed' = "failed"
            /\ UNCHANGED <<queue, popped>>

Pop == /\ queue # << >>
       /\ popped' = Head(queue)
       /\ queue' = Tail(queue)
       /\ UNCHANGED pushed

PopEmpty == /\ queue = << >>
            /\ popped' = NULL
            /\ UNCHANGED <<queue, pushed>>

Next == (\E p \in Packets : Push(p)) \/ PushFull \/ Pop \/ PopEmpty

Spec == Init /\ [][Next]_vars

=============================================================================
