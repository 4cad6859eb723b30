--------------------------- MODULE MainLoopProofs ---------------------------
(***************************************************************************)
(* What TLAPS proves of mainLoop and the heap it shares with the threads   *)
(* around it, for every number of blocks, every size of the lists and of   *)
(* the event queue, every set of packets and messages and any number of    *)
(* them: who owns a packet is known at every moment until an allocation    *)
(* fails or a new speed of the serial line is asked for, so no block is    *)
(* used after it was freed and none is forgotten, and no socket is lost.   *)
(***************************************************************************)
EXTENDS MainLoop, FiniteSetTheorems, SequenceTheorems, TLAPS

-----------------------------------------------------------------------------
(* The memory, and who refers to its blocks. *)

Faults == {"none", "freed", "null", "stack", "unsized"}
Memories == [heap : [Cells -> Blocks \cup {FREE}], list : [Lists -> Seq(Cells)],
             fault : Faults, oom : BOOLEAN, refused : SUBSET {"packet", "events"}]
MemType(m) == m \in Memories /\ \A l \in Lists : Len(m.list[l]) <= Cap(l)

(* Each block that a list, the set of those being processed o, or the      *)
(* description f refers to is allocated, and there is no other reference.  *)
Sound(m, o, f) ==
  /\ m.fault \notin {"freed", "null"}
  /\ \A c \in Cells : m.heap[c] # FREE => m.heap[c].data # "missing"
  /\ \A c \in o \cup f : m.heap[c] # FREE
  /\ \A c \in f : m.heap[c].kind = "text"
  /\ o \cap f = {}
  /\ \A l \in Lists : \A i \in DOMAIN m.list[l] :
       m.heap[m.list[l][i]] # FREE /\ m.list[l][i] \notin o \cup f
  /\ \A k, l \in Lists : \A i \in DOMAIN m.list[k], j \in DOMAIN m.list[l] :
       m.list[k][i] = m.list[l][j] => k = l /\ i = j
  /\ \A i \in DOMAIN m.list["device2wifiAck"] : m.heap[m.list["device2wifiAck"][i]].kind = "ack"

(* Each block that is allocated is referred to, or may be forgotten.       *)
Listed(m, c) == \E l \in Lists : \E i \in DOMAIN m.list[l] : m.list[l][i] = c
Kept(m, o, f) ==
  \/ m.fault # "none" \/ "packet" \in m.refused
  \/ \A c \in Cells : \/ m.heap[c] = FREE \/ c \in o \cup f \/ Listed(m, c)
                       \/ m.heap[c].kind \in {"text", "ack"}

(* All this until an allocation fails, or b.                               *)
Good(m, o, f, b) == /\ MemType(m) /\ o \subseteq Cells /\ f \subseteq Cells
                    /\ b \/ m.oom \/ (Sound(m, o, f) /\ Kept(m, o, f))

-----------------------------------------------------------------------------
(* The operations on the memory: the types. *)

(* What a record of the memory holds after each of them.                   *)
LEMMA MemFields ==
  ASSUME NEW m, MemType(m)
  PROVE  /\ m.heap \in [Cells -> Blocks \cup {FREE}] /\ m.list \in [Lists -> Seq(Cells)]
         /\ m.fault \in Faults /\ m.oom \in BOOLEAN /\ m.refused \subseteq {"packet", "events"}
BY DEF MemType, Memories

(* The first fault is noted, and nothing else changes.                     *)
LEMMA FaultType ==
  ASSUME NEW m, MemType(m), NEW f \in Faults
  PROVE  /\ MemType(Fault(m, f))
         /\ Fault(m, f).heap = m.heap /\ Fault(m, f).list = m.list
         /\ Fault(m, f).oom = m.oom /\ Fault(m, f).refused = m.refused
         /\ Fault(m, f).fault = IF m.fault = "none" THEN f ELSE m.fault
BY DEF MemType, Memories, Fault

(* A failed allocation is noted, and nothing else changes.                 *)
LEMMA OomType ==
  ASSUME NEW m, MemType(m)
  PROVE  MemType(OutOfMemory(m)) /\ OutOfMemory(m).oom /\ OutOfMemory(m).fault = m.fault
BY DEF MemType, Memories, OutOfMemory

(* The block malloc hands out is one that was free.                        *)
LEMMA NewCellFree ==
  ASSUME NEW m, Room(m)
  PROVE  NewCell(m) \in Cells /\ m.heap[NewCell(m)] = FREE
BY DEF Room, NewCell, Available

(* Allocating changes that block only.                                     *)
LEMMA WithType ==
  ASSUME NEW m, MemType(m), Room(m), NEW x \in Blocks
  PROVE  /\ MemType(With(m, x))
         /\ With(m, x).heap = [m.heap EXCEPT ![NewCell(m)] = x]
         /\ With(m, x).list = m.list /\ With(m, x).fault = m.fault
         /\ With(m, x).oom = m.oom /\ With(m, x).refused = m.refused
<1>1. NewCell(m) \in Cells
  BY NewCellFree
<1>2. [m.heap EXCEPT ![NewCell(m)] = x] \in [Cells -> Blocks \cup {FREE}]
  BY <1>1, MemFields
<1>3. With(m, x) = [m EXCEPT !.heap = [m.heap EXCEPT ![NewCell(m)] = x]]
  BY DEF With, MemType, Memories
<1> QED
  BY <1>2, <1>3 DEF MemType, Memories

(* Freeing an allocated block changes that block only.                     *)
LEMMA FreeType ==
  ASSUME NEW m, MemType(m), NEW c \in Cells
  PROVE  /\ MemType(Free(m, c)) /\ Free(m, c).oom = m.oom
         /\ m.heap[c] # FREE => /\ Free(m, c).heap = [m.heap EXCEPT ![c] = FREE]
                                /\ Free(m, c).list = m.list /\ Free(m, c).fault = m.fault
                                /\ Free(m, c).refused = m.refused
<1>1. CASE m.heap[c] = FREE
  BY <1>1, FaultType DEF Free, Faults
<1>2. CASE m.heap[c] # FREE
  <2>1. [m.heap EXCEPT ![c] = FREE] \in [Cells -> Blocks \cup {FREE}]
    BY MemFields
  <2>2. Free(m, c) = [m EXCEPT !.heap = [m.heap EXCEPT ![c] = FREE]]
    BY <1>2 DEF Free, MemType, Memories
  <2> QED
    BY <2>1, <2>2 DEF MemType, Memories
<1> QED
  BY <1>1, <1>2

(* A push appends, or notes that the list refused.                         *)
LEMMA PushType ==
  ASSUME NEW m, MemType(m), NEW l \in Lists, NEW c \in Cells
  PROVE  /\ MemType(Push(m, l, c))
         /\ Push(m, l, c).heap = m.heap /\ Push(m, l, c).fault = m.fault
         /\ Push(m, l, c).oom = m.oom
         /\ Len(m.list[l]) < Cap(l) =>
              /\ Push(m, l, c).list = [m.list EXCEPT ![l] = Append(m.list[l], c)]
              /\ Push(m, l, c).refused = m.refused
         /\ ~ Len(m.list[l]) < Cap(l) =>
              /\ Push(m, l, c).list = m.list
              /\ Push(m, l, c).refused = m.refused \cup {"packet"}
<1>1. CASE Len(m.list[l]) < Cap(l)
  <2>1. m.list[l] \in Seq(Cells) /\ Cap(l) \in Nat
    BY MemFields, MainLoopAssumption DEF Cap
  <2>2. Append(m.list[l], c) \in Seq(Cells) /\ Len(Append(m.list[l], c)) <= Cap(l)
    BY <1>1, <2>1, AppendProperties
  <2>3. [m.list EXCEPT ![l] = Append(m.list[l], c)] \in [Lists -> Seq(Cells)]
    BY <2>2, MemFields
  <2>4. Push(m, l, c) = [m EXCEPT !.list = [m.list EXCEPT ![l] = Append(m.list[l], c)]]
    BY <1>1 DEF Push, MemType, Memories
  <2> QED
    BY <1>1, <2>2, <2>3, <2>4 DEF MemType, Memories
<1>2. CASE ~ Len(m.list[l]) < Cap(l)
  BY <1>2 DEF Push, MemType, Memories
<1> QED
  BY <1>1, <1>2

(* What is taken from a list, and what is left of it.                      *)
LEMMA Taken ==
  ASSUME NEW s \in Seq(Cells), s # << >>
  PROVE  /\ Tail(s) \in Seq(Cells) /\ Len(Tail(s)) <= Len(s)
         /\ \A i \in DOMAIN Tail(s) : i + 1 \in DOMAIN s /\ i + 1 # 1 /\ Tail(s)[i] = s[i + 1]
         /\ 1 \in DOMAIN s /\ Head(s) = s[1] /\ Head(s) \in Cells
         /\ \A i \in DOMAIN s : i = 1 \/ i - 1 \in DOMAIN Tail(s)
<1>1. Len(s) \in Nat /\ Len(s) > 0 /\ DOMAIN s = 1 .. Len(s)
  BY EmptySeq, LenProperties
<1>2. /\ Head(s) = s[1] /\ Head(s) \in Cells
      /\ Tail(s) \in Seq(Cells) /\ Len(Tail(s)) = Len(s) - 1
      /\ \A i \in 1 .. Len(Tail(s)) : Tail(s)[i] = s[i + 1]
  BY <1>1, HeadTailProperties
<1>3. DOMAIN Tail(s) = 1 .. Len(s) - 1
  BY <1>1, <1>2, LenProperties
<1> QED
  BY <1>1, <1>2, <1>3

(* Taking the head of a list leaves the rest of it.                        *)
LEMMA DropType ==
  ASSUME NEW m, MemType(m), NEW l \in Lists, m.list[l] # << >>
  PROVE  /\ MemType(Drop(m, l)) /\ Head(m.list[l]) \in Cells
         /\ Drop(m, l).heap = m.heap /\ Drop(m, l).fault = m.fault
         /\ Drop(m, l).oom = m.oom /\ Drop(m, l).refused = m.refused
         /\ Drop(m, l).list = [m.list EXCEPT ![l] = Tail(m.list[l])]
<1>1. m.list[l] \in Seq(Cells)
  BY MemFields
<1>2. /\ Tail(m.list[l]) \in Seq(Cells) /\ Len(Tail(m.list[l])) <= Len(m.list[l])
      /\ Head(m.list[l]) \in Cells
  BY <1>1, Taken
<1>3. [m.list EXCEPT ![l] = Tail(m.list[l])] \in [Lists -> Seq(Cells)]
  BY <1>2, MemFields
<1>4. Drop(m, l) = [m EXCEPT !.list = [m.list EXCEPT ![l] = Tail(m.list[l])]]
  BY DEF Drop, MemType, Memories
<1>5. Cap(l) \in Nat /\ Len(m.list[l]) \in Nat /\ Len(Tail(m.list[l])) \in Nat
  BY <1>1, <1>2, LenProperties, MainLoopAssumption DEF Cap
<1>6. Len(Tail(m.list[l])) <= Cap(l)
  BY <1>2, <1>5 DEF MemType
<1> QED
  BY <1>2, <1>3, <1>4, <1>6 DEF MemType, Memories

-----------------------------------------------------------------------------
(* The operations on the memory: who refers to what. *)

(* Nothing is promised once an allocation has failed.                      *)
LEMMA GoodWithout ==
  ASSUME NEW m, NEW o, NEW f, NEW b, MemType(m), o \subseteq Cells, f \subseteq Cells
  PROVE  Good(OutOfMemory(m), o, f, b)
BY OomType DEF Good

(* A block that is allocated is nobody's yet.                              *)
LEMMA Allocated ==
  ASSUME NEW m, NEW o, NEW f, NEW b, Good(m, o, f, b), Room(m), NEW x \in Blocks, x.data # "missing"
  PROVE  /\ Good(With(m, x), o \cup {NewCell(m)}, f, b)
         /\ With(m, x).heap[NewCell(m)] = x /\ NewCell(m) \in Cells
         /\ With(m, x).oom = m.oom
         /\ b \/ m.oom \/ NewCell(m) \notin o \cup f
<1> DEFINE c == NewCell(m)
           w == With(m, x)
<1>1. c \in Cells /\ m.heap[c] = FREE
  BY NewCellFree
<1>2. /\ MemType(w) /\ w.heap = [m.heap EXCEPT ![c] = x] /\ w.list = m.list /\ w.fault = m.fault
      /\ w.oom = m.oom /\ w.refused = m.refused
  BY WithType DEF Good
<1>3. x # FREE
  BY MainLoopAssumption
<1>4. w.heap[c] = x /\ \A d \in Cells : d # c => w.heap[d] = m.heap[d]
  BY <1>1, <1>2, MemFields DEF Good
<1>5. \A l \in Lists : \A i \in DOMAIN m.list[l] : m.list[l][i] \in Cells
  BY MemFields, LenProperties DEF Good
<1>6. "device2wifiAck" \in Lists
  BY DEF Lists, OutLists
<1> HIDE DEF c, w
<1>7. Sound(m, o, f) => Sound(w, o \cup {c}, f)
  <2> SUFFICES ASSUME Sound(m, o, f) PROVE Sound(w, o \cup {c}, f)
    OBVIOUS
  <2>1. c \notin o \cup f /\ \A l \in Lists : \A i \in DOMAIN m.list[l] : m.list[l][i] # c
    BY <1>1 DEF Sound
  <2>2. /\ w.fault \notin {"freed", "null"}
        /\ \A d \in Cells : w.heap[d] # FREE => w.heap[d].data # "missing"
        /\ \A d \in o \cup {c} \cup f : w.heap[d] # FREE
        /\ \A d \in f : w.heap[d].kind = "text"
        /\ (o \cup {c}) \cap f = {}
    BY <1>2, <1>3, <1>4, <2>1 DEF Sound, Good
  <2>3. /\ \A l \in Lists : \A i \in DOMAIN w.list[l] :
             w.heap[w.list[l][i]] # FREE /\ w.list[l][i] \notin o \cup {c} \cup f
        /\ \A k, l \in Lists : \A i \in DOMAIN w.list[k], j \in DOMAIN w.list[l] :
             w.list[k][i] = w.list[l][j] => k = l /\ i = j
    BY <1>2, <1>4, <1>5, <2>1 DEF Sound
  <2>4. \A i \in DOMAIN w.list["device2wifiAck"] : w.heap[w.list["device2wifiAck"][i]].kind = "ack"
    BY <1>2, <1>4, <1>5, <1>6, <2>1 DEF Sound
  <2> QED
    BY <2>2, <2>3, <2>4 DEF Sound
<1>8. Kept(m, o, f) => Kept(w, o \cup {c}, f)
  BY <1>2, <1>4 DEF Kept, Listed
<1>9. f \subseteq Cells /\ o \cup {c} \subseteq Cells
  BY <1>1 DEF Good
<1>10. b \/ w.oom \/ (Sound(w, o \cup {c}, f) /\ Kept(w, o \cup {c}, f))
  BY <1>2, <1>7, <1>8 DEF Good
<1>11. b \/ m.oom \/ c \notin o \cup f
  BY <1>1 DEF Good, Sound
<1> QED
  BY <1>1, <1>2, <1>4, <1>9, <1>10, <1>11 DEF Good, c, w

(* A block is freed by the one that refers to it.                          *)
LEMMA Freed ==
  ASSUME NEW m, NEW o, NEW f, NEW b, NEW c \in Cells, Good(m, o \cup {c}, f, b),
         b \/ m.oom \/ c \notin o
  PROVE  Good(Free(m, c), o, f, b)
<1> DEFINE w == Free(m, c)
<1>1. MemType(w) /\ w.oom = m.oom
  BY FreeType DEF Good
<1>2. CASE b \/ m.oom
  BY <1>1, <1>2 DEF Good
<1>3. CASE ~ (b \/ m.oom)
  <2>0. Sound(m, o \cup {c}, f) /\ Kept(m, o \cup {c}, f) /\ c \notin o
    BY <1>3 DEF Good
  <2>1. m.heap[c] # FREE /\ c \notin f
    BY <2>0 DEF Sound
  <2>2. /\ w.heap = [m.heap EXCEPT ![c] = FREE] /\ w.list = m.list /\ w.fault = m.fault
        /\ w.refused = m.refused
    BY <2>1, FreeType DEF Good
  <2>3. w.heap[c] = FREE /\ \A d \in Cells : d # c => w.heap[d] = m.heap[d]
    BY <2>2, MemFields DEF Good
  <2>4. \A l \in Lists : \A i \in DOMAIN m.list[l] : m.list[l][i] \in Cells /\ m.list[l][i] # c
    BY <2>0, MemFields, LenProperties DEF Good, Sound
  <2>5. "device2wifiAck" \in Lists
    BY DEF Lists, OutLists
  <2>6. o \subseteq Cells /\ f \subseteq Cells
    BY DEF Good
  <2> HIDE DEF w
  <2>7. Sound(w, o, f)
    <3>1. /\ w.fault \notin {"freed", "null"}
          /\ \A d \in Cells : w.heap[d] # FREE => w.heap[d].data # "missing"
          /\ \A d \in o \cup f : w.heap[d] # FREE
          /\ \A d \in f : w.heap[d].kind = "text"
          /\ o \cap f = {}
      BY <2>0, <2>1, <2>2, <2>3, <2>6 DEF Sound
    <3>2. /\ \A l \in Lists : \A i \in DOMAIN w.list[l] :
               w.heap[w.list[l][i]] # FREE /\ w.list[l][i] \notin o \cup f
          /\ \A k, l \in Lists : \A i \in DOMAIN w.list[k], j \in DOMAIN w.list[l] :
               w.list[k][i] = w.list[l][j] => k = l /\ i = j
      BY <2>0, <2>2, <2>3, <2>4 DEF Sound
    <3>3. \A i \in DOMAIN w.list["device2wifiAck"] : w.heap[w.list["device2wifiAck"][i]].kind = "ack"
      BY <2>0, <2>2, <2>3, <2>4, <2>5 DEF Sound
    <3> QED
      BY <3>1, <3>2, <3>3 DEF Sound
  <2>8. Kept(w, o, f)
    BY <2>0, <2>2, <2>3 DEF Kept, Listed
  <2> QED
    BY <1>1, <2>6, <2>7, <2>8 DEF Good, w
<1> QED
  BY <1>2, <1>3 DEF Good

(* A block of text, or an acknowledgement, may be forgotten.               *)
LEMMA Forgotten ==
  ASSUME NEW m, NEW o, NEW f, NEW p, NEW g, NEW b, Good(m, o, f, b), p \subseteq o, g \subseteq f,
         b \/ m.oom \/ \A c \in (o \cup f) \ (p \cup g) : m.heap[c].kind \in {"text", "ack"}
  PROVE  Good(m, p, g, b)
<1>1. p \subseteq Cells /\ g \subseteq Cells
  BY DEF Good
<1>2. Sound(m, o, f) => Sound(m, p, g)
  BY DEF Sound
<1>3. (\A c \in (o \cup f) \ (p \cup g) : m.heap[c].kind \in {"text", "ack"})
        => (Kept(m, o, f) => Kept(m, p, g))
  BY DEF Kept
<1> QED
  BY <1>1, <1>2, <1>3 DEF Good

(* A step without a meaning, other than the use of a freed block or of a   *)
(* null pointer.                                                           *)
LEMMA Stopped ==
  ASSUME NEW m, NEW o, NEW f, NEW b, Good(m, o, f, b), NEW g \in Faults,
         b \/ m.oom \/ g \notin {"freed", "null"}
  PROVE  Good(Fault(m, g), o, f, b)
<1> DEFINE w == Fault(m, g)
<1>1. /\ MemType(w) /\ w.heap = m.heap /\ w.list = m.list
      /\ w.oom = m.oom /\ w.refused = m.refused
      /\ w.fault = IF m.fault = "none" THEN g ELSE m.fault
  BY FaultType DEF Good
<1> HIDE DEF w
<1>2. g \notin {"freed", "null"} /\ Sound(m, o, f) => Sound(w, o, f)
  BY <1>1 DEF Sound
<1>3. Kept(m, o, f) => Kept(w, o, f)
  BY <1>1 DEF Kept, Listed
<1> QED
  BY <1>1, <1>2, <1>3 DEF Good, w

(* A block is handed to a list, or refused by it.                          *)
LEMMA Stored ==
  ASSUME NEW m, NEW o, NEW f, NEW b, NEW c \in Cells, Good(m, o \cup {c}, f, b),
         b \/ m.oom \/ c \notin o,
         NEW l \in Lists, b \/ m.oom \/ (l = "device2wifiAck" => m.heap[c].kind = "ack")
  PROVE  Good(Push(m, l, c), o, f, b)
<1> DEFINE w == Push(m, l, c)
           s == m.list[l]
<1>1. /\ MemType(w) /\ w.heap = m.heap /\ w.fault = m.fault /\ w.oom = m.oom
      /\ o \subseteq Cells /\ f \subseteq Cells
  BY PushType DEF Good
<1>2. CASE b \/ m.oom
  BY <1>1, <1>2 DEF Good
<1>3. Sound(m, o \cup {c}, f) => Sound(m, o, f)
  BY DEF Sound
<1>4. CASE ~ Len(s) < Cap(l)
  <2>1. w.list = m.list /\ w.refused = m.refused \cup {"packet"}
    BY <1>4 DEF Push, Good, MemType, Memories
  <2> HIDE DEF w
  <2>2. Sound(m, o, f) => Sound(w, o, f)
    BY <1>1, <2>1 DEF Sound
  <2>3. Kept(w, o, f)
    BY <2>1 DEF Kept
  <2> QED
    BY <1>1, <1>2, <1>3, <2>2, <2>3 DEF Good, w
<1>5. CASE Len(s) < Cap(l) /\ ~ (b \/ m.oom)
  <2>1. w.list = [m.list EXCEPT ![l] = Append(s, c)] /\ w.refused = m.refused
    BY <1>5, PushType DEF Good
  <2>2. s \in Seq(Cells) /\ m.list \in [Lists -> Seq(Cells)]
    BY MemFields DEF Good
  <2>3. /\ Len(s) \in Nat /\ DOMAIN s = 1 .. Len(s) /\ DOMAIN Append(s, c) = 1 .. Len(s) + 1
        /\ \A i \in 1 .. Len(s) : Append(s, c)[i] = s[i]
        /\ Append(s, c)[Len(s) + 1] = c
    BY <2>2, AppendProperties, LenProperties
  <2>4. Sound(m, o \cup {c}, f) /\ Kept(m, o \cup {c}, f) /\ c \notin o
    BY <1>5 DEF Good
  <2>5. /\ w.list[l] = Append(s, c)
        /\ \A k \in Lists : k # l => w.list[k] = m.list[k]
    BY <2>1, <2>2
  <2>6. \A i \in DOMAIN w.list[l] : i \in DOMAIN s \/ i = Len(s) + 1
    BY <2>3, <2>5
  <2> HIDE DEF w, s
  <2>7. \A k \in Lists : \A i \in DOMAIN w.list[k] :
          \/ i \in DOMAIN m.list[k] /\ w.list[k][i] = m.list[k][i]
          \/ k = l /\ i = Len(s) + 1 /\ w.list[k][i] = c
    BY <2>3, <2>5, <2>6 DEF s
  <2>8. \A k \in Lists : \A i \in DOMAIN m.list[k] : m.list[k][i] # c
    BY <2>4 DEF Sound
  <2>9. Sound(w, o, f)
    <3>1. /\ w.fault \notin {"freed", "null"}
          /\ \A d \in Cells : w.heap[d] # FREE => w.heap[d].data # "missing"
          /\ \A d \in o \cup f : w.heap[d] # FREE
          /\ \A d \in f : w.heap[d].kind = "text"
          /\ o \cap f = {}
      BY <1>1, <2>4 DEF Sound
    <3>2. \A k \in Lists : \A i \in DOMAIN w.list[k] :
            w.heap[w.list[k][i]] # FREE /\ w.list[k][i] \notin o \cup f
      BY <1>1, <2>4, <2>7 DEF Sound
    <3>3. \A h, k \in Lists : \A i \in DOMAIN w.list[h], j \in DOMAIN w.list[k] :
            w.list[h][i] = w.list[k][j] => h = k /\ i = j
      BY <2>4, <2>7, <2>8 DEF Sound
    <3>4. \A i \in DOMAIN w.list["device2wifiAck"] : w.heap[w.list["device2wifiAck"][i]].kind = "ack"
      BY <1>1, <1>5, <2>4, <2>7 DEF Sound, Lists, OutLists
    <3> QED
      BY <3>1, <3>2, <3>3, <3>4 DEF Sound
  <2>10. Kept(w, o, f)
    <3>1. Listed(w, c)
      BY <2>3, <2>5 DEF Listed
    <3>2. \A d : Listed(m, d) => Listed(w, d)
      <4> SUFFICES ASSUME NEW k \in Lists, NEW i \in DOMAIN m.list[k]
                   PROVE  i \in DOMAIN w.list[k] /\ w.list[k][i] = m.list[k][i]
        BY DEF Listed
      <4>1. CASE k = l
        <5>1. m.list[k] = s /\ w.list[k] = Append(s, c)
          BY <2>5, <4>1 DEF s
        <5>2. i \in 1 .. Len(s) /\ i \in 1 .. Len(s) + 1
          BY <2>3, <5>1
        <5> QED
          BY <2>3, <5>1, <5>2
      <4>2. CASE k # l
        BY <2>5, <4>2
      <4> QED
        BY <4>1, <4>2
    <3> QED
      BY <1>1, <2>1, <2>4, <3>1, <3>2 DEF Kept, w
  <2> QED
    BY <1>1, <2>9, <2>10 DEF Good, w
<1> QED
  BY <1>2, <1>4, <1>5

(* A block is taken from a list.                                           *)
LEMMA Dropped ==
  ASSUME NEW m, NEW o, NEW f, NEW b, Good(m, o, f, b), NEW l \in Lists, m.list[l] # << >>
  PROVE  /\ Good(Drop(m, l), o \cup {Head(m.list[l])}, f, b)
         /\ Head(m.list[l]) \in Cells
         /\ b \/ m.oom \/ /\ Head(m.list[l]) \notin o \cup f /\ m.heap[Head(m.list[l])] # FREE
                          /\ m.heap[Head(m.list[l])].data # "missing"
                          /\ l = "device2wifiAck" => m.heap[Head(m.list[l])].kind = "ack"
<1> DEFINE w == Drop(m, l)
           c == Head(m.list[l])
           s == m.list[l]
<1>1. /\ MemType(w) /\ w.heap = m.heap /\ w.fault = m.fault /\ w.oom = m.oom /\ w.refused = m.refused
      /\ o \subseteq Cells /\ f \subseteq Cells /\ c \in Cells
      /\ w.list = [m.list EXCEPT ![l] = Tail(s)]
  BY DropType DEF Good
<1>2. CASE b \/ m.oom
  BY <1>1, <1>2 DEF Good
<1>3. CASE ~ (b \/ m.oom)
  <2>1. /\ \A i \in DOMAIN Tail(s) : i + 1 \in DOMAIN s /\ i + 1 # 1 /\ Tail(s)[i] = s[i + 1]
        /\ 1 \in DOMAIN s /\ c = s[1]
        /\ \A i \in DOMAIN s : i = 1 \/ i - 1 \in DOMAIN Tail(s)
    <3>1. s \in Seq(Cells)
      BY MemFields DEF Good
    <3> HIDE DEF s
    <3>2. s # << >>
      BY DEF s
    <3> QED
      BY <3>1, <3>2, Taken DEF c, s
  <2>2. Sound(m, o, f) /\ Kept(m, o, f)
    BY <1>3 DEF Good
  <2>3. DOMAIN s \subseteq Nat /\ DOMAIN Tail(s) \subseteq Nat
    <3>1. s \in Seq(Cells) /\ Tail(s) \in Seq(Cells)
      <4>1. s \in Seq(Cells)
        BY MemFields DEF Good
      <4> QED
        BY <4>1, HeadTailProperties
    <3> QED
      BY <3>1, LenProperties
  <2>4. /\ w.list[l] = Tail(s)
        /\ \A k \in Lists : k # l => w.list[k] = m.list[k]
    BY <1>1, MemFields DEF Good
  <2>5. m.heap[c] # FREE /\ c \notin o \cup f /\ m.heap[c].data # "missing"
    BY <1>1, <2>1, <2>2 DEF Sound
  <2>6. l = "device2wifiAck" => m.heap[c].kind = "ack"
    BY <2>1, <2>2 DEF Sound
  <2> HIDE DEF w, c, s
  <2>7. \A k \in Lists : \A i \in DOMAIN w.list[k] :
          \/ k # l /\ i \in DOMAIN m.list[k] /\ w.list[k][i] = m.list[k][i]
          \/ /\ k = l /\ i + 1 \in DOMAIN m.list[k] /\ w.list[k][i] = m.list[k][i + 1]
             /\ i \in Nat /\ i + 1 # 1
    BY <2>1, <2>3, <2>4 DEF s
  <2>8. /\ w.fault \notin {"freed", "null"}
        /\ \A d \in Cells : w.heap[d] # FREE => w.heap[d].data # "missing"
        /\ \A d \in o \cup {c} \cup f : w.heap[d] # FREE
        /\ \A d \in f : w.heap[d].kind = "text"
        /\ (o \cup {c}) \cap f = {}
    BY <1>1, <2>2, <2>5 DEF Sound
  <2>9. \A k \in Lists : \A i \in DOMAIN w.list[k] :
          /\ w.heap[w.list[k][i]] # FREE /\ w.list[k][i] \notin o \cup f
          /\ w.list[k][i] # c
    <3> SUFFICES ASSUME NEW k \in Lists, NEW i \in DOMAIN w.list[k]
                 PROVE  /\ w.heap[w.list[k][i]] # FREE /\ w.list[k][i] \notin o \cup f
                        /\ w.list[k][i] # c
      OBVIOUS
    <3>1. PICK j \in DOMAIN m.list[k] : w.list[k][i] = m.list[k][j] /\ (k = l => j # 1)
      BY <2>7
    <3>2. m.list[k][j] # m.list[l][1]
      BY <2>1, <2>2, <3>1 DEF Sound, s
    <3> QED
      BY <1>1, <2>1, <2>2, <3>1, <3>2 DEF Sound, s
  <2>10. \A h, k \in Lists : \A i \in DOMAIN w.list[h], j \in DOMAIN w.list[k] :
            w.list[h][i] = w.list[k][j] => h = k /\ i = j
    <3> SUFFICES ASSUME NEW h \in Lists, NEW k \in Lists, NEW i \in DOMAIN w.list[h],
                        NEW j \in DOMAIN w.list[k], w.list[h][i] = w.list[k][j]
                 PROVE  h = k /\ i = j
      OBVIOUS
    <3>1. CASE h = l /\ k = l
      <4>1. i + 1 \in DOMAIN m.list[l] /\ j + 1 \in DOMAIN m.list[l] /\ i \in Nat /\ j \in Nat
            /\ m.list[l][i + 1] = m.list[l][j + 1]
        BY <2>7, <3>1
      <4>2. i + 1 = j + 1
        BY <2>2, <4>1 DEF Sound
      <4> QED
        BY <3>1, <4>1, <4>2
    <3>2. CASE h # l /\ k # l
      BY <2>2, <2>7, <3>2 DEF Sound
    <3>3. CASE ~ (h = l /\ k = l) /\ ~ (h # l /\ k # l)
      <4>1. \E p \in DOMAIN m.list[h], q \in DOMAIN m.list[k] : m.list[h][p] = m.list[k][q]
        BY <2>7
      <4> QED
        BY <2>2, <3>3, <4>1 DEF Sound
    <3> QED
      BY <3>1, <3>2, <3>3
  <2>11. \A i \in DOMAIN w.list["device2wifiAck"] : w.heap[w.list["device2wifiAck"][i]].kind = "ack"
    BY <1>1, <2>2, <2>7 DEF Sound, Lists, OutLists
  <2>12. Sound(w, o \cup {c}, f)
    BY <2>8, <2>9, <2>10, <2>11 DEF Sound
  <2>13. \A d : Listed(m, d) => Listed(w, d) \/ d = c
    <3> SUFFICES ASSUME NEW k \in Lists, NEW i \in DOMAIN m.list[k]
                 PROVE  m.list[k][i] = c \/ \E j \in DOMAIN w.list[k] : w.list[k][j] = m.list[k][i]
      BY DEF Listed
    <3>1. CASE k # l
      BY <2>4, <3>1
    <3>2. CASE k = l /\ i # 1
      <4>1. i - 1 \in DOMAIN Tail(s) /\ i \in Nat
        BY <2>1, <2>3, <3>2 DEF s
      <4>2. Tail(s)[i - 1] = s[(i - 1) + 1] /\ (i - 1) + 1 = i
        BY <2>1, <2>3, <4>1
      <4> QED
        BY <2>4, <3>2, <4>1, <4>2 DEF s
    <3>3. CASE k = l /\ i = 1
      BY <2>1, <3>3 DEF s
    <3> QED
      BY <3>1, <3>2, <3>3
  <2>14. Kept(w, o \cup {c}, f)
    BY <1>1, <2>2, <2>13 DEF Kept
  <2>15. Good(w, o \cup {c}, f, b)
    BY <1>1, <2>12, <2>14 DEF Good, c
  <2> QED
    BY <1>1, <2>5, <2>6, <2>15 DEF w, c
<1> QED
  BY <1>2, <1>3

-----------------------------------------------------------------------------
(* The three ways to make a packet, and those that free it when its list   *)
(* is full. *)

(* A new packet that is pushed, pushed or freed, or freed is owned.        *)
LEMMA Replied ==
  ASSUME NEW m, NEW o, NEW f, NEW b, Good(m, o, f, b), Room(m), NEW k \in Kinds, NEW d \in {"full", "none"},
         NEW l \in Lists, l = "device2wifiAck" => k = "ack"
  PROVE  /\ Good(Push(With(m, Block(k, d)), l, NewCell(m)), o, f, b)
         /\ Good(PushOrFree(With(m, Block(k, d)), l, NewCell(m)), o, f, b)
         /\ Good(Free(With(m, Block(k, d)), NewCell(m)), o, f, b)
<1>1. Block(k, d) \in Blocks /\ Block(k, d).data # "missing" /\ Block(k, d).kind = k
  BY DEF Block, Blocks, Datas
<1> DEFINE x == Block(k, d)
<1>a. x \in Blocks /\ x.data # "missing"
  BY <1>1
<1> HIDE DEF x
<1>2. /\ Good(With(m, x), o \cup {NewCell(m)}, f, b) /\ NewCell(m) \in Cells
      /\ With(m, x).heap[NewCell(m)] = x /\ With(m, x).oom = m.oom
      /\ b \/ m.oom \/ NewCell(m) \notin o \cup f
  BY <1>a, Allocated
<1>3. Good(Push(With(m, x), l, NewCell(m)), o, f, b)
  BY <1>1, <1>2, Stored DEF x
<1>4. Good(Free(With(m, x), NewCell(m)), o, f, b)
  BY <1>2, Freed
<1> QED
  BY <1>3, <1>4 DEF PushOrFree, x

(* A callback that allocates a packet and its data keeps ownership.        *)
LEMMA MadeGood ==
  ASSUME NEW m, NEW o, NEW f, NEW b, Good(m, o, f, b), NEW k \in Kinds,
         NEW l \in Lists, l # "device2wifiAck", NEW none, Room(m) => MemType(none)
  PROVE  \A r \in Made(m, l, k, none) : Good(r, o, f, b)
<1>1. MemType(m) /\ o \subseteq Cells /\ f \subseteq Cells
  BY DEF Good
<1>2. Good(OutOfMemory(m), o, f, b) /\ (Room(m) => Good(OutOfMemory(none), o, f, b))
  BY <1>1, GoodWithout
<1>3. Room(m) => Good(Push(With(m, Block(k, "full")), l, NewCell(m)), o, f, b)
  BY Replied
<1> QED
  BY <1>2, <1>3 DEF Made

(* A packet without its data has its type.                                 *)
LEMMA Missing ==
  ASSUME NEW m, MemType(m), Room(m), NEW k \in Kinds, NEW d \in Datas, NEW l \in Lists
  PROVE  /\ MemType(With(m, Block(k, d)))
         /\ MemType(Push(With(m, Block(k, d)), l, NewCell(m)))
<1>1. MemType(With(m, Block(k, d)))
  BY WithType DEF Block, Blocks
<1> QED
  BY <1>1, NewCellFree, PushType

(* So do the ways the callbacks deal with data they did not get.           *)
LEMMA RepliesGood ==
  ASSUME NEW m, NEW o, NEW f, NEW b, Good(m, o, f, b), NEW k \in Kinds,
         NEW l \in Lists, l # "device2wifiAck"
  PROVE  /\ \A r \in CleanReply(m, l, k) : Good(r, o, f, b)
         /\ \A r \in LeakyReply(m, l, k) : Good(r, o, f, b)
         /\ \A r \in UncheckedReply(m, l, k) : Good(r, o, f, b)
         /\ \A r \in Bare(m, l, k) : Good(r, o, f, b)
<1>1. MemType(m) /\ o \subseteq Cells /\ f \subseteq Cells
  BY DEF Good
<1>2. Room(m) => /\ MemType(With(m, Block(k, "missing")))
                 /\ MemType(Push(With(m, Block(k, "missing")), l, NewCell(m)))
  BY <1>1, Missing DEF Datas
<1>3. \A r \in CleanReply(m, l, k) : Good(r, o, f, b)
  BY <1>1, MadeGood DEF CleanReply
<1>4. \A r \in LeakyReply(m, l, k) : Good(r, o, f, b)
  BY <1>1, <1>2, MadeGood DEF LeakyReply
<1>5. \A r \in UncheckedReply(m, l, k) : Good(r, o, f, b)
  BY <1>1, <1>2, MadeGood DEF UncheckedReply
<1>6. Good(OutOfMemory(m), o, f, b)
  BY <1>1, GoodWithout
<1>7. Room(m) => Good(Push(With(m, Block(k, "none")), l, NewCell(m)), o, f, b)
  BY Replied
<1>8. \A r \in Bare(m, l, k) : Good(r, o, f, b)
  BY <1>6, <1>7 DEF Bare
<1> QED
  BY <1>3, <1>4, <1>5, <1>8

(* A step that writes to what could not be allocated.                      *)
LEMMA NullGood ==
  ASSUME NEW m, NEW o, NEW f, NEW b, MemType(m), o \subseteq Cells, f \subseteq Cells, NEW g \in Faults
  PROVE  Good(Fault(OutOfMemory(m), g), o, f, b)
BY GoodWithout, OomType, Stopped

(* The lists and the kinds the callbacks name.                             *)
LEMMA Names ==
  /\ {"wifi2device", "wifi2cloud", "wifi2lan", "cloud2device", "device2cloud", "device2wifi",
      "cloud2wifi", "wifi2deviceAck", "device2wifiAck", "device2FirmwareOtaAck"} \subseteq Lists
  /\ {"reply", "version", "text", "status", "module", "device", "query", "answer", "firmware", "beat",
      "apply", "askTime", "ack"} \subseteq Kinds
BY DEF Lists, InLists, OutLists, Kinds

-----------------------------------------------------------------------------
(* The callbacks. *)

(* QueryDeviceVersionResponse keeps ownership.                             *)
LEMMA VersionGood ==
  ASSUME NEW m, NEW o, NEW f, NEW b, Good(m, o, f, b), NEW c
  PROVE  \A r \in QueryDeviceVersionResponse(m, c) : Good(r, o, f, b)
<1>1. MemType(m) /\ o \subseteq Cells /\ f \subseteq Cells
  BY DEF Good
<1>2. Good(Fault(OutOfMemory(m), "null"), o, f, b)
  BY <1>1, NullGood DEF Faults
<1>3. Room(m) => Good(PushOrFree(With(m, Block("version", "full")), "wifi2cloud", NewCell(m)), o, f, b)
  BY Names, Replied
<1>4. Room(m) => Good(OutOfMemory(With(m, Block("version", "missing"))), o, f, b)
  <2>1. Room(m) => MemType(With(m, Block("version", "missing")))
    BY <1>1, Names, Missing DEF Datas
  <2> QED
    BY <1>1, <2>1, GoodWithout
<1> QED
  BY <1>2, <1>3, <1>4 DEF QueryDeviceVersionResponse

(* The request that SettingUartBaud pushes is excused from then on.        *)
LEMMA BaudGood ==
  ASSUME NEW m, NEW o, NEW f, NEW b, Good(m, o, f, b), NEW c \in Cells
  PROVE  \A r \in SettingUartBaudRequest(m, c) : Good(r, o, f, TRUE)
<1>1. o \subseteq Cells /\ f \subseteq Cells
  BY DEF Good
<1>2. \A r \in SettingUartBaud(m) : MemType(r)
  BY Names, RepliesGood DEF SettingUartBaud, Good
<1>3. \A r \in SettingUartBaud(m) : MemType(Push(r, "wifi2device", c))
  BY <1>2, Names, PushType
<1>4. \A r \in SettingUartBaudRequest(m, c) : MemType(r)
  BY <1>2, <1>3 DEF SettingUartBaudRequest
<1> QED
  BY <1>1, <1>4 DEF Good

(* What the appliance sends is answered, and who owns what stays known     *)
(* unless a new speed is asked for.                                        *)
LEMMA AnswersGood ==
  ASSUME NEW m, NEW o, NEW f, NEW b, Good(m, o, f, b), NEW c \in Cells, NEW k,
         NEW x, b \/ k = "baud" => x
  PROVE  \A r \in Answers(k, m, c) : Good(r, o, f, x)
<1>1. \/ Answers(k, m, c) \in {CheckNetworkStatus(m), SyncSystemTime(m), GetWifiModuleProperty(m),
                             QueryDeviceVersionResponse(m, c), DeviceReboot(m), DeviceResetToFactory(m),
                             {m}, WifiPower(m), RenameWifiSSID(m), DeviceEasyLink(m)}
      \/ k = "baud" /\ Answers(k, m, c) = SettingUartBaudRequest(m, c)
  BY DEF Answers, Answered
<1>2. \A r \in CleanReply(m, "wifi2device", "reply") \cup LeakyReply(m, "wifi2device", "reply") :
        Good(r, o, f, b)
  BY Names, RepliesGood
<1>3. \A r \in QueryDeviceVersionResponse(m, c) : Good(r, o, f, b)
  BY VersionGood
<1>4. \A r \in SettingUartBaudRequest(m, c) : Good(r, o, f, TRUE)
  BY BaudGood
<1>5. \A r : Good(r, o, f, b) => Good(r, o, f, x)
  BY DEF Good
<1>6. k = "baud" => \A r : Good(r, o, f, TRUE) => Good(r, o, f, x)
  BY DEF Good
<1> QED
  BY <1>1, <1>2, <1>3, <1>4, <1>5, <1>6
     DEF CheckNetworkStatus, SyncSystemTime, GetWifiModuleProperty, DeviceReboot, DeviceResetToFactory,
         WifiPower, RenameWifiSSID, DeviceEasyLink

(* A new text takes the place of the one before.                           *)
LEMMA Described ==
  ASSUME NEW m, NEW o, NEW f, NEW b, Good(m, o, f, b)
  PROVE  \A r \in GetDeviceInfoResponse(m) : Good(r[1], o, r[2], b)
<1>1. MemType(m) /\ o \subseteq Cells
  BY DEF Good
<1>2. Good(Fault(OutOfMemory(m), "null"), o, {}, b)
  BY <1>1, NullGood DEF Faults
<1>3. ASSUME Room(m) PROVE Good(With(m, Block("text", "full")), o, {NewCell(m)}, b)
  <2> DEFINE x == Block("text", "full")
             c == NewCell(m)
             w == With(m, x)
  <2>1. x \in Blocks /\ x.data # "missing" /\ x.kind = "text"
    BY Names DEF Block, Blocks, Datas
  <2> HIDE DEF x
  <2>2. /\ Good(w, o \cup {c}, f, b) /\ w.heap[c] = x /\ c \in Cells /\ w.oom = m.oom
        /\ b \/ m.oom \/ c \notin o \cup f
    BY <1>3, <2>1, Allocated
  <2> HIDE DEF w, c
  <2>3. ASSUME b \/ m.oom PROVE Good(w, o, {c}, b)
    BY <1>1, <2>2, <2>3 DEF Good
  <2>4. ASSUME ~ (b \/ m.oom) PROVE Good(w, o, {c}, b)
    <3>1. Sound(w, o \cup {c}, f) /\ Kept(w, o \cup {c}, f) /\ c \notin o
      BY <2>2, <2>4 DEF Good
    <3>2. Sound(w, o, {c})
      BY <2>1, <2>2, <3>1 DEF Sound
    <3>3. Kept(w, o, {c})
      BY <3>1 DEF Kept, Sound
    <3> QED
      BY <1>1, <2>2, <3>2, <3>3 DEF Good
  <2> QED
    BY <2>3, <2>4 DEF w, c, x
<1> QED
  BY <1>2, <1>3 DEF GetDeviceInfoResponse

(* A text that is allocated and forgotten.                                 *)
LEMMA TextGood ==
  ASSUME NEW m, NEW o, NEW f, NEW b, Good(m, o, f, b), Room(m)
  PROVE  Good(With(m, Block("text", "full")), o, f, b)
<1> DEFINE x == Block("text", "full")
           c == NewCell(m)
           w == With(m, x)
<1>1. x \in Blocks /\ x.data # "missing" /\ x.kind = "text"
  BY Names DEF Block, Blocks, Datas
<1> HIDE DEF x
<1>2. Good(w, o \cup {c}, f, b) /\ w.heap[c] = x
  BY <1>1, Allocated
<1> HIDE DEF w, c
<1>3. Good(w, o, f, b)
  <2>1. \A d \in ((o \cup {c}) \cup f) \ (o \cup f) : w.heap[d].kind \in {"text", "ack"}
    BY <1>1, <1>2
  <2> QED
    BY <1>2, <2>1, Forgotten
<1> QED
  BY <1>3 DEF w, x

(* The answer whose length was never written.                              *)
LEMMA UnsizedGood ==
  ASSUME NEW m, NEW o, NEW f, NEW b, Good(m, o, f, b)
  PROVE  \A r \in UnsizedReply(m) : Good(r, o, f, b)
<1> DEFINE Unsized(r) == [r EXCEPT !.heap[NewCell(m)].data = "unsized"]
<1>1. \A r \in LeakyReply(m, "wifi2cloud", "answer") : Good(r, o, f, b)
  BY Names, RepliesGood
<1>2. ASSUME NEW r \in LeakyReply(m, "wifi2cloud", "answer"), r.heap # m.heap,
             r.heap[NewCell(m)].data # "missing"
      PROVE  NewCell(m) \in Cells /\ r.heap[NewCell(m)] = Block("answer", "full")
  <2>1. MemType(m)
    BY DEF Good
  <2>2. r = OutOfMemory(m) => r.heap = m.heap
    BY <2>1 DEF OutOfMemory, MemType, Memories
  <2>3. Room(m) /\ \/ r = Push(With(m, Block("answer", "full")), "wifi2cloud", NewCell(m))
                   \/ r = OutOfMemory(IF Room(m) THEN With(m, Block("answer", "missing")) ELSE m)
    BY <1>2, <2>2 DEF LeakyReply, Made
  <2>4. /\ NewCell(m) \in Cells /\ Block("answer", "full") \in Blocks
        /\ Block("answer", "missing") \in Blocks /\ Block("answer", "missing").data = "missing"
    BY <2>3, Names, NewCellFree DEF Block, Blocks, Datas
  <2>5. ASSUME NEW x \in Blocks PROVE MemType(With(m, x)) /\ With(m, x).heap[NewCell(m)] = x
    <3>1. With(m, x).heap = [m.heap EXCEPT ![NewCell(m)] = x] /\ MemType(With(m, x))
      BY <2>1, <2>3, WithType
    <3> QED
      BY <2>1, <2>4, <3>1, MemFields
  <2>6. \A x \in Blocks : OutOfMemory(With(m, x)).heap = With(m, x).heap
    BY <2>5 DEF OutOfMemory, MemType, Memories
  <2>7. r = Push(With(m, Block("answer", "full")), "wifi2cloud", NewCell(m))
    <3>1. OutOfMemory(With(m, Block("answer", "missing"))).heap[NewCell(m)] = Block("answer", "missing")
      BY <2>4, <2>5, <2>6
    <3>2. r # OutOfMemory(With(m, Block("answer", "missing")))
      BY <1>2, <2>4, <3>1
    <3> QED
      BY <2>3, <3>2
  <2>8. Push(With(m, Block("answer", "full")), "wifi2cloud", NewCell(m)).heap
          = With(m, Block("answer", "full")).heap
    <3>1. MemType(With(m, Block("answer", "full"))) /\ "wifi2cloud" \in Lists
      BY <2>4, <2>5, Names
    <3> HIDE DEF Unsized
    <3> QED
      BY <2>4, <3>1, PushType
  <2> QED
    BY <2>4, <2>5, <2>7, <2>8
<1>3. ASSUME NEW r, Good(r, o, f, b), NEW c \in Cells, r.heap[c] = Block("answer", "full")
      PROVE  Good([r EXCEPT !.heap[c].data = "unsized"], o, f, b)
  <2> DEFINE x == Block("answer", "unsized")
             w == [r EXCEPT !.heap[c].data = "unsized"]
  <2>1. x \in Blocks /\ x.data = "unsized" /\ x.kind = "answer" /\ x # FREE
    BY Names, MainLoopAssumption DEF Block, Blocks, Datas
  <2>2. [r.heap[c] EXCEPT !.data = "unsized"] = x
    BY <1>3 DEF Block
  <2>3. MemType(r)
    BY <1>3 DEF Good
  <2>4. w = [r EXCEPT !.heap = [r.heap EXCEPT ![c] = x]]
    BY <2>2, <2>3 DEF MemType, Memories
  <2>5. [r.heap EXCEPT ![c] = x] \in [Cells -> Blocks \cup {FREE}]
    BY <2>1, <2>3, MemFields
  <2>6. /\ MemType(w) /\ w.heap = [r.heap EXCEPT ![c] = x] /\ w.list = r.list /\ w.fault = r.fault
        /\ w.oom = r.oom /\ w.refused = r.refused
    BY <2>3, <2>4, <2>5 DEF MemType, Memories
  <2>7. w.heap[c] = x /\ \A d \in Cells : d # c => w.heap[d] = r.heap[d]
    BY <2>3, <2>6, MemFields
  <2>8. r.heap[c].kind = "answer" /\ r.heap[c] # FREE /\ r.heap[c].data = "full"
    <3>1. Block("answer", "full") \in Blocks
      BY Names DEF Block, Blocks, Datas
    <3> QED
      BY <1>3, <3>1, MainLoopAssumption DEF Block
  <2>9. \A l \in Lists : \A i \in DOMAIN r.list[l] : r.list[l][i] \in Cells
    BY <2>3, MemFields, LenProperties
  <2>10. o \subseteq Cells /\ f \subseteq Cells /\ "device2wifiAck" \in Lists
    BY <1>3, Names DEF Good
  <2> HIDE DEF w, x
  <2>11. ASSUME Sound(r, o, f) PROVE Sound(w, o, f)
    <3>1. \A d \in Cells : r.heap[d] # FREE =>
            w.heap[d] # FREE /\ (r.heap[d].kind \in {"text", "ack"} => w.heap[d] = r.heap[d])
      BY <2>1, <2>7, <2>8
    <3>2. \A d \in Cells : w.heap[d] # FREE => w.heap[d].data # "missing"
      BY <2>1, <2>7, <2>11 DEF Sound
    <3>3. \A d \in o \cup f : w.heap[d] # FREE
      BY <2>10, <2>11, <3>1 DEF Sound
    <3>4. \A d \in f : w.heap[d].kind = "text"
      BY <2>10, <2>11, <3>1 DEF Sound
    <3>5. \A l \in Lists : \A i \in DOMAIN w.list[l] :
            w.heap[w.list[l][i]] # FREE /\ w.list[l][i] \notin o \cup f
      BY <2>6, <2>9, <2>11, <3>1 DEF Sound
    <3>6. \A i \in DOMAIN w.list["device2wifiAck"] : w.heap[w.list["device2wifiAck"][i]].kind = "ack"
      BY <2>6, <2>9, <2>10, <2>11, <3>1 DEF Sound
    <3> QED
      BY <2>6, <2>11, <3>2, <3>3, <3>4, <3>5, <3>6 DEF Sound
  <2>12. ASSUME Kept(r, o, f) PROVE Kept(w, o, f)
    <3>1. \A d \in Cells :
            (r.heap[d] = FREE \/ d \in o \cup f \/ Listed(r, d) \/ r.heap[d].kind \in {"text", "ack"})
            => (w.heap[d] = FREE \/ d \in o \cup f \/ Listed(w, d) \/ w.heap[d].kind \in {"text", "ack"})
      BY <2>6, <2>7, <2>8 DEF Listed
    <3> QED
      BY <2>6, <2>12, <3>1 DEF Kept
  <2>13. Good(w, o, f, b)
    BY <1>3, <2>6, <2>10, <2>11, <2>12 DEF Good
  <2> QED
    BY <2>13 DEF w
<1> QED
  BY <1>1, <1>2, <1>3 DEF UnsizedReply

(* QueryDeviceFirmwareVersion keeps ownership.                             *)
LEMMA FirmwareGood ==
  ASSUME NEW m, NEW o, NEW f, NEW b, Good(m, o, f, b)
  PROVE  \A r \in QueryDeviceFirmwareVersion(m) : Good(r, o, f, b)
<1>1. MemType(m) /\ o \subseteq Cells /\ f \subseteq Cells
  BY DEF Good
<1>2. Good(Fault(OutOfMemory(m), "null"), o, f, b)
  BY <1>1, NullGood DEF Faults
<1>3. Room(m) => Good(PushOrFree(With(m, Block("firmware", "full")), "wifi2device", NewCell(m)), o, f, b)
  BY Names, Replied
<1>4. Room(m) => Good(OutOfMemory(With(m, Block("firmware", "missing"))), o, f, b)
  <2>1. Room(m) => MemType(With(m, Block("firmware", "missing")))
    BY <1>1, Names, Missing DEF Datas
  <2> QED
    BY <1>1, <2>1, GoodWithout
<1> QED
  BY <1>2, <1>3, <1>4 DEF QueryDeviceFirmwareVersion

(* What the cloud asks for is done, and who owns what stays known.         *)
LEMMA ObeysGood ==
  ASSUME NEW m, NEW o, NEW f, NEW b, Good(m, o, f, b), NEW k, b \/ m.oom \/ k # "freed"
  PROVE  \A r \in Obeys(k, m) : Good(r, o, f, b)
<1>1. MemType(m) /\ o \subseteq Cells /\ f \subseteq Cells
  BY DEF Good
<1>2. Good(OutOfMemory(m), o, f, b) /\ Good(Fault(OutOfMemory(m), "null"), o, f, b)
  BY <1>1, GoodWithout, NullGood DEF Faults
<1>3. \A r \in ReportStatus(m) \cup ReportModuleInfo(m) : Good(r, o, f, b)
  BY Names, RepliesGood DEF ReportStatus, ReportModuleInfo
<1>4. Room(m) => Good(With(m, Block("text", "full")), o, f, b)
  BY TextGood
<1>5. Room(m) => Good(Push(With(m, Block("beat", "none")), "wifi2lan", NewCell(m)), o, f, b)
  BY Names, Replied
<1>6. Good(Fault(m, "stack"), o, f, b) /\ (k = "freed" => Good(Fault(m, "freed"), o, f, b))
  BY Stopped DEF Faults
<1>7. \A r \in UnsizedReply(m) \cup QueryDeviceFirmwareVersion(m) : Good(r, o, f, b)
  BY UnsizedGood, FirmwareGood
<1>8. /\ \A r \in DeviceFirmwareVersionUpdate(m) : Good(r, o, f, b)
      /\ \A r \in ModifyCloudServiceAddr(m) : Good(r, o, f, b)
      /\ \A r \in HeartBeat(m) : Good(r, o, f, b)
      /\ \A r \in WifiModuleConfig(m) : Good(r, o, f, b)
  BY <1>2, <1>4, <1>5, <1>6
     DEF DeviceFirmwareVersionUpdate, ModifyCloudServiceAddr, HeartBeat, WifiModuleConfig
<1>9. \/ Obeys(k, m) \in {ReportStatus(m), ReportModuleInfo(m), QueryDeviceFirmwareVersion(m),
                          DeviceFirmwareVersionUpdate(m), ModifyCloudServiceAddr(m), HeartBeat(m),
                          WifiModuleConfig(m), UnsizedReply(m), {m}}
      \/ k = "freed" /\ Obeys(k, m) = {Fault(m, "freed")}
  BY DEF Obeys, Commands, WifiModuleReboot, WifiModuleResetToFactory
<1> QED
  BY <1>3, <1>6, <1>7, <1>8, <1>9

(* What mainLoop itself sends.                                             *)
LEMMA ReportGood ==
  ASSUME NEW m, NEW o, NEW f, NEW b, Good(m, o, f, b)
  PROVE  /\ \A k \in {"module", "status", "device", "query"} : \A r \in Report(k, m) : Good(r, o, f, b)
         /\ \A r \in RequestDeviceID(m) : Good(r, o, f, b)
         /\ \A r \in GetSystemTime(m) : Good(r, o, f, b)
<1>1. MemType(m) /\ o \subseteq Cells /\ f \subseteq Cells
  BY DEF Good
<1>2. \A r \in ReportStatus(m) \cup ReportModuleInfo(m) \cup ReportDeviceInfo(m) \cup QueryDeviceStatus(m) :
        Good(r, o, f, b)
  BY Names, RepliesGood DEF ReportStatus, ReportModuleInfo, ReportDeviceInfo, QueryDeviceStatus
<1>3. Good(OutOfMemory(m), o, f, b) /\ Good(Fault(OutOfMemory(m), "null"), o, f, b)
  BY <1>1, GoodWithout, NullGood DEF Faults
<1>4. Room(m) => Good(Push(With(m, Block("apply", "full")), "wifi2cloud", NewCell(m)), o, f, b)
  BY Names, Replied
<1>5. \A r \in RequestDeviceID(m) : Good(r, o, f, b)
  BY <1>3, <1>4 DEF RequestDeviceID
<1>6. \A r \in GetSystemTime(m) : Good(r, o, f, b)
  BY Names, RepliesGood DEF GetSystemTime
<1>7. \A k \in {"module", "status", "device", "query"} : \A r \in Report(k, m) : Good(r, o, f, b)
  BY <1>2 DEF Report
<1> QED
  BY <1>5, <1>6, <1>7

-----------------------------------------------------------------------------
(* The threads that receive and send, and the event queue. *)

(* An owned packet is handed to a list, or freed.                          *)
LEMMA StoredOrFreed ==
  ASSUME NEW m, NEW o, NEW f, NEW b, NEW c \in Cells, Good(m, o \cup {c}, f, b),
         b \/ m.oom \/ c \notin o, NEW l \in Lists, l # "device2wifiAck"
  PROVE  Good(PushOrFree(m, l, c), o, f, b)
BY Stored, Freed DEF PushOrFree

(* A received packet is handed to the list of its kind, or freed.          *)
LEMMA RoutedGood ==
  ASSUME NEW m, NEW o, NEW f, NEW b, NEW c \in Cells, Good(m, o \cup {c}, f, b),
         b \/ m.oom \/ c \notin o, NEW k
  PROVE  Good(Routed(m, k, c), o, f, b)
<1>1. \/ Routed(m, k, c) = PushOrFree(m, "device2cloud", c)
      \/ Routed(m, k, c) = PushOrFree(m, "device2FirmwareOtaAck", c)
      \/ Routed(m, k, c) = Push(m, "device2wifi", c)
  BY Zenon DEF Routed
<1>2. /\ Good(PushOrFree(m, "device2cloud", c), o, f, b)
      /\ Good(PushOrFree(m, "device2FirmwareOtaAck", c), o, f, b)
  BY Names, StoredOrFreed
<1>3. Good(Push(m, "device2wifi", c), o, f, b)
  BY Names, Stored
<1> QED
  BY <1>1, <1>2, <1>3

(* An acknowledgement to the appliance.                                    *)
LEMMA AckGood ==
  ASSUME NEW m, NEW o, NEW f, NEW b, Good(m, o, f, b)
  PROVE  \A a \in MakeUart2WifiResponsePacket(m) :
           Good(a, o, f, b) /\ (a.fault = "none" => a.oom \/ a.oom = m.oom)
<1>1. MemType(m) /\ o \subseteq Cells /\ f \subseteq Cells
  BY DEF Good
<1>2. Good(Fault(OutOfMemory(m), "null"), o, f, b) /\ Fault(OutOfMemory(m), "null").oom
  BY <1>1, NullGood, OomType, FaultType DEF Faults
<1>3. ASSUME Room(m)
      PROVE  /\ Good(Push(With(m, Block("ack", "none")), "wifi2deviceAck", NewCell(m)), o, f, b)
             /\ Push(With(m, Block("ack", "none")), "wifi2deviceAck", NewCell(m)).oom = m.oom
  <2>1. Good(Push(With(m, Block("ack", "none")), "wifi2deviceAck", NewCell(m)), o, f, b)
    BY <1>3, Names, Replied
  <2>2. MemType(With(m, Block("ack", "none"))) /\ With(m, Block("ack", "none")).oom = m.oom
    <3>1. Block("ack", "none") \in Blocks
      BY Names DEF Block, Blocks, Datas
    <3> QED
      BY <1>1, <1>3, <3>1, WithType
  <2>3. NewCell(m) \in Cells /\ "wifi2deviceAck" \in Lists
    BY <1>3, Names, NewCellFree
  <2>4. Push(With(m, Block("ack", "none")), "wifi2deviceAck", NewCell(m)).oom
          = With(m, Block("ack", "none")).oom
    BY <2>2, <2>3, PushType
  <2> QED
    BY <2>1, <2>2, <2>4
<1> QED
  BY <1>2, <1>3 DEF MakeUart2WifiResponsePacket

(* The receive thread owns the packet it has just allocated.               *)
LEMMA ReceivedGood ==
  ASSUME NEW m, NEW o, NEW f, NEW b, Good(m, o, f, b), NEW k \in Kinds, NEW d \in {"none", "full"},
         NEW r \in Received(m, k, d)
  PROVE  \/ r[2] = NULL /\ Good(r[1], o, f, b)
         \/ /\ r[2] \in Cells /\ r[2] # NULL /\ Good(r[1], o \cup {r[2]}, f, b)
            /\ r[1].heap[r[2]].kind = k
            /\ b \/ r[1].oom \/ r[2] \notin o
<1>1. MemType(m) /\ o \subseteq Cells /\ f \subseteq Cells
  BY DEF Good
<1>2. CASE r = <<OutOfMemory(m), NULL>> \/ r = <<Fault(OutOfMemory(m), "freed"), NULL>>
  <2>1. Good(OutOfMemory(m), o, f, b) /\ Good(Fault(OutOfMemory(m), "freed"), o, f, b)
    BY <1>1, GoodWithout, NullGood DEF Faults
  <2> QED
    BY <1>2, <2>1
<1>3. CASE Room(m) /\ r = <<With(m, Block(k, d)), NewCell(m)>>
  <2> DEFINE x == Block(k, d)
  <2>1. x \in Blocks /\ x.data # "missing" /\ x.kind = k
    BY DEF Block, Blocks, Datas
  <2>2. r[1] = With(m, x) /\ r[2] = NewCell(m)
    BY <1>3
  <2> HIDE DEF x
  <2>3. /\ Good(With(m, x), o \cup {NewCell(m)}, f, b)
        /\ With(m, x).heap[NewCell(m)] = x /\ NewCell(m) \in Cells /\ With(m, x).oom = m.oom
        /\ b \/ m.oom \/ NewCell(m) \notin o \cup f
    <3>1. Room(m)
      BY <1>3
    <3> QED
      BY <2>1, <3>1, Allocated
  <2>4. NewCell(m) # NULL
    BY <2>3, MainLoopAssumption
  <2> QED
    BY <2>1, <2>2, <2>3, <2>4
<1> QED
  BY <1>2, <1>3 DEF Received

(* A frame of the appliance.                                               *)
LEMMA UartReceiveGood ==
  ASSUME NEW k \in Frames, NEW d \in {"none", "full"}, NEW route \in {"plain", "ack", "qos"},
         UartReceive(k, d, route), NEW o, NEW f, NEW b, Good(mem, o, f, b)
  PROVE  Good(mem', o, f, b)
<1> DEFINE kk == IF route = "ack" THEN "ack" ELSE k
<1>1. kk \in Kinds
  BY Names DEF Kinds
<1>2. PICK r \in Received(mem, kk, d) :
        IF r[2] = NULL THEN mem' = r[1]
        ELSE CASE route = "ack" -> mem' = Push(r[1], "device2wifiAck", r[2])
               [] route = "qos" -> \E a \in MakeUart2WifiResponsePacket(r[1]) :
                                     mem' = IF a.fault = "none" THEN Routed(a, k, r[2]) ELSE a
               [] OTHER -> mem' = Routed(r[1], k, r[2])
  BY Zenon DEF UartReceive
<1> HIDE DEF kk
<1>3. \/ r[2] = NULL /\ Good(r[1], o, f, b)
      \/ /\ r[2] \in Cells /\ r[2] # NULL /\ Good(r[1], o \cup {r[2]}, f, b)
         /\ r[1].heap[r[2]].kind = kk
         /\ b \/ r[1].oom \/ r[2] \notin o
  BY <1>1, ReceivedGood
<1>4. CASE r[2] = NULL
  BY <1>2, <1>3, <1>4
<1>5. CASE r[2] # NULL
  <2>1. \/ route = "ack" /\ mem' = Push(r[1], "device2wifiAck", r[2])
        \/ \E a \in MakeUart2WifiResponsePacket(r[1]) :
              mem' = IF a.fault = "none" THEN Routed(a, k, r[2]) ELSE a
        \/ mem' = Routed(r[1], k, r[2])
    BY <1>2, <1>5, Zenon
  <2>2. CASE route = "ack" /\ mem' = Push(r[1], "device2wifiAck", r[2])
    BY <1>3, <1>5, <2>2, Names, Stored DEF kk
  <2>3. ASSUME NEW a \in MakeUart2WifiResponsePacket(r[1]),
               mem' = IF a.fault = "none" THEN Routed(a, k, r[2]) ELSE a
        PROVE  Good(mem', o, f, b)
    <3>1. Good(a, o \cup {r[2]}, f, b) /\ (a.fault = "none" => a.oom \/ a.oom = r[1].oom)
      BY <1>3, <1>5, AckGood
    <3>2. CASE a.fault = "none"
      BY <1>3, <1>5, <2>3, <3>1, <3>2, RoutedGood
    <3>3. CASE a.fault # "none"
      <4>1. Sound(a, o \cup {r[2]}, f) => Sound(a, o, f)
        BY DEF Sound
      <4>2. Kept(a, o, f)
        BY <3>3 DEF Kept
      <4> QED
        BY <2>3, <3>1, <3>3, <4>1, <4>2 DEF Good
    <3> QED
      BY <3>2, <3>3
  <2>4. CASE mem' = Routed(r[1], k, r[2])
    BY <1>3, <1>5, <2>4, RoutedGood
  <2> QED
    BY <2>1, <2>2, <2>3, <2>4
<1> QED
  BY <1>4, <1>5

(* A message of the cloud.                                                 *)
LEMMA MessageGood ==
  ASSUME NEW k \in Messages, EJ_messageArrived(k), NEW o, NEW f, NEW b, Good(mem, o, f, b)
  PROVE  Good(mem', o, f, b)
<1> DEFINE l == IF k = "toDevice" THEN "cloud2device" ELSE "cloud2wifi"
<1>1. l \in Lists /\ l # "device2wifiAck" /\ k \in Kinds
  BY Names DEF Kinds
<1>2. \/ mem' = OutOfMemory(mem)
      \/ Room(mem) /\ mem' = PushOrFree(With(mem, Block(k, "full")), l, NewCell(mem))
      \/ Room(mem) /\ mem' = OutOfMemory(With(mem, Block(k, "missing")))
  BY DEF EJ_messageArrived
<1> HIDE DEF l
<1>3. MemType(mem) /\ o \subseteq Cells /\ f \subseteq Cells
  BY DEF Good
<1>4. Good(OutOfMemory(mem), o, f, b)
  BY <1>3, GoodWithout
<1>5. Room(mem) => Good(PushOrFree(With(mem, Block(k, "full")), l, NewCell(mem)), o, f, b)
  BY <1>1, Replied
<1>6. Room(mem) => Good(OutOfMemory(With(mem, Block(k, "missing"))), o, f, b)
  <2>1. Room(mem) => MemType(With(mem, Block(k, "missing")))
    BY <1>1, <1>3, Missing DEF Datas
  <2> QED
    BY <1>3, <2>1, GoodWithout
<1> QED
  BY <1>2, <1>4, <1>5, <1>6

(* A packet that is sent is freed, or the module has stopped; only an      *)
(* acknowledgement nobody waits for is taken and forgotten.                *)
LEMMA SendGood ==
  ASSUME NEW l \in Lists, SendThread(l), NEW o, NEW f, NEW b, Good(mem, o, f, b)
  PROVE  Good(mem', o, f, b)
<1> DEFINE c == Head(mem.list[l])
           t == Drop(mem, l)
<1>1. mem.list[l] # << >>
  BY DEF SendThread
<1>2. /\ Good(t, o \cup {c}, f, b) /\ c \in Cells
      /\ b \/ mem.oom \/ /\ c \notin o \cup f /\ mem.heap[c] # FREE /\ mem.heap[c].data # "missing"
                         /\ l = "device2wifiAck" => mem.heap[c].kind = "ack"
  BY <1>1, Dropped
<1>3. MemType(mem) /\ MemType(t) /\ o \subseteq Cells /\ f \subseteq Cells
  BY <1>2 DEF Good
<1>4. t.oom = mem.oom /\ t.heap = mem.heap
  BY <1>1, <1>3, DropType
<1>5. \/ mem' = Sent(mem, l) \/ mem' = Fault(mem, "unsized")
      \/ l = "device2wifiAck" /\ mem' = t
      \/ mem' = OutOfMemory(t) \/ mem' = Fault(OutOfMemory(mem), "null")
  BY DEF SendThread
<1> HIDE DEF t, c
<1>6. Good(Free(t, c), o, f, b)
  BY <1>2, <1>4, Freed
<1>7. CASE mem' = Sent(mem, l)
  <2>1. \/ mem' = Free(t, c)
        \/ mem.heap[c] # FREE /\ mem.heap[c].data = "missing" /\ mem' = Fault(t, "null")
    BY <1>7 DEF Sent, t, c
  <2>2. CASE b \/ mem.oom
    <3>1. MemType(Fault(t, "null")) /\ Fault(t, "null").oom = t.oom
      BY <1>3, FaultType DEF Faults
    <3> QED
      BY <1>3, <1>4, <1>6, <2>1, <2>2, <3>1 DEF Good
  <2>3. CASE ~ (b \/ mem.oom)
    BY <1>2, <1>6, <2>1, <2>3
  <2> QED
    BY <2>2, <2>3
<1>8. Good(Fault(mem, "unsized"), o, f, b)
  BY Stopped DEF Faults
<1>9. l = "device2wifiAck" => Good(t, o, f, b)
  <2>1. l = "device2wifiAck" =>
          b \/ t.oom \/ \A d \in ((o \cup {c}) \cup f) \ (o \cup f) : t.heap[d].kind \in {"text", "ack"}
    BY <1>2, <1>4
  <2> QED
    BY <1>2, <2>1, Forgotten
<1>10. Good(OutOfMemory(t), o, f, b) /\ Good(Fault(OutOfMemory(mem), "null"), o, f, b)
  BY <1>3, GoodWithout, NullGood DEF Faults
<1> QED
  BY <1>5, <1>7, <1>8, <1>9, <1>10

(* An event that is put, or refused, leaves the memory as it is.           *)
LEMMA TellGood ==
  ASSUME NEW m, NEW o, NEW f, NEW b, Good(m, o, f, b), NEW q, NEW e
  PROVE  Good(Tell(m, q, e), o, f, b)
<1> DEFINE w == [m EXCEPT !.refused = m.refused \cup {"events"}]
<1>1. /\ MemType(w) /\ w.heap = m.heap /\ w.list = m.list /\ w.fault = m.fault /\ w.oom = m.oom
      /\ m.refused \subseteq w.refused
  BY DEF Good, MemType, Memories
<1> HIDE DEF w
<1>2. Sound(m, o, f) => Sound(w, o, f)
  BY <1>1 DEF Sound
<1>3. Kept(m, o, f) => Kept(w, o, f)
  BY <1>1 DEF Kept, Listed
<1>4. Good(w, o, f, b)
  BY <1>1, <1>2, <1>3 DEF Good
<1> QED
  BY <1>4 DEF Tell, w

-----------------------------------------------------------------------------
(* The inductive invariant. *)

EventNames == {"router", "lost", "reApply", "timeSync", "authFailed", "reboot", "reset", "easylink",
               "softAP", "airkiss"}

(* mainLoop holds a packet from its callback to its free.                  *)
Holding == pc \in {"freeDevice", "report", "freeCloud"}
Heap == /\ Good(mem, {held} \ {NULL}, info, "baud" \in history)
        /\ held \in Cells \cup {NULL} /\ (Holding <=> held # NULL)

Queue == events \in Seq(EventNames) /\ Len(events) <= QueueCap
Steps == /\ todo \in Seq({"module", "status", "device", "query"}) /\ Len(todo) <= 4
         /\ pc = "report" => todo # << >>
Scalars ==
  /\ pc \in {"event", "device", "freeDevice", "cloud", "report", "freeCloud", "restart", "down"}
  /\ {session, hasId, udp} \subseteq BOOLEAN /\ inputs \in 0 .. Inputs
  /\ history \subseteq {"baud", "restart", "option"}

(* The service runs on two sockets, or none is open.                       *)
Opened ==
  /\ sock.open \subseteq 1..Sockets
  /\ sock \in [rx : 1..Sockets \cup {NULL}, tx : 1..Sockets \cup {NULL}, open : SUBSET (1..Sockets)]
  /\ \/ "option" \in history
     \/ udp /\ {sock.rx, sock.tx} \subseteq 1..Sockets /\ sock.open = {sock.rx, sock.tx}
     \/ ~ udp /\ sock.rx = NULL /\ sock.tx = NULL /\ sock.open = {}

IInv == Heap /\ Queue /\ Steps /\ Scalars /\ Opened

-----------------------------------------------------------------------------
(* One step after the other: the memory. *)

(* The packet of the appliance: its callback, and the free after it.       *)
LEMMA DeviceHeap ==
  ASSUME Heap, DeviceStep \/ FreeDevice
  PROVE  Heap'
<1> DEFINE b == "baud" \in history
           x == "baud" \in history'
<1>b. Good(mem, {held} \ {NULL}, info, b)
  BY DEF Heap
<1>u. UNCHANGED history => b = x
  OBVIOUS
<1>x. Good(mem', {held'} \ {NULL}, info', x) = Good(mem', {held'} \ {NULL}, info', "baud" \in history')
  OBVIOUS
<1> HIDE DEF b, x
<1>1. CASE DeviceStep
  <2> DEFINE c == Head(mem.list["device2wifi"])
             m == Drop(mem, "device2wifi")
  <2>1. pc = "device" /\ {held} \ {NULL} = {} /\ held = NULL
    BY <1>1 DEF DeviceStep, Heap, Holding
  <2>2. Good(mem, {}, info, b)
    BY <1>b, <2>1
  <2>3. CASE mem.list["device2wifi"] = << >>
    BY <1>1, <2>1, <2>3 DEF DeviceStep, Heap, Holding
  <2>4. CASE mem.list["device2wifi"] # << >>
    <3>1. /\ Good(m, {} \cup {c}, info, b) /\ c \in Cells
          /\ b \/ mem.oom \/ mem.heap[c] # FREE
      BY <2>2, <2>4, Names, Dropped
    <3>2. {} \cup {c} = {c} /\ c # NULL
      BY <3>1, MainLoopAssumption
    <3>3. MemType(mem) /\ MemType(m)
      BY <2>2, <3>1 DEF Good
    <3>4. m.oom = mem.oom /\ m.heap = mem.heap
      BY <2>4, <3>3, Names, DropType
    <3>5. /\ held' = c /\ pc' = "freeDevice"
          /\ \/ m.heap[c] = FREE /\ mem' = Fault(m, "freed") /\ UNCHANGED <<info, history>>
             \/ /\ \E r \in GetDeviceInfoResponse(m) : mem' = r[1] /\ info' = r[2]
                /\ UNCHANGED history
             \/ \E r \in Answers(m.heap[c].kind, m, c), e \in EventsOf(m.heap[c].kind, m.heap[c].data) :
                  /\ mem' = IF e = "none" THEN r ELSE Tell(r, events, e)
                  /\ history' = history \cup (IF e = "none" THEN {} ELSE {"restart"})
                                        \cup (IF m.heap[c].kind = "baud" THEN {"baud"} ELSE {})
                  /\ UNCHANGED info
      BY <1>1, <2>4 DEF DeviceStep
    <3> HIDE DEF m, c
    <3>6. ASSUME Good(mem', {c}, info', x) PROVE Heap'
      <4>1. {held'} \ {NULL} = {c}
        BY <3>2, <3>5
      <4> QED
        BY <1>x, <3>1, <3>2, <3>5, <3>6, <4>1 DEF Heap, Holding
    <3>7. CASE m.heap[c] = FREE /\ mem' = Fault(m, "freed") /\ UNCHANGED <<info, history>>
      <4>1. b \/ m.oom
        BY <3>1, <3>4, <3>7
      <4>2. Good(Fault(m, "freed"), {c}, info, b)
        BY <3>1, <3>2, <4>1, Stopped DEF Faults
      <4> QED
        BY <1>u, <3>6, <3>7, <4>2
    <3>8. ASSUME NEW r \in GetDeviceInfoResponse(m), mem' = r[1] /\ info' = r[2], UNCHANGED history
          PROVE  Heap'
      <4>1. Good(r[1], {c}, r[2], b)
        BY <3>1, <3>2, Described
      <4> QED
        BY <1>u, <3>6, <3>8, <4>1
    <3>9. ASSUME NEW k, NEW r \in Answers(k, m, c), NEW e,
                 /\ mem' = IF e = "none" THEN r ELSE Tell(r, events, e)
                 /\ history' = history \cup (IF e = "none" THEN {} ELSE {"restart"})
                                       \cup (IF k = "baud" THEN {"baud"} ELSE {})
                 /\ UNCHANGED info
          PROVE  Heap'
      <4>1. b \/ k = "baud" => x
        BY <3>9 DEF b, x
      <4>2. Good(r, {c}, info, x)
        BY <3>1, <3>2, <4>1, AnswersGood
      <4>3. Good(Tell(r, events, e), {c}, info, x)
        BY <4>2, TellGood
      <4> QED
        BY <3>6, <3>9, <4>2, <4>3
    <3> QED
      BY <3>5, <3>7, <3>8, <3>9
  <2> QED
    BY <2>3, <2>4
<1>2. CASE FreeDevice
  <2>1. /\ held \in Cells /\ {held} \ {NULL} = {} \cup {held}
        /\ mem' = Free(mem, held) /\ held' = NULL /\ pc' = "cloud" /\ UNCHANGED <<info, history>>
    BY <1>2 DEF FreeDevice, Heap, Holding
  <2>2. Good(mem, {} \cup {held}, info, b)
    BY <1>b, <2>1
  <2>3. Good(Free(mem, held), {}, info, b)
    BY <2>1, <2>2, Freed
  <2> QED
    BY <1>u, <1>x, <2>1, <2>3 DEF Heap, Holding
<1> QED
  BY <1>1, <1>2

(* The message of the cloud, the reports after it, and the free.           *)
LEMMA CloudHeap ==
  ASSUME Heap, Steps, CloudStep \/ ReportStep \/ FreeCloud
  PROVE  Heap'
<1> DEFINE b == "baud" \in history
<1>b. Good(mem, {held} \ {NULL}, info, b)
  BY DEF Heap
<1>x. UNCHANGED history /\ Good(mem', {held'} \ {NULL}, info', b)
        => Good(mem', {held'} \ {NULL}, info', "baud" \in history')
  OBVIOUS
<1> HIDE DEF b
<1>1. CASE CloudStep
  <2> DEFINE c == Head(mem.list["cloud2wifi"])
             m == Drop(mem, "cloud2wifi")
             k == IF m.heap[c] = FREE THEN "freed" ELSE m.heap[c].kind
  <2>1. pc = "cloud" /\ {held} \ {NULL} = {} /\ held = NULL /\ UNCHANGED <<info, history>>
    BY <1>1 DEF CloudStep, Heap, Holding
  <2>2. Good(mem, {}, info, b)
    BY <1>b, <2>1
  <2>3. CASE mem.list["cloud2wifi"] = << >>
    BY <1>1, <2>1, <2>3 DEF CloudStep, Heap, Holding
  <2>4. CASE mem.list["cloud2wifi"] # << >>
    <3>1. /\ Good(m, {} \cup {c}, info, b) /\ c \in Cells
          /\ b \/ mem.oom \/ mem.heap[c] # FREE
      BY <2>2, <2>4, Names, Dropped
    <3>2. {} \cup {c} = {c} /\ c # NULL
      BY <3>1, MainLoopAssumption
    <3>3. MemType(mem) /\ MemType(m)
      BY <2>2, <3>1 DEF Good
    <3>4. m.oom = mem.oom /\ m.heap = mem.heap
      BY <2>4, <3>3, Names, DropType
    <3>5. held' = c /\ pc' \in {"report", "freeCloud"} /\ mem' \in Obeys(k, m)
      BY <1>1, <2>4 DEF CloudStep
    <3>6. b \/ m.oom \/ k # "freed"
      <4>1. m.heap[c] \in Blocks \cup {FREE}
        BY <3>1, <3>3, MemFields
      <4> HIDE DEF m, c
      <4>2. m.heap[c] # FREE => k # "freed"
        BY <4>1, MainLoopAssumption DEF Blocks
      <4> QED
        BY <3>1, <3>4, <4>2
    <3> HIDE DEF m, c, k
    <3>7. Good(mem', {c}, info, b)
      BY <3>1, <3>2, <3>5, <3>6, ObeysGood
    <3> QED
      BY <1>x, <2>1, <3>1, <3>2, <3>5, <3>7 DEF Heap, Holding
  <2> QED
    BY <2>3, <2>4
<1>2. CASE ReportStep
  <2>1. /\ pc = "report" /\ todo # << >> /\ mem' \in Report(Head(todo), mem)
        /\ pc' \in {"report", "freeCloud"} /\ UNCHANGED <<held, info, history>>
    BY <1>2 DEF ReportStep, Steps
  <2>2. Head(todo) \in {"module", "status", "device", "query"}
    BY <2>1, HeadTailProperties DEF Steps
  <2>3. Good(mem', {held} \ {NULL}, info, b)
    BY <1>b, <2>1, <2>2, ReportGood
  <2> QED
    BY <1>x, <2>1, <2>3 DEF Heap, Holding
<1>3. CASE FreeCloud
  <2>1. /\ held \in Cells /\ {held} \ {NULL} = {} \cup {held}
        /\ mem' = Free(mem, held) /\ held' = NULL /\ pc' = "event" /\ UNCHANGED <<info, history>>
    BY <1>3 DEF FreeCloud, Heap, Holding
  <2>2. Good(mem, {} \cup {held}, info, b)
    BY <1>b, <2>1
  <2>3. Good(Free(mem, held), {}, info, b)
    BY <2>1, <2>2, Freed
  <2> QED
    BY <1>x, <2>1, <2>3 DEF Heap, Holding
<1> QED
  BY <1>1, <1>2, <1>3

(* Every other step leaves the packet mainLoop holds alone.                *)
LEMMA OtherHeap ==
  ASSUME Heap, NEW m, mem' = m, Good(mem, {held} \ {NULL}, info, "baud" \in history)
                               => Good(m, {held} \ {NULL}, info, "baud" \in history),
         UNCHANGED <<held, info>>, "baud" \in history' <=> "baud" \in history, Holding' <=> Holding
  PROVE  Heap'
<1>1. ("baud" \in history') = ("baud" \in history)
  OBVIOUS
<1> QED
  BY <1>1 DEF Heap

(* Every step keeps the heap and the lists consistent.                     *)
LEMMA HeapNext == Heap /\ Steps /\ [Next]_vars => Heap'
<1> SUFFICES ASSUME Heap, Steps, [Next]_vars PROVE Heap'
  OBVIOUS
<1> DEFINE b == "baud" \in history
<1>b. Good(mem, {held} \ {NULL}, info, b)
  BY DEF Heap
<1>1. ASSUME NEW k \in Frames, NEW d \in {"none", "full"}, NEW r \in {"plain", "ack", "qos"},
             UartReceive(k, d, r)
      PROVE  Heap'
  <2>1. Good(mem', {held} \ {NULL}, info, b)
    BY <1>b, <1>1, UartReceiveGood
  <2>2. UNCHANGED <<held, info, history, pc>>
    BY <1>1 DEF UartReceive
  <2> QED
    BY <2>1, <2>2, OtherHeap DEF Holding
<1>2. ASSUME NEW k \in Messages, EJ_messageArrived(k) PROVE Heap'
  <2>1. Good(mem', {held} \ {NULL}, info, b)
    BY <1>b, <1>2, MessageGood
  <2>2. UNCHANGED <<held, info, history, pc>>
    BY <1>2 DEF EJ_messageArrived
  <2> QED
    BY <2>1, <2>2, OtherHeap DEF Holding
<1>3. ASSUME NEW l \in Lists, SendThread(l) PROVE Heap'
  <2>1. Good(mem', {held} \ {NULL}, info, b)
    BY <1>b, <1>3, SendGood
  <2>2. UNCHANGED <<held, info, history, pc>>
    BY <1>3 DEF SendThread
  <2> QED
    BY <2>1, <2>2, OtherHeap DEF Holding
<1>4. ASSUME NEW e, EJ_PutEventSem(e) PROVE Heap'
  <2>1. Good(mem', {held} \ {NULL}, info, b)
    BY <1>b, <1>4, TellGood DEF EJ_PutEventSem
  <2>2. UNCHANGED <<held, info, history, pc>>
    BY <1>4 DEF EJ_PutEventSem
  <2> QED
    BY <2>1, <2>2, OtherHeap DEF Holding
<1>5. CASE NoEvent \/ EJ_App_reboot
  <2>1. UNCHANGED <<mem, held, info, history>> /\ ~ Holding /\ ~ Holding'
    BY <1>5 DEF NoEvent, EJ_App_reboot, Holding
  <2> QED
    BY <2>1, OtherHeap
<1>6. CASE TakeEvent
  <2>1. /\ UNCHANGED <<held, info>> /\ ~ Holding /\ ~ Holding' /\ (b <=> "baud" \in history')
        /\ \/ mem' = mem \/ mem' \in RequestDeviceID(mem) \/ mem' \in GetSystemTime(mem)
           \/ \E q : mem' = Tell(mem, q, "router")
    <3>1. CASE Head(events) = "router" /\ RouterConnectedProcess
      BY <1>6, <3>1 DEF TakeEvent, RouterConnectedProcess, Holding
    <3>2. CASE RestartProcess(Head(events))
      BY <1>6, <3>2 DEF TakeEvent, RestartProcess, Holding
    <3>3. CASE ~ (Head(events) = "router" /\ RouterConnectedProcess) /\ ~ RestartProcess(Head(events))
      BY <1>6, <3>3 DEF TakeEvent, Holding
    <3> QED
      BY <3>1, <3>2, <3>3
  <2> HIDE DEF b
  <2>2. Good(mem', {held} \ {NULL}, info, b)
    BY <1>b, <2>1, ReportGood, TellGood
  <2> QED
    BY <2>1, <2>2, OtherHeap DEF b
<1>7. CASE UNCHANGED vars
  BY <1>7, OtherHeap DEF vars, Holding
<1>8. \/ \E k \in Frames, d \in {"none", "full"}, r \in {"plain", "ack", "qos"} : UartReceive(k, d, r)
      \/ \E k \in Messages : EJ_messageArrived(k)
      \/ \E l \in Lists : SendThread(l)
      \/ \E e : EJ_PutEventSem(e)
      \/ NoEvent \/ TakeEvent \/ EJ_App_reboot \/ DeviceStep \/ FreeDevice
      \/ CloudStep \/ ReportStep \/ FreeCloud \/ UNCHANGED vars
  BY Names, Zenon DEF Next, UartSendThread, MQTTSendThread, EJ_Event_Process
<1> QED
  BY <1>1, <1>2, <1>3, <1>4, <1>5, <1>6, <1>7, <1>8, DeviceHeap, CloudHeap

-----------------------------------------------------------------------------
(* The event queue, the reports and the other variables. *)

(* The event queue keeps within its capacity.                              *)
LEMMA PutValue ==
  ASSUME NEW q \in Seq(EventNames), Len(q) <= QueueCap, NEW e \in EventNames
  PROVE  Put(q, e) \in Seq(EventNames) /\ Len(Put(q, e)) <= QueueCap
<1>1. QueueCap \in Nat /\ Len(q) \in Nat
  BY MainLoopAssumption, LenProperties
<1> QED
  BY <1>1, AppendProperties DEF Put

(* A packet asks for an event that exists, or for none.                    *)
LEMMA EventsOfNames ==
  ASSUME NEW k, NEW d
  PROVE  EventsOf(k, d) \subseteq EventNames \cup {"none"}
<1>1. \/ EventsOf(k, d) = {"reboot"} \/ EventsOf(k, d) = {"reset"}
      \/ EventsOf(k, d) = {"easylink", "softAP", "airkiss", "none"} \/ EventsOf(k, d) = {"none"}
  BY Zenon DEF EventsOf
<1> QED
  BY <1>1 DEF EventNames

(* No step puts too much into the event queue.                             *)
LEMMA QueueNext == Queue /\ [Next]_vars => Queue'
<1> SUFFICES ASSUME Queue, [Next]_vars PROVE Queue'
  OBVIOUS
<1>1. ASSUME events # << >>
      PROVE  /\ Tail(events) \in Seq(EventNames) /\ Len(Tail(events)) <= QueueCap
             /\ Append(Tail(events), "router") \in Seq(EventNames)
             /\ Len(Append(Tail(events), "router")) <= QueueCap
             /\ Put(Tail(events), "router") \in Seq(EventNames)
             /\ Len(Put(Tail(events), "router")) <= QueueCap
             /\ Put(Append(Tail(events), "router"), "router") \in Seq(EventNames)
             /\ Len(Put(Append(Tail(events), "router"), "router")) <= QueueCap
  <2>1. Len(events) \in Nat /\ Len(events) > 0 /\ QueueCap \in Nat
    BY <1>1, EmptySeq, LenProperties, MainLoopAssumption DEF Queue
  <2>2. Tail(events) \in Seq(EventNames) /\ Len(Tail(events)) = Len(events) - 1
    BY <1>1, <2>1, HeadTailProperties DEF Queue
  <2>3. "router" \in EventNames
    BY DEF EventNames
  <2>4. /\ Append(Tail(events), "router") \in Seq(EventNames)
        /\ Len(Append(Tail(events), "router")) = Len(Tail(events)) + 1
    BY <2>2, <2>3, AppendProperties
  <2>5. Len(Append(Tail(events), "router")) <= QueueCap /\ Len(Tail(events)) <= QueueCap
    BY <2>1, <2>2, <2>4 DEF Queue
  <2> QED
    BY <2>2, <2>3, <2>4, <2>5, PutValue
<1>2. \A e \in EventNames : Put(events, e) \in Seq(EventNames) /\ Len(Put(events, e)) <= QueueCap
  BY PutValue DEF Queue
<1>3. ASSUME NEW e \in {"router", "lost", "reApply", "timeSync", "authFailed"}, EJ_PutEventSem(e)
      PROVE  Queue'
  BY <1>2, <1>3 DEF EJ_PutEventSem, Queue, EventNames
<1>4. CASE TakeEvent
  <2>1. events # << >> /\ events' \in {Tail(events), Append(Tail(events), "router"),
                                       Put(Tail(events), "router"),
                                       Put(Append(Tail(events), "router"), "router")}
    <3>1. CASE Head(events) = "router" /\ RouterConnectedProcess
      BY <1>4, <3>1 DEF TakeEvent, RouterConnectedProcess
    <3>2. CASE RestartProcess(Head(events))
      BY <1>4, <3>2 DEF TakeEvent, RestartProcess
    <3>3. CASE ~ (Head(events) = "router" /\ RouterConnectedProcess) /\ ~ RestartProcess(Head(events))
      BY <1>4, <3>3 DEF TakeEvent
    <3> QED
      BY <3>1, <3>2, <3>3
  <2> QED
    BY <1>1, <2>1 DEF Queue
<1>5. CASE DeviceStep
  <2>1. UNCHANGED events \/ \E k, d : \E e \in EventsOf(k, d) : e # "none" /\ events' = Put(events, e)
    BY <1>5, Zenon DEF DeviceStep
  <2>2. \A k, d : \A e \in EventsOf(k, d) : e # "none" => e \in EventNames
    BY EventsOfNames
  <2> QED
    BY <1>2, <2>1, <2>2 DEF Queue
<1>6. \/ \E e \in {"router", "lost", "reApply", "timeSync", "authFailed"} : EJ_PutEventSem(e)
      \/ TakeEvent \/ DeviceStep \/ UNCHANGED events
  BY DEF Next, UartReceive, EJ_messageArrived, UartSendThread, MQTTSendThread, SendThread, EJ_Event_Process,
     NoEvent, EJ_App_reboot, FreeDevice, CloudStep, ReportStep, FreeCloud, vars
<1> QED
  BY <1>3, <1>4, <1>5, <1>6 DEF Queue

(* The reports that are left.                                              *)
LEMMA StepsNext == Steps /\ [Next]_vars => Steps'
<1> SUFFICES ASSUME Steps, [Next]_vars PROVE Steps'
  OBVIOUS
<1> DEFINE R == {"module", "status", "device", "query"}
<1>1. \/ UNCHANGED todo /\ (pc' = "report" => pc = "report")
      \/ todo' = Reports \/ (todo' = << >> /\ pc' # "report")
      \/ pc = "report" /\ todo' = Tail(todo) /\ (pc' = "report" => Len(todo) # 1)
  BY DEF Next, UartReceive, EJ_messageArrived, UartSendThread, MQTTSendThread, SendThread, EJ_PutEventSem,
     EJ_Event_Process, NoEvent, TakeEvent, RouterConnectedProcess, RestartProcess, EJ_App_reboot, DeviceStep,
     FreeDevice, CloudStep, ReportStep, FreeCloud, vars
<1>2. Reports \in Seq(R) /\ Len(Reports) = 4 /\ Reports # << >>
  BY DEF Reports
<1>3. << >> \in Seq(R) /\ Len(<< >>) = 0
  BY EmptySeq
<1>4. CASE pc = "report" /\ todo' = Tail(todo) /\ (pc' = "report" => Len(todo) # 1)
  <2>1. todo # << >> /\ todo \in Seq(R) /\ Len(todo) <= 4
    BY <1>4 DEF Steps
  <2>2. Len(todo) \in Nat /\ Len(todo) > 0
    BY <2>1, EmptySeq, LenProperties
  <2>3. Tail(todo) \in Seq(R) /\ Len(Tail(todo)) = Len(todo) - 1
    BY <2>1, <2>2, HeadTailProperties
  <2>4. Tail(todo) = << >> => Len(todo) = 1
    BY <1>3, <2>2, <2>3
  <2> QED
    BY <1>4, <2>1, <2>2, <2>3, <2>4 DEF Steps
<1>5. CASE todo' = Reports
  <2> HIDE DEF R
  <2>1. todo' \in Seq(R) /\ Len(todo') = 4 /\ todo' # << >>
    BY <1>2, <1>5
  <2>2. Len(todo') <= 4
    BY <2>1
  <2> QED
    BY <2>1, <2>2 DEF Steps, R
<1>6. CASE todo' = << >> /\ pc' # "report"
  BY <1>3, <1>6 DEF Steps
<1>7. ASSUME UNCHANGED todo, pc' = "report" => pc = "report" PROVE Steps'
  BY <1>7 DEF Steps
<1> QED
  BY <1>1, <1>4, <1>5, <1>6, <1>7

(* The variables that refer to no block keep their types.                  *)
LEMMA ScalarsNext == Scalars /\ [Next]_vars => Scalars'
<1> SUFFICES ASSUME Scalars, [Next]_vars PROVE Scalars'
  OBVIOUS
<1>1. Inputs \in Nat
  BY MainLoopAssumption
<1>2. UNCHANGED inputs \/ (inputs > 0 /\ inputs' = inputs - 1)
  BY DEF Next, UartReceive, EJ_messageArrived, UartSendThread, MQTTSendThread, SendThread, EJ_PutEventSem,
     EJ_Event_Process, NoEvent, TakeEvent, EJ_App_reboot, DeviceStep, FreeDevice, CloudStep, ReportStep,
     FreeCloud, vars
<1>3. inputs' \in 0 .. Inputs
  BY <1>1, <1>2 DEF Scalars
<1>4. pc' \in {"event", "device", "freeDevice", "cloud", "report", "freeCloud", "restart", "down"}
  BY DEF Next, UartReceive, EJ_messageArrived, UartSendThread, MQTTSendThread, SendThread, EJ_PutEventSem,
     EJ_Event_Process, NoEvent, TakeEvent, RouterConnectedProcess, RestartProcess, EJ_App_reboot, DeviceStep,
     FreeDevice, CloudStep, ReportStep, FreeCloud, vars, Scalars
<1>5. {session, hasId, udp}' \subseteq BOOLEAN
  BY DEF Next, UartReceive, EJ_messageArrived, UartSendThread, MQTTSendThread, SendThread, EJ_PutEventSem,
     EJ_Event_Process, NoEvent, TakeEvent, RouterConnectedProcess, RestartProcess, EJ_App_reboot, DeviceStep,
     FreeDevice, CloudStep, ReportStep, FreeCloud, vars, Scalars
<1>6. history' \subseteq {"baud", "restart", "option"}
  BY DEF Next, UartReceive, EJ_messageArrived, UartSendThread, MQTTSendThread, SendThread, EJ_PutEventSem,
     EJ_Event_Process, NoEvent, TakeEvent, RouterConnectedProcess, RestartProcess, EJ_App_reboot, DeviceStep,
     FreeDevice, CloudStep, ReportStep, FreeCloud, vars, Scalars
<1> QED
  BY <1>3, <1>4, <1>5, <1>6 DEF Scalars

-----------------------------------------------------------------------------
(* The sockets of the UDP service. *)

(* What EJ_init_udpbroadcast leaves: nothing new, two open sockets closed  *)
(* again, or two open sockets that rxsock and txsock name.                 *)
LEMMA InitOpens ==
  ASSUME Opened, NEW u \in InitUdpbroadcast
  PROVE  \/ u[2] = "failed" /\ u[1].open = sock.open /\ u[1].rx = NULL /\ u[1].tx \in {sock.tx, NULL}
            /\ u[1] \in [rx : 1..Sockets \cup {NULL}, tx : 1..Sockets \cup {NULL}, open : SUBSET (1..Sockets)]
         \/ /\ u[2] \in {"option", "success"}
            /\ u[1].rx \in 1..Sockets /\ u[1].tx \in 1..Sockets
            /\ u[1].open = sock.open \cup {u[1].rx, u[1].tx}
            /\ u[1] \in [rx : 1..Sockets \cup {NULL}, tx : 1..Sockets \cup {NULL}, open : SUBSET (1..Sockets)]
<1> DEFINE left == 1..Sockets \ sock.open
           a == CHOOSE s \in left : TRUE
           c == CHOOSE s \in left \ {a} : TRUE
<1>1. \/ u = <<[sock EXCEPT !.rx = NULL], "failed">>
      \/ u = <<[rx |-> NULL, tx |-> NULL, open |-> sock.open], "failed">>
      \/ /\ ~ Cardinality(left) < 2
         /\ \E r \in {"option", "success"} :
              u = <<[rx |-> a, tx |-> c, open |-> sock.open \cup {a, c}], r>>
  BY DEF InitUdpbroadcast
<1>2. CASE u = <<[sock EXCEPT !.rx = NULL], "failed">>
  <2>1. u[1] = [sock EXCEPT !.rx = NULL] /\ u[2] = "failed"
    BY <1>2
  <2> QED
    BY <2>1 DEF Opened
<1>3. CASE u = <<[rx |-> NULL, tx |-> NULL, open |-> sock.open], "failed">>
  <2>1. u[1] = [rx |-> NULL, tx |-> NULL, open |-> sock.open] /\ u[2] = "failed"
    BY <1>3
  <2> QED
    BY <2>1 DEF Opened
<1>4. ASSUME ~ Cardinality(left) < 2, NEW r \in {"option", "success"},
             u = <<[rx |-> a, tx |-> c, open |-> sock.open \cup {a, c}], r>>
      PROVE  /\ u[2] \in {"option", "success"}
             /\ u[1].rx \in 1..Sockets /\ u[1].tx \in 1..Sockets
             /\ u[1].open = sock.open \cup {u[1].rx, u[1].tx}
             /\ u[1] \in [rx : 1..Sockets \cup {NULL}, tx : 1..Sockets \cup {NULL}, open : SUBSET (1..Sockets)]
  <2>1. Cardinality({}) = 0 /\ \A s : Cardinality({s}) = 1
    BY FS_EmptySet, FS_Singleton
  <2>2. left # {} /\ \A s : left # {s}
    <3> HIDE DEF left
    <3>1. ASSUME left = {} PROVE FALSE
      BY <1>4, <2>1, <3>1
    <3>2. ASSUME NEW s, left = {s} PROVE FALSE
      <4>1. Cardinality(left) = 1
        BY <2>1, <3>2
      <4> QED
        BY <1>4, <4>1
    <3> QED
      BY <3>1, <3>2
  <2>3. a \in left
    BY <2>2
  <2>4. left \ {a} # {}
    BY <2>2, <2>3
  <2>5. c \in left \ {a}
    BY <2>4
  <2>6. u[1] = [rx |-> a, tx |-> c, open |-> sock.open \cup {a, c}] /\ u[2] = r
    BY <1>4
  <2> HIDE DEF a, c
  <2> QED
    BY <2>3, <2>5, <2>6 DEF Opened
<1> QED
  BY <1>1, <1>2, <1>3, <1>4

(* Every step keeps the sockets of the UDP service.                        *)
LEMMA OpenedNext == Opened /\ Scalars /\ [Next]_vars => Opened'
<1> SUFFICES ASSUME Opened, Scalars, [Next]_vars PROVE Opened'
  OBVIOUS
<1>1. CASE TakeEvent /\ RouterConnectedProcess
  <2>1. PICK u \in IF udp THEN {<<sock, "running">>} ELSE InitUdpbroadcast :
          /\ sock' = u[1] /\ udp' = (udp \/ u[2] = "success")
          /\ history' = IF u[2] = "option" THEN history \cup {"option"} ELSE history
    BY <1>1 DEF RouterConnectedProcess
  <2>2. CASE udp
    <3>1. u[1] = sock /\ u[2] = "running"
      BY <2>1, <2>2
    <3> QED
      BY <2>1, <2>2, <3>1 DEF Opened
  <2>3. CASE ~ udp
    <3>1. u \in InitUdpbroadcast
      BY <2>1, <2>3
    <3>2. CASE u[2] = "failed" /\ u[1].open = sock.open /\ u[1].rx = NULL /\ u[1].tx \in {sock.tx, NULL}
               /\ u[1] \in [rx : 1..Sockets \cup {NULL}, tx : 1..Sockets \cup {NULL}, open : SUBSET (1..Sockets)]
      <4>1. history' = history /\ ~ udp'
        BY <2>1, <2>3, <3>2
      <4> QED
        BY <2>1, <2>3, <3>2, <4>1 DEF Opened
    <3>3. CASE /\ u[2] \in {"option", "success"}
               /\ u[1].rx \in 1..Sockets /\ u[1].tx \in 1..Sockets
               /\ u[1].open = sock.open \cup {u[1].rx, u[1].tx}
               /\ u[1] \in [rx : 1..Sockets \cup {NULL}, tx : 1..Sockets \cup {NULL}, open : SUBSET (1..Sockets)]
      <4>1. CASE u[2] = "option"
        BY <2>1, <3>3, <4>1 DEF Opened
      <4>2. CASE u[2] = "success"
        <5>1. history' = history /\ udp'
          BY <2>1, <4>2
        <5> QED
          BY <2>1, <2>3, <3>3, <5>1 DEF Opened
      <4> QED
        BY <3>3, <4>1, <4>2
    <3> QED
      BY <3>1, <3>2, <3>3, InitOpens
  <2> QED
    BY <2>2, <2>3
<1>2. CASE TakeEvent /\ RestartProcess(Head(events))
  BY <1>2 DEF RestartProcess, Opened, Scalars
<1>3. ASSUME UNCHANGED <<sock, udp>>, "option" \in history => "option" \in history'
      PROVE  Opened'
  BY <1>3 DEF Opened
<1>4. \/ TakeEvent /\ RouterConnectedProcess
      \/ TakeEvent /\ RestartProcess(Head(events))
      \/ UNCHANGED <<sock, udp>> /\ ("option" \in history => "option" \in history')
  <2>1. CASE TakeEvent
    <3>1. \/ RouterConnectedProcess \/ RestartProcess(Head(events)) \/ UNCHANGED <<sock, udp, history>>
      BY <2>1, Zenon DEF TakeEvent
    <3> QED
      BY <2>1, <3>1
  <2>2. CASE DeviceStep
    <3>1. UNCHANGED <<sock, udp>>
      BY <2>2 DEF DeviceStep
    <3>2. history' = history \/ \E A, B : history' = history \cup A \cup B
      BY <2>2, Zenon DEF DeviceStep
    <3> QED
      BY <3>1, <3>2
  <2>3. \/ TakeEvent \/ DeviceStep
        \/ UNCHANGED <<sock, udp, history>>
    BY DEF Next, UartReceive, EJ_messageArrived, UartSendThread, MQTTSendThread, SendThread, EJ_PutEventSem,
       EJ_Event_Process, NoEvent, EJ_App_reboot, FreeDevice, CloudStep, ReportStep, FreeCloud, vars
  <2> QED
    BY <2>1, <2>2, <2>3
<1> QED
  BY <1>1, <1>2, <1>3, <1>4

-----------------------------------------------------------------------------
(* The theorems. *)

(* At the start nothing is allocated, listed, open or told.                *)
LEMMA Initially == Init => IInv
<1> SUFFICES ASSUME Init PROVE IInv
  OBVIOUS
<1>1. /\ << >> \in Seq(Cells) /\ << >> \in Seq(EventNames) /\ Len(<< >>) = 0 /\ DOMAIN << >> = {}
      /\ << >> \in Seq({"module", "status", "device", "query"})
  BY EmptySeq
<1>2. /\ mem.heap = [c \in Cells |-> FREE] /\ mem.list = [l \in Lists |-> << >>]
      /\ mem.fault = "none" /\ mem.oom = FALSE /\ mem.refused = {}
  BY DEF Init
<1>3. MemType(mem)
  <2>1. \A l \in Lists : Cap(l) \in Nat
    BY MainLoopAssumption DEF Cap
  <2>2. mem \in Memories
    BY <1>1 DEF Init, Memories, Faults
  <2> QED
    BY <1>1, <1>2, <2>1, <2>2 DEF MemType
<1>4. Sound(mem, {}, {}) /\ Kept(mem, {}, {})
  BY <1>1, <1>2, Names DEF Sound, Kept
<1>5. {held} \ {NULL} = {} /\ info = {}
  BY DEF Init
<1>6. Heap
  BY <1>3, <1>4, <1>5 DEF Init, Heap, Good, Holding
<1>7. Queue /\ Steps
  BY <1>1, MainLoopAssumption DEF Init, Queue, Steps
<1>8. Scalars
  <2>1. inputs \in 0 .. Inputs
    BY MainLoopAssumption DEF Init
  <2>2. pc \in {"event", "device", "freeDevice", "cloud", "report", "freeCloud", "restart", "down"}
    BY DEF Init
  <2>3. {session, hasId, udp} \subseteq BOOLEAN
    <3>1. session = FALSE /\ hasId \in BOOLEAN /\ udp = FALSE
      BY DEF Init
    <3> QED
      BY <3>1
  <2>4. history \subseteq {"baud", "restart", "option"}
    BY DEF Init
  <2> QED
    BY <2>1, <2>2, <2>3, <2>4 DEF Scalars
<1>9. Opened
  BY DEF Init, Opened
<1> QED
  BY <1>6, <1>7, <1>8, <1>9 DEF IInv

(* Every step keeps the invariant.                                         *)
LEMMA Stays == IInv /\ [Next]_vars => IInv'
BY HeapNext, QueueNext, StepsNext, ScalarsNext, OpenedNext DEF IInv

(* The invariant holds in every reachable state.                           *)
LEMMA Invariance == Spec => []IInv
BY Initially, Stays, PTL DEF Spec

(* The heap and the lists hold packets, and no list and no queue more than *)
(* it has room for, whatever fails (nolock-list and EJ_PutEventSem refuse  *)
(* what is too much).                                                      *)
THEOREM TypeCorrect == Spec => []TypeOK
<1>1. IInv => TypeOK
  <2> SUFFICES ASSUME IInv PROVE TypeOK
    OBVIOUS
  <2>1. MemType(mem) /\ info \subseteq Cells
    BY DEF IInv, Heap, Good
  <2>2. /\ mem.heap \in [Cells -> Blocks \cup {FREE}] /\ mem.list \in [Lists -> Seq(Cells)]
        /\ mem.fault \in Faults /\ mem.oom \in BOOLEAN /\ mem.refused \subseteq {"packet", "events"}
    BY <2>1, MemFields
  <2>3. \A l \in Lists : mem.list[l] \in Seq(Cells) /\ Len(mem.list[l]) <= Cap(l)
    BY <2>1, <2>2 DEF MemType
  <2> QED
    BY <2>1, <2>2, <2>3 DEF IInv, Heap, Queue, Steps, Scalars, Opened, Faults, TypeOK
<1> QED
  BY <1>1, Invariance, PTL

(* No block is used after it was freed, or freed twice: every block a list,*)
(* mainLoop or the description refers to is allocated, and there is one    *)
(* reference to it (the callbacks of ej_cmd_uart.c and ej_cmd_mqtt.c, the  *)
(* threads that receive and send, and EJ_PacketUartFree).                  *)
THEOREM NothingUsedAfterFree == Spec => []MemorySafe
<1>1. IInv => MemorySafe
  <2> SUFFICES ASSUME IInv, ~ mem.oom, "baud" \notin history
               PROVE  /\ mem.fault \notin {"freed", "null"}
                      /\ \A c \in Referenced : mem.heap[c] # FREE
                      /\ OneReference
    BY DEF MemorySafe
  <2>1. Sound(mem, {held} \ {NULL}, info) /\ MemType(mem) /\ held \in Cells \cup {NULL} /\ info \subseteq Cells
    BY DEF IInv, Heap, Good
  <2>2. \A l \in Lists : \A i \in DOMAIN mem.list[l] : mem.list[l][i] \in Cells
    BY <2>1, MemFields, LenProperties
  <2>3. NULL \notin Cells
    BY MainLoopAssumption
  <2>4. OneReference
    <3>1. \A l \in Lists : Range(mem.list[l]) \cap ({held} \cup info) = {}
      BY <2>1, <2>2, <2>3 DEF Sound, Range
    <3>2. held \notin info
      BY <2>1, <2>3 DEF Sound
    <3> QED
      BY <2>1, <3>1, <3>2 DEF OneReference, Sound
  <2>5. \A c \in Referenced : mem.heap[c] # FREE
    BY <2>1 DEF Sound, Referenced, Range
  <2> QED
    BY <2>1, <2>4, <2>5 DEF Sound
<1> QED
  BY <1>1, Invariance, PTL

(* No packet is forgotten: what is allocated is referred to, is some text, *)
(* or is an acknowledgement nobody waited for, until an allocation fails,  *)
(* a new speed is asked for or a list refuses what is pushed to it         *)
(* unchecked.                                                              *)
THEOREM NothingForgotten == Spec => []NoLeak
<1>1. IInv => NoLeak
  <2> SUFFICES ASSUME IInv, ~ mem.oom, "baud" \notin history, "packet" \notin mem.refused,
                      mem.fault = "none", NEW c \in Cells
               PROVE  mem.heap[c] = FREE \/ c \in Referenced \/ mem.heap[c].kind \in {"text", "ack"}
    BY DEF NoLeak
  <2>1. Kept(mem, {held} \ {NULL}, info)
    BY DEF IInv, Heap, Good
  <2>2. Listed(mem, c) => c \in Referenced
    BY DEF Listed, Referenced, Range
  <2>3. c \in ({held} \ {NULL}) \cup info => c \in Referenced
    BY DEF Referenced
  <2> QED
    BY <2>1, <2>2, <2>3 DEF Kept
<1> QED
  BY <1>1, Invariance, PTL

(* However often the UDP service is started and stopped, the open sockets  *)
(* are those of rxsock and txsock (EJ_init_udpbroadcast).                  *)
THEOREM NoSocketLost == Spec => []SocketsKept
<1>1. IInv => SocketsKept
  BY MainLoopAssumption DEF IInv, Opened, SocketsKept
<1> QED
  BY <1>1, Invariance, PTL
=============================================================================
