----------------------------- MODULE CodecProofs -----------------------------
(***************************************************************************)
(* What TLAPS proves of the calculations of the module, each for every     *)
(* input, where Codecs checks them on chosen ones: the fixed header of     *)
(* MQTT and the room a packet needs, numbers and texts on the wire, the    *)
(* clock, the calendar, the timers, and the tables of IDs and callbacks.   *)
(* Sums over a sequence (the value of a length, checksums, seconds since   *)
(* 1970) are recursive definitions of the library and stay with TLC.       *)
(***************************************************************************)
EXTENDS EjTime, MqttPacket, Tables, SequenceTheorems, FiniteSetTheorems,
        WellFoundedInduction, TLAPS

Byte == 0 .. 255

-----------------------------------------------------------------------------
(* The fixed header.                                                       *)

(* What MQTTHeader's fields say is what is read from the byte: the type,   *)
(* the repeat, the QoS and the retain bit do not reach into one another.   *)
THEOREM HeaderRead ==
  ASSUME NEW type \in 1 .. 15, NEW dup \in BOOLEAN, NEW qos \in 0 .. 3, NEW retain \in BOOLEAN,
         NEW rest \in Seq(Byte)
  PROVE LET b == <<Header(type, dup, qos, retain)>> \o rest
        IN b[1] \in Byte /\ Type(b) = type /\ Dup(b) = dup /\ Qos(b) = qos /\ Retain(b) = retain
<1>1. Header(type, dup, qos, retain) \in Byte
  BY DEF Header, Bit, Byte
<1>2. (<<Header(type, dup, qos, retain)>> \o rest)[1] = Header(type, dup, qos, retain)
  BY <1>1 DEF Byte
<1> QED
  BY <1>1, <1>2 DEF Header, Bit, Type, Dup, Qos, Retain

(* The sizes of sets of at most three numbers.                             *)
LEMMA SmallSets ==
  ASSUME NEW a \in Int, NEW b \in Int, NEW c \in Int, a # b, a # c, b # c
  PROVE /\ Cardinality({}) = 0
        /\ IsFiniteSet({a}) /\ Cardinality({a}) = 1
        /\ IsFiniteSet({a, b}) /\ Cardinality({a, b}) = 2
        /\ IsFiniteSet({a, b, c}) /\ Cardinality({a, b, c}) = 3
<1>1. Cardinality({}) = 0
  BY FS_EmptySet
<1>2. IsFiniteSet({a}) /\ Cardinality({a}) = 1
  BY FS_Singleton
<1>3. IsFiniteSet({a, b}) /\ Cardinality({a, b}) = 2
  <2>1. {a} \cup {b} = {a, b} /\ b \notin {a}
    OBVIOUS
  <2>2. IsFiniteSet({a} \cup {b}) /\ Cardinality({a} \cup {b}) = Cardinality({a}) + 1
    BY <1>2, <2>1, FS_AddElement
  <2> QED
    BY <1>2, <2>1, <2>2
<1>4. IsFiniteSet({a, b, c}) /\ Cardinality({a, b, c}) = 3
  <2>1. {a, b} \cup {c} = {a, b, c} /\ c \notin {a, b}
    OBVIOUS
  <2>2. IsFiniteSet({a, b} \cup {c}) /\ Cardinality({a, b} \cup {c}) = Cardinality({a, b}) + 1
    BY <1>3, <2>1, FS_AddElement
  <2> QED
    BY <1>3, <2>1, <2>2
<1> QED
  BY <1>1, <1>2, <1>3, <1>4

(* The powers of 128 a length is compared with.                            *)
LEMMA Powers == 128 ^ 0 = 1 /\ 128 ^ 1 = 128 /\ 128 ^ 2 = 16384 /\ 128 ^ 3 = 2097152
<1>1. 128 ^ 0 = 1
  BY SMT
<1>2. 128 ^ 1 = 128
  BY SMT
<1>3. 128 ^ 2 = 16384
  BY SMT
<1>4. 128 ^ 3 = 2097152
  BY SMT
<1> QED
  BY <1>1, <1>2, <1>3, <1>4, SMT

(* A length of n takes one byte more from each of them on.                 *)
LEMMA DigitsOf ==
  ASSUME NEW n \in Nat
  PROVE Digits(n) = IF n < 128 THEN 1 ELSE IF n < 16384 THEN 2 ELSE IF n < 128 ^ 3 THEN 3 ELSE 4
<1> DEFINE S == {k \in 1 .. 3 : n >= 128 ^ k}
           T == 128 ^ 3
<1>1. (1 \in S <=> n >= 128) /\ (2 \in S <=> n >= 16384) /\ (3 \in S <=> n >= T)
  <2>1. 1 \in S <=> n >= 128
    BY Powers, SMT
  <2>2. 2 \in S <=> n >= 16384
    BY Powers, SMT
  <2>3. 3 \in S <=> n >= T
    BY SMT
  <2> HIDE DEF S, T
  <2> QED
    BY <2>1, <2>2, <2>3
<1>2. S \subseteq {1, 2, 3}
  BY SMT
<1>3. Cardinality({}) = 0 /\ Cardinality({1}) = 1 /\ Cardinality({1, 2}) = 2 /\ Cardinality({1, 2, 3}) = 3
  <2>1. 1 \in Int /\ 2 \in Int /\ 3 \in Int /\ 1 # 2 /\ 1 # 3 /\ 2 # 3
    BY SMT
  <2> QED
    BY <2>1, SmallSets, ZenonT(20)
<1>4. T > 16384 /\ T \in Nat
  BY Powers, SMT
<1>5. Digits(n) = 1 + Cardinality(S)
  BY Zenon DEF Digits
<1> HIDE DEF S, T
<1>6. Digits(n) = IF n < 128 THEN 1 ELSE IF n < 16384 THEN 2 ELSE IF n < T THEN 3 ELSE 4
  <2>1. CASE n < 128
    <3>1. 1 \notin S /\ 2 \notin S /\ 3 \notin S
      BY <1>1, <1>4, <2>1, SMT
    <3>2. S = {}
      BY <1>2, <3>1, Zenon
    <3> QED
      BY <1>3, <1>5, <2>1, <3>2, SMT
  <2>2. CASE n >= 128 /\ n < 16384
    <3>1. 1 \in S /\ 2 \notin S /\ 3 \notin S
      BY <1>1, <1>4, <2>2, SMT
    <3>2. S = {1}
      BY <1>2, <3>1, Zenon
    <3> QED
      BY <1>3, <1>5, <2>2, <3>2, SMT
  <2>3. CASE n >= 16384 /\ n < T
    <3>1. 1 \in S /\ 2 \in S /\ 3 \notin S
      BY <1>1, <1>4, <2>3, SMT
    <3>2. S = {1, 2}
      BY <1>2, <3>1, Zenon
    <3> QED
      BY <1>3, <1>4, <1>5, <2>3, <3>2, SMT
  <2>4. CASE n >= T
    <3>1. 1 \in S /\ 2 \in S /\ 3 \in S
      BY <1>1, <1>4, <2>4, SMT
    <3>2. S = {1, 2, 3}
      BY <1>2, <3>1, Zenon
    <3> QED
      BY <1>3, <1>4, <1>5, <2>4, <3>2, SMT
  <2> QED
    BY <1>4, <2>1, <2>2, <2>3, <2>4, SMT
<1> QED
  BY <1>6 DEF T

(* How many of three numbers a set has at least.                           *)
LEMMA SetOfThree ==
  ASSUME NEW a \in Int, NEW b \in Int, NEW c \in Int, a # b, a # c, b # c,
         NEW S, S \subseteq {a, b, c}
  PROVE /\ Cardinality(S) \in Nat
        /\ a \in S => Cardinality(S) >= 1
        /\ a \in S /\ b \in S => Cardinality(S) >= 2
        /\ a \in S /\ b \in S /\ c \in S => Cardinality(S) >= 3
<1>1. /\ Cardinality({a}) = 1 /\ Cardinality({a, b}) = 2
      /\ IsFiniteSet({a, b, c}) /\ Cardinality({a, b, c}) = 3
  BY SmallSets
<1>2. IsFiniteSet(S)
  BY <1>1, FS_Subset
<1>3. Cardinality(S) \in Nat
  BY <1>2, FS_CardinalityType
<1>4. \A R : R \subseteq S => Cardinality(R) <= Cardinality(S)
  BY <1>2, FS_Subset
<1>5. ASSUME a \in S PROVE Cardinality({a}) <= Cardinality(S)
  <2>1. {a} \subseteq S
    BY <1>5
  <2> QED
    BY <1>4, <2>1, Zenon
<1>6. ASSUME a \in S, b \in S PROVE Cardinality({a, b}) <= Cardinality(S)
  <2>1. {a, b} \subseteq S
    BY <1>6
  <2> QED
    BY <1>4, <2>1, Zenon
<1>7. ASSUME a \in S, b \in S, c \in S PROVE Cardinality({a, b, c}) <= Cardinality(S)
  <2>1. {a, b, c} \subseteq S
    BY <1>7
  <2> QED
    BY <1>4, <2>1, Zenon
<1> QED
  BY <1>1, <1>3, <1>5, <1>6, <1>7

(* PacketLen, by which a writer decides whether its buffer has room, is    *)
(* never less than what is written: the header byte, the bytes of the      *)
(* length, and what follows.                                               *)
LEMMA RoomIsEnough ==
  ASSUME NEW n \in Nat
  PROVE PacketLen(n) \in Nat /\ PacketLen(n) >= 1 + Digits(n) + n
<1> DEFINE S == {k \in {128, 16384, 2097151} : n + 1 >= k}
           A == 128
           B == 16384
           U == 2097151
           T == 128 ^ 3
<1>1. A = 128 /\ B = 16384 /\ T = U + 1 /\ U > B /\ U \in Nat
  BY Powers, SMT
<1>2. PacketLen(n) = n + 2 + Cardinality(S)
  BY SMT DEF PacketLen
<1>3. Digits(n) = IF n < 128 THEN 1 ELSE IF n < 16384 THEN 2 ELSE IF n < T THEN 3 ELSE 4
  BY DigitsOf
<1>4. S = {k \in {A, B, U} : n + 1 >= k}
  BY SMT
<1> HIDE DEF S, A, B, U, T
<1>5. (A \in S <=> n + 1 >= A) /\ (B \in S <=> n + 1 >= B) /\ (U \in S <=> n + 1 >= U)
  BY <1>4, SMT
<1>6. S \subseteq {A, B, U}
  BY <1>4, SMT
<1>7. A \in Int /\ B \in Int /\ U \in Int /\ A # B /\ A # U /\ B # U
  BY <1>1, SMT
<1>8. /\ Cardinality(S) \in Nat
      /\ A \in S => Cardinality(S) >= 1
      /\ A \in S /\ B \in S => Cardinality(S) >= 2
      /\ A \in S /\ B \in S /\ U \in S => Cardinality(S) >= 3
  BY <1>6, <1>7, SetOfThree, Zenon
<1>9. Cardinality(S) >= Digits(n) - 1
  BY <1>1, <1>3, <1>5, <1>8, SMT
<1> QED
  BY <1>1, <1>2, <1>3, <1>8, <1>9, SMT

(* What the i-th byte of a length counts.                                  *)
Weight(i) == IF i = 1 THEN 1 ELSE IF i = 2 THEN 128 ELSE IF i = 3 THEN 16384 ELSE 2097152

(* The weights are the powers of 128.                                      *)
LEMMA Weights == \A i \in 1 .. 4 : 128 ^ (i - 1) = Weight(i) /\ Weight(i) \in Nat \ {0}
<1> SUFFICES ASSUME NEW i \in 1 .. 4
             PROVE 128 ^ (i - 1) = Weight(i) /\ Weight(i) \in Nat \ {0}
  BY Zenon
<1>1. Weight(i) \in Nat \ {0}
  BY SMT DEF Weight
<1>2. CASE i = 1
  BY <1>1, <1>2, Powers, SMT DEF Weight
<1>3. CASE i = 2
  BY <1>1, <1>3, Powers, SMT DEF Weight
<1>4. CASE i = 3
  BY <1>1, <1>4, Powers, SMT DEF Weight
<1>5. CASE i = 4
  BY <1>1, <1>5, Powers, SMT DEF Weight
<1> QED
  BY <1>2, <1>3, <1>4, <1>5, SMT

(* The bytes of a length: seven bits each, and a mark on all but the last. *)
LEMMA EncodeType ==
  ASSUME NEW n \in Nat
  PROVE /\ Digits(n) \in 1 .. 4
        /\ Encode(n) \in Seq(Byte) /\ Len(Encode(n)) = Digits(n)
        /\ \A i \in 1 .. Digits(n) : /\ Encode(n)[i] % 128 = (n \div Weight(i)) % 128
                                     /\ Last7(Encode(n)[i]) <=> i = Digits(n)
<1> DEFINE d == Digits(n)
           E(i) == ((n \div 128 ^ (i - 1)) % 128) + (IF i < d THEN 128 ELSE 0)
<1>1. d \in 1 .. 4
  <2> DEFINE T == 128 ^ 3
  <2>1. d = IF n < 128 THEN 1 ELSE IF n < 16384 THEN 2 ELSE IF n < T THEN 3 ELSE 4
    BY DigitsOf
  <2> HIDE DEF T, d
  <2> QED
    BY <2>1, SMT
<1>2. \A i \in 1 .. d : /\ E(i) \in Byte
                        /\ E(i) % 128 = (n \div Weight(i)) % 128
                        /\ Last7(E(i)) <=> i = d
  <2> SUFFICES ASSUME NEW i \in 1 .. d
               PROVE /\ E(i) \in Byte
                     /\ E(i) % 128 = (n \div Weight(i)) % 128
                     /\ Last7(E(i)) <=> i = d
    BY Zenon
  <2>1. PICK q \in Nat : q = n \div Weight(i)
    <3>1. Weight(i) \in Nat \ {0}
      BY <1>1, Weights, SMT
    <3> QED
      BY <3>1, SMT
  <2>2. E(i) = (q % 128) + (IF i < d THEN 128 ELSE 0)
    <3>1. 128 ^ (i - 1) = Weight(i)
      <4>1. i \in 1 .. 4
        <5> HIDE DEF d
        <5> QED
          BY <1>1, SMT
      <4> QED
        BY <4>1, Weights, Zenon
    <3> QED
      BY <2>1, <3>1, Zenon
  <2> HIDE DEF d, E
  <2>3. E(i) \in Byte /\ E(i) % 128 = q % 128 /\ (Last7(E(i)) <=> i = d)
    BY <1>1, <2>2, SMT DEF Byte, Last7
  <2> QED
    BY <2>1, <2>3, Zenon
<1>3. Encode(n) = [i \in 1 .. d |-> E(i)]
  BY Zenon DEF Encode
<1> HIDE DEF d, E
<1>4. Encode(n) \in Seq(Byte) /\ Len(Encode(n)) = d /\ \A i \in 1 .. d : Encode(n)[i] = E(i)
  BY <1>1, <1>2, <1>3, SMT
<1>5. \A i \in 1 .. d : Encode(n)[i] % 128 = (n \div Weight(i)) % 128 /\ (Last7(Encode(n)[i]) <=> i = d)
  BY <1>2, <1>4, Zenon
<1> QED
  BY <1>1, <1>4, <1>5, Zenon DEF d

(* A packet is written only when it fits: what a writer gives is never     *)
(* longer than its buffer, and nothing when the buffer might be too short. *)
THEOREM NeverBeyondTheBuffer ==
  ASSUME NEW header \in Byte, NEW body \in Seq(Byte), NEW room \in Nat
  PROVE /\ Len(Write(header, Len(body), body, room)) <= room
        /\ Write(header, Len(body), body, room) \in Seq(Byte)
<1> DEFINE rem == Len(body)
           p == <<header>> \o Encode(rem) \o body
<1>1. rem \in Nat
  BY SMT
<1>2. Encode(rem) \in Seq(Byte) /\ Len(Encode(rem)) = Digits(rem) /\ Digits(rem) \in 1 .. 4
  BY <1>1, EncodeType, Zenon
<1>3. PacketLen(rem) \in Nat /\ PacketLen(rem) >= 1 + Digits(rem) + rem
  BY <1>1, RoomIsEnough, Zenon
<1>4. p \in Seq(Byte) /\ Len(p) = 1 + Digits(rem) + rem
  <2> HIDE DEF Byte
  <2> QED
    BY <1>1, <1>2, SMT
<1>5. CASE PacketLen(rem) > room
  <2>1. Write(header, rem, body, room) = << >>
    BY <1>5 DEF Write, TooShort
  <2> QED
    BY <2>1, SMT
<1>6. CASE ~ PacketLen(rem) > room
  <2>1. Write(header, rem, body, room) = p
    BY <1>6 DEF Write
  <2> QED
    BY <1>1, <1>2, <1>3, <1>4, <1>6, <2>1, SMT
<1> QED
  BY <1>5, <1>6

-----------------------------------------------------------------------------
(* What stands on the wire is read back.                                   *)

(* The least of a set of numbers.                                          *)
LEMMA LeastIs ==
  ASSUME NEW I \in SUBSET Int, NEW k \in I, \A i \in I : k <= i
  PROVE I # {} /\ Min(I) = k
<1>1. \A m \in I : (\A i \in I : m <= i) => m = k
  BY SMT
<1> QED
  BY <1>1 DEF Min

(* The bytes of a sequence and of what follows it.                         *)
LEMMA Joined ==
  ASSUME NEW s \in Seq(Byte), NEW t \in Seq(Byte)
  PROVE /\ s \o t \in Seq(Byte) /\ Len(s \o t) = Len(s) + Len(t)
        /\ \A i \in 1 .. Len(s) : (s \o t)[i] = s[i]
        /\ \A i \in 1 .. Len(t) : (s \o t)[Len(s) + i] = t[i]
<1> HIDE DEF Byte
<1> QED
  BY SMT

(* A number is what its groups of seven bits say.                          *)
LEMMA SevenBits ==
  ASSUME NEW n \in Nat
  PROVE /\ n < 128 => n % 128 = n
        /\ n < 16384 => (n % 128) + ((n \div 128) % 128) * 128 = n
        /\ n < 2097152 => (n % 128) + ((n \div 128) % 128) * 128 + ((n \div 16384) % 128) * 16384 = n
        /\ n < 268435456 => (n % 128) + ((n \div 128) % 128) * 128 + ((n \div 16384) % 128) * 16384
                              + ((n \div 2097152) % 128) * 2097152 = n
<1>1. PICK a \in Nat : a = n \div 128
  BY SMT
<1>2. PICK b \in Nat : b = a \div 128
  BY SMT
<1>3. PICK c \in Nat : c = b \div 128
  BY SMT
<1>4. n = 128 * a + (n % 128) /\ a = 128 * b + (a % 128) /\ b = 128 * c + (b % 128)
  BY <1>1, <1>2, <1>3, SMT
<1>5. n \div 16384 = b
  BY <1>1, <1>2, SMT
<1>6. n \div 2097152 = c
  BY <1>1, <1>2, <1>3, SMT
<1>7. n < 128 => n % 128 = n
  BY SMT
<1>8. n < 16384 => a % 128 = a
  BY <1>1, SMT
<1>9. n < 2097152 => b % 128 = b
  BY <1>1, <1>2, SMT
<1>10. n < 268435456 => c % 128 = c
  BY <1>1, <1>2, <1>3, SMT
<1> QED
  BY <1>1, <1>4, <1>5, <1>6, <1>7, <1>8, <1>9, <1>10, SMT

(* MQTTPacket_decode stops where MQTTPacket_encode ended, whatever follows *)
(* on the line, and the seven bits of the bytes it took make the length    *)
(* that was written.                                                       *)
THEOREM LengthOnTheWire ==
  ASSUME NEW n \in Nat, NEW rest \in Seq(Byte)
  PROVE LET e == Encode(n)
            Part(i) == IF i <= Digits(n) THEN (e[i] % 128) * 128 ^ (i - 1) ELSE 0
        IN /\ DecodeBuf(e \o rest).used = Digits(n)
           /\ n < 128 ^ 4 => Part(1) + Part(2) + Part(3) + Part(4) = n
<1> DEFINE e == Encode(n)
           d == Digits(n)
           b == e \o rest
           digits == IF Len(b) < 4 THEN b ELSE SubSeq(b, 1, 4)
           I == {i \in 1 .. Len(digits) : Last7(digits[i])}
           T == 128 ^ 3
           Part(i) == IF i <= d THEN (e[i] % 128) * 128 ^ (i - 1) ELSE 0
<1>1. d \in 1 .. 4 /\ e \in Seq(Byte) /\ Len(e) = d
  BY EncodeType, Zenon
<1>2. b \in Seq(Byte) /\ Len(b) = d + Len(rest) /\ \A i \in 1 .. d : b[i] = e[i]
  <2> HIDE DEF e, d
  <2> QED
    BY <1>1, Joined
<1>5. \A i \in 1 .. d : e[i] % 128 = (n \div Weight(i)) % 128 /\ (Last7(e[i]) <=> i = d)
  BY EncodeType, Zenon
<1>6. DecodeBuf(b).used = d
  <2>1. digits \in Seq(Byte) /\ Len(digits) \in d .. 4 /\ \A i \in 1 .. d : digits[i] = e[i]
    <3> HIDE DEF e, b, d, Byte
    <3> QED
      BY <1>1, <1>2, SMT
  <2>2. I \in SUBSET Int /\ d \in I /\ \A i \in I : d <= i
    <3> HIDE DEF e, d, digits, Last7
    <3> QED
      BY <1>1, <1>5, <2>1, SMT
  <2>3. I # {} /\ Min(I) = d
    <3> HIDE DEF I, d
    <3> QED
      BY <2>2, LeastIs
  <2>4. SelectInSeq(digits, Last7) = d
    BY <2>3, Zenon DEF SelectInSeq
  <2>5. d # 0
    BY <1>1, SMT
  <2>6. DecodeBuf(b).used = IF SelectInSeq(digits, Last7) = 0 THEN 5 ELSE SelectInSeq(digits, Last7)
    BY SMT DEF DecodeBuf
  <2> HIDE DEF d, digits
  <2> QED
    BY <2>4, <2>5, <2>6, Zenon
<1>7. n < 128 ^ 4 => Part(1) + Part(2) + Part(3) + Part(4) = n
  <2>1. d = IF n < 128 THEN 1 ELSE IF n < 16384 THEN 2 ELSE IF n < T THEN 3 ELSE 4
    BY DigitsOf
  <2>2. 128 ^ 4 = 128 * T /\ T = 2097152
    BY SMT
  <2>3. \A i \in 1 .. 4 : Part(i) = IF i <= d THEN ((n \div Weight(i)) % 128) * Weight(i) ELSE 0
    <3> SUFFICES ASSUME NEW i \in 1 .. 4
                 PROVE Part(i) = IF i <= d THEN ((n \div Weight(i)) % 128) * Weight(i) ELSE 0
      BY Zenon
    <3>1. 128 ^ (i - 1) = Weight(i)
      BY Weights, Zenon
    <3>2. i <= d => e[i] % 128 = (n \div Weight(i)) % 128
      <4> HIDE DEF d, e
      <4> QED
        BY <1>1, <1>5, SMT
    <3> QED
      BY <3>1, <3>2, Zenon
  <2> HIDE DEF d, e, Part
  <2>4. Part(1) = n % 128
    BY <1>1, <2>3, SMT DEF Weight
  <2>5. Part(2) = IF d >= 2 THEN ((n \div 128) % 128) * 128 ELSE 0
    BY <1>1, <2>3, SMT DEF Weight
  <2>6. Part(3) = IF d >= 3 THEN ((n \div 16384) % 128) * 16384 ELSE 0
    BY <1>1, <2>3, SMT DEF Weight
  <2>7. Part(4) = IF d >= 4 THEN ((n \div 2097152) % 128) * 2097152 ELSE 0
    BY <1>1, <2>3, SMT DEF Weight
  <2> SUFFICES ASSUME n < 128 ^ 4 PROVE Part(1) + Part(2) + Part(3) + Part(4) = n
    BY Zenon
  <2> HIDE DEF T
  <2>8. n < 268435456
    BY <2>2, SMT
  <2>9. Part(1) \in Nat /\ Part(2) \in Nat /\ Part(3) \in Nat /\ Part(4) \in Nat
    BY <2>4, <2>5, <2>6, <2>7, SMT
  <2>10. CASE n < 128
    BY <2>1, <2>4, <2>5, <2>6, <2>7, <2>10, SevenBits, SMT
  <2>11. CASE n >= 128 /\ n < 16384
    BY <2>1, <2>4, <2>5, <2>6, <2>7, <2>11, SevenBits, SMT
  <2>12. CASE n >= 16384 /\ n < T
    BY <2>1, <2>2, <2>4, <2>5, <2>6, <2>7, <2>12, SevenBits, SMT
  <2>13. CASE n >= T
    BY <2>1, <2>2, <2>4, <2>5, <2>6, <2>7, <2>8, <2>13, SevenBits, SMT
  <2> QED
    BY <2>2, <2>10, <2>11, <2>12, <2>13, SMT
<1> QED
  BY <1>6, <1>7, Zenon

Int2Max == 65535      \* the most two bytes hold

(* A number of two bytes, high one first, is read back.                    *)
LEMMA IntOnTheWire ==
  ASSUME NEW n \in Nat, n <= Int2Max, NEW rest \in Seq(Byte)
  PROVE /\ Int2(n) \in Seq(Byte) /\ Len(Int2(n)) = 2
        /\ ReadInt(Int2(n)) = n /\ ReadInt(Int2(n) \o rest) = n
<1>1. n \div 256 \in Byte /\ n % 256 \in Byte /\ (n \div 256) * 256 + (n % 256) = n
  BY SMT DEF Byte, Int2Max
<1>2. PICK h \in Byte, l \in Byte : h = n \div 256 /\ l = n % 256
  <2> HIDE DEF Byte
  <2> QED
    BY <1>1
<1>3. Int2(n) = <<h, l>> /\ h * 256 + l = n
  BY <1>1, <1>2 DEF Int2
<1>4. <<h, l>> \in Seq(Byte) /\ Len(<<h, l>>) = 2 /\ <<h, l>>[1] = h /\ <<h, l>>[2] = l
  <2> HIDE DEF Byte
  <2> QED
    BY <1>2, SMT
<1>5. (<<h, l>> \o rest)[1] = h /\ (<<h, l>> \o rest)[2] = l
  <2> HIDE DEF Byte
  <2> QED
    BY <1>2, SMT
<1> QED
  <2>1. Int2(n) \in Seq(Byte) /\ Len(Int2(n)) = 2
    BY <1>3, <1>4, Zenon
  <2>2. ReadInt(Int2(n)) = n
    BY <1>3, <1>4, Zenon DEF ReadInt
  <2>3. ReadInt(Int2(n) \o rest) = n
    BY <1>3, <1>5, Zenon DEF ReadInt
  <2> QED
    BY <2>1, <2>2, <2>3

(* A text is written with its length before it.                            *)
LEMMA StrType ==
  ASSUME NEW s \in Seq(Byte), Len(s) <= Int2Max
  PROVE /\ Str(s) \in Seq(Byte) /\ Len(Str(s)) = 2 + Len(s)
        /\ \A t \in Seq(Byte) : ReadInt(Str(s) \o t) = Len(s)
        /\ \A i \in 1 .. Len(s) : Str(s)[2 + i] = s[i]
<1>1. Len(s) \in Nat
  BY SMT
<1>2. /\ Int2(Len(s)) \in Seq(Byte) /\ Len(Int2(Len(s))) = 2
      /\ \A r \in Seq(Byte) : ReadInt(Int2(Len(s)) \o r) = Len(s)
  BY <1>1, IntOnTheWire, Zenon
<1>3. PICK h \in Seq(Byte) : h = Int2(Len(s)) /\ Len(h) = 2
  BY <1>2, Zenon
<1>4. Str(s) = h \o s
  BY <1>3, Zenon DEF Str
<1> HIDE DEF Byte
<1>5. h \o s \in Seq(Byte) /\ Len(h \o s) = 2 + Len(s) /\ \A i \in 1 .. Len(s) : (h \o s)[2 + i] = s[i]
  <2>1. /\ h \o s \in Seq(Byte) /\ Len(h \o s) = Len(h) + Len(s)
        /\ \A i \in 1 .. Len(s) : (h \o s)[Len(h) + i] = s[i]
    BY Joined, Zenon
  <2> QED
    BY <1>3, <2>1, Zenon
<1>6. \A t \in Seq(Byte) : (h \o s) \o t = h \o (s \o t) /\ s \o t \in Seq(Byte)
  <2> TAKE t \in Seq(Byte)
  <2>1. s \o t \in Seq(Byte)
    BY SMT
  <2>2. (h \o s) \o t = h \o (s \o t)
    BY <1>3, ConcatAssociative
  <2> QED
    BY <2>1, <2>2, Zenon
<1>7. \A t \in Seq(Byte) : ReadInt((h \o s) \o t) = Len(s)
  <2> TAKE t \in Seq(Byte)
  <2>1. ReadInt(h \o (s \o t)) = Len(s)
    BY <1>2, <1>3, <1>6, Zenon
  <2>2. (h \o s) \o t = h \o (s \o t)
    BY <1>6, Zenon
  <2> QED
    BY <2>1, <2>2, Zenon
<1> QED
  BY <1>4, <1>5, <1>7, Zenon

(* A part of a sequence of bytes.                                          *)
LEMMA PartOf ==
  ASSUME NEW b \in Seq(Byte), NEW m \in Nat \ {0}, NEW n \in Nat, n <= Len(b),
         NEW k \in Nat, k = n - m + 1
  PROVE /\ SubSeq(b, m, n) \in Seq(Byte) /\ Len(SubSeq(b, m, n)) = k
        /\ \A i \in 1 .. k : SubSeq(b, m, n)[i] = b[m + i - 1]
<1> HIDE DEF Byte
<1>1. \A i \in m .. n : b[i] \in Byte
  BY SMT
<1>2. m \in Int /\ n \in Int
  BY SMT
<1>3. /\ SubSeq(b, m, n) \in Seq(Byte)
      /\ Len(SubSeq(b, m, n)) = IF m <= n THEN n - m + 1 ELSE 0
      /\ \A i \in 1 .. n - m + 1 : SubSeq(b, m, n)[i] = b[m + i - 1]
  BY <1>1, <1>2, SubSeqProperties
<1> QED
  BY <1>3, SMT

(* A text that was written is read back, whatever follows it, and what     *)
(* follows is left: readMQTTLenString after writeMQTTString.               *)
THEOREM TextOnTheWire ==
  ASSUME NEW s \in Seq(Byte), Len(s) <= Int2Max, NEW rest \in Seq(Byte), NEW texts \in Seq(Seq(Byte))
  PROVE ReadStr([ok |-> TRUE, texts |-> texts, rest |-> Str(s) \o rest])
          = [ok |-> TRUE, texts |-> Append(texts, s), rest |-> rest]
<1> DEFINE w == Str(s)
           b == w \o rest
           p == [ok |-> TRUE, texts |-> texts, rest |-> b]
           n == Len(s)
<1>1. w \in Seq(Byte) /\ Len(w) = 2 + n /\ ReadInt(b) = n /\ \A i \in 1 .. n : w[2 + i] = s[i]
  BY StrType
<1> HIDE DEF w, Byte
<1>2. /\ b \in Seq(Byte) /\ Len(b) = Len(w) + Len(rest)
      /\ \A i \in 1 .. Len(w) : b[i] = w[i]
      /\ \A i \in 1 .. Len(rest) : b[Len(w) + i] = rest[i]
  BY <1>1, Joined, Zenon
<1>3. /\ n \in Nat /\ Len(rest) \in Nat /\ Len(b) = n + 2 + Len(rest)
      /\ \A i \in 1 .. n : b[2 + i] = s[i]
      /\ \A i \in 1 .. Len(rest) : b[n + 2 + i] = rest[i]
  <2>1. n \in Nat /\ Len(rest) \in Nat
    BY SMT
  <2> HIDE DEF b, n
  <2>2. \A i \in 1 .. n : 2 + i \in 1 .. Len(w)
    BY <1>1, <2>1, SMT
  <2>3. \A i \in 1 .. n : b[2 + i] = s[i]
    BY <1>1, <1>2, <2>2, Zenon
  <2>4. Len(b) = n + 2 + Len(rest) /\ Len(w) = n + 2
    BY <1>1, <1>2, <2>1, SMT
  <2> QED
    BY <1>2, <2>1, <2>3, <2>4, Zenon
<1> HIDE DEF b, n
<1>4. SubSeq(b, 3, n + 2) = s
  <2>1. 3 \in Nat \ {0} /\ n + 2 \in Nat /\ n + 2 <= Len(b) /\ n \in Nat /\ n = (n + 2) - 3 + 1
    BY <1>3, SMT
  <2>2. /\ SubSeq(b, 3, n + 2) \in Seq(Byte) /\ Len(SubSeq(b, 3, n + 2)) = n
        /\ \A i \in 1 .. n : SubSeq(b, 3, n + 2)[i] = b[3 + i - 1]
    BY <1>2, <2>1, PartOf
  <2>3. \A i \in 1 .. n : 3 + i - 1 = 2 + i
    BY SMT
  <2>4. \A i \in 1 .. Len(SubSeq(b, 3, n + 2)) : SubSeq(b, 3, n + 2)[i] = s[i]
    BY <1>3, <2>2, <2>3, Zenon
  <2> QED
    BY <2>2, <2>4, SeqEqual, Zenon DEF n
<1>5. SubSeq(b, n + 3, Len(b)) = rest
  <2>1. PICK k \in Nat : k = Len(rest)
    BY <1>3, Zenon
  <2>2. n + 3 \in Nat \ {0} /\ Len(b) \in Nat /\ Len(b) <= Len(b) /\ k = Len(b) - (n + 3) + 1
    BY <1>3, <2>1, SMT
  <2>3. /\ SubSeq(b, n + 3, Len(b)) \in Seq(Byte) /\ Len(SubSeq(b, n + 3, Len(b))) = k
        /\ \A i \in 1 .. k : SubSeq(b, n + 3, Len(b))[i] = b[n + 3 + i - 1]
    <3> HIDE DEF p
    <3>1. PICK m \in Nat \ {0} : m = n + 3
      BY <2>2, Zenon
    <3>2. k = Len(b) - m + 1
      BY <2>2, <3>1, Zenon
    <3>3. /\ SubSeq(b, m, Len(b)) \in Seq(Byte) /\ Len(SubSeq(b, m, Len(b))) = k
          /\ \A i \in 1 .. k : SubSeq(b, m, Len(b))[i] = b[m + i - 1]
      BY <1>2, <2>2, <3>2, PartOf
    <3> QED
      BY <3>1, <3>3, Zenon
  <2>4. \A i \in 1 .. k : n + 3 + i - 1 = n + 2 + i
    BY <1>3, SMT
  <2>5. \A i \in 1 .. Len(SubSeq(b, n + 3, Len(b))) : SubSeq(b, n + 3, Len(b))[i] = rest[i]
    BY <1>3, <2>1, <2>3, <2>4, Zenon
  <2> QED
    BY <2>1, <2>3, <2>5, SeqEqual, Zenon
<1>6. ReadInt(b) = n
  BY <1>1, Zenon DEF b, n
<1>7. p.ok /\ Len(p.rest) >= 2 /\ Len(p.rest) >= 2 + ReadInt(p.rest)
  BY <1>3, <1>6, SMT
<1>8. ReadStr(p) = [ok |-> TRUE, texts |-> Append(texts, SubSeq(b, 3, n + 2)), rest |-> From(b, n + 3)]
  <2>1. p.ok /\ p.rest = b /\ p.texts = texts
    BY Zenon
  <2> HIDE DEF p
  <2> QED
    BY <1>7, <1>6, <2>1, Zenon DEF ReadStr
<1>9. ReadStr(p) = [ok |-> TRUE, texts |-> Append(texts, s), rest |-> rest]
  BY <1>4, <1>5, <1>8, Zenon DEF From
<1> QED
  BY <1>9, Zenon DEF p, b, w

(* Whatever bytes came: a text that is read, and what is left after it,    *)
(* lie within them, one after the other; MQTT's reader never goes beyond   *)
(* the end of its data, however long the text says it is.                  *)
THEOREM NeverBeyondTheData ==
  ASSUME NEW b \in Seq(Byte), NEW texts \in Seq(Seq(Byte))
  PROVE LET r == ReadStr([ok |-> TRUE, texts |-> texts, rest |-> b])
        IN r.ok => \E s \in Seq(Byte) :
                      /\ r.texts = Append(texts, s) /\ r.rest \in Seq(Byte)
                      /\ Len(b) = 2 + Len(s) + Len(r.rest)
                      /\ \A i \in 1 .. Len(s) : s[i] = b[2 + i]
                      /\ \A i \in 1 .. Len(r.rest) : r.rest[i] = b[2 + Len(s) + i]
<1> DEFINE p == [ok |-> TRUE, texts |-> texts, rest |-> b]
           r == ReadStr(p)
           n == ReadInt(b)
           s == SubSeq(b, 3, n + 2)
           t == SubSeq(b, n + 3, Len(b))
           Fits == Len(b) >= 2 /\ Len(b) >= 2 + n
<1>1. CASE ~ Fits
  <2>1. r = [p EXCEPT !.ok = FALSE]
    BY <1>1, SMT DEF ReadStr
  <2>2. r.ok = FALSE
    BY <2>1, SMT
  <2> QED
    BY <2>2, Zenon
<1>2. CASE Fits
  <2>1. r = [ok |-> TRUE, texts |-> Append(texts, s), rest |-> t]
    <3>1. p.ok = TRUE /\ p.texts = texts /\ p.rest = b
      BY SMT
    <3> HIDE DEF p
    <3> QED
      BY <1>2, <3>1, Zenon DEF ReadStr, From
  <2>2. n \in Nat /\ Len(b) \in Nat /\ n + 2 <= Len(b)
    <3>1. Len(b) >= 2 /\ Len(b) >= 2 + n
      BY <1>2, Zenon
    <3>2. b[1] \in Byte /\ b[2] \in Byte /\ Len(b) \in Nat
      <4> HIDE DEF Byte, n
      <4> QED
        BY <3>1, SMT
    <3>3. \A x \in Byte, y \in Byte : x * 256 + y \in Nat
      BY SMT DEF Byte
    <3>4. n \in Nat
      BY <3>2, <3>3, Zenon DEF ReadInt
    <3> HIDE DEF n
    <3> QED
      BY <3>1, <3>2, <3>4, SMT
  <2> HIDE DEF n, r, p, Fits
  <2>3. s \in Seq(Byte) /\ Len(s) = n /\ \A i \in 1 .. n : s[i] = b[2 + i]
    <3>1. 3 \in Nat \ {0} /\ n + 2 \in Nat /\ n = (n + 2) - 3 + 1
      BY <2>2, SMT
    <3>2. s \in Seq(Byte) /\ Len(s) = n /\ \A i \in 1 .. n : s[i] = b[3 + i - 1]
      BY <2>2, <3>1, PartOf
    <3>3. \A i \in 1 .. n : 3 + i - 1 = 2 + i
      BY SMT
    <3> QED
      BY <3>2, <3>3, Zenon
  <2>4. t \in Seq(Byte) /\ Len(b) = 2 + n + Len(t) /\ \A i \in 1 .. Len(t) : t[i] = b[2 + n + i]
    <3>1. PICK k \in Nat : k = Len(b) - (n + 3) + 1
      <4>1. Len(b) - (n + 3) + 1 \in Nat
        <5> HIDE DEF s, t
        <5> QED
          BY <2>2, SMT
      <4> QED
        BY <4>1, Zenon
    <3>2. n + 3 \in Nat \ {0} /\ Len(b) <= Len(b)
      BY <2>2, SMT
    <3>3. t \in Seq(Byte) /\ Len(t) = k /\ \A i \in 1 .. k : t[i] = b[n + 3 + i - 1]
      BY <2>2, <3>1, <3>2, PartOf
    <3> HIDE DEF t
    <3>4. \A i \in 1 .. k : n + 3 + i - 1 = 2 + n + i
      BY <2>2, SMT
    <3>5. Len(b) = 2 + n + Len(t)
      BY <2>2, <3>1, <3>3, SMT
    <3> QED
      BY <3>3, <3>4, <3>5, Zenon
  <2> HIDE DEF s, t
  <2>5. r.texts = Append(texts, s) /\ r.rest = t
    BY <2>1, SMT
  <2>6. \E x \in Seq(Byte) :
          /\ r.texts = Append(texts, x) /\ r.rest \in Seq(Byte)
          /\ Len(b) = 2 + Len(x) + Len(r.rest)
          /\ \A i \in 1 .. Len(x) : x[i] = b[2 + i]
          /\ \A i \in 1 .. Len(r.rest) : r.rest[i] = b[2 + Len(x) + i]
    BY <2>3, <2>4, <2>5, Zenon
  <2> QED
    BY <2>6, Zenon DEF r, p
<1> QED
  BY <1>1, <1>2, Zenon

-----------------------------------------------------------------------------
(* Times.                                                                  *)

(* A time as EJ_time_set takes it.                                         *)
Times == [year : Nat, mon : Nat, mday : Nat, hour : Nat, min : Nat, sec : Nat, wday : Nat]

(* The clock of the board, which counts its months from 1.                 *)
Clocks == [sec : Nat, min : Nat, hour : Nat, day : Nat, mon : Nat, week : Nat, year : Nat]

(* EJ_time_get gives back what EJ_time_set was given when that is a date,  *)
(* the 29th of February of a leap year or the last day of a month as well; *)
(* when it is none, the clock goes on as it was.                           *)
THEOREM ClockKeepsTheDate ==
  ASSUME NEW clock \in Clocks, NEW tm \in Times
  PROVE /\ Validate(tm) => EJ_time_get(EJ_time_set(clock, tm)) = tm
        /\ ~ Validate(tm) => EJ_time_set(clock, tm) = clock
<1>1. ASSUME Validate(tm) PROVE EJ_time_get(EJ_time_set(clock, tm)) = tm
  <2> DEFINE c == [sec |-> tm.sec, min |-> tm.min, hour |-> tm.hour, day |-> tm.mday,
                   mon |-> tm.mon + 1, week |-> tm.wday, year |-> tm.year]
  <2>1. EJ_time_set(clock, tm) = c
    BY <1>1, Zenon DEF EJ_time_set
  <2>2. EJ_time_get(c) = [sec |-> tm.sec, min |-> tm.min, hour |-> tm.hour, mday |-> tm.mday,
                          mon |-> tm.mon, wday |-> tm.wday, year |-> tm.year]
    BY SMT DEF EJ_time_get, Times
  <2>3. tm = [sec |-> tm.sec, min |-> tm.min, hour |-> tm.hour, mday |-> tm.mday,
              mon |-> tm.mon, wday |-> tm.wday, year |-> tm.year]
    BY SMT DEF Times
  <2> QED
    BY <2>1, <2>2, <2>3, Zenon
<1>2. ASSUME ~ Validate(tm) PROVE EJ_time_set(clock, tm) = clock
  BY <1>2, Zenon DEF EJ_time_set
<1> QED
  BY <1>1, <1>2, Zenon

(* The same through the seven bytes of EJ_Wlan_set_time.                   *)
THEOREM WlanClockKeepsTheDate ==
  ASSUME NEW clock \in Clocks,
         NEW sec \in Nat, NEW min \in Nat, NEW hour \in Nat, NEW wday \in Nat, NEW mday \in Nat,
         NEW mon \in Nat, NEW year \in Nat
  PROVE LET a == <<sec, min, hour, wday, mday, mon, year>>
            tm == [sec |-> sec, min |-> min, hour |-> hour, wday |-> wday, mday |-> mday,
                   mon |-> mon, year |-> year]
        IN /\ Validate(tm) => EJ_Wlan_get_time(EJ_Wlan_set_time(clock, a)) = a
           /\ ~ Validate(tm) => EJ_Wlan_set_time(clock, a) = clock
<1> DEFINE a == <<sec, min, hour, wday, mday, mon, year>>
           tm == [sec |-> sec, min |-> min, hour |-> hour, wday |-> wday, mday |-> mday,
                  mon |-> mon, year |-> year]
<1>1. EJ_Wlan_set_time(clock, a) = EJ_time_set(clock, tm)
  BY SMT DEF EJ_Wlan_set_time
<1>2. tm \in Times
  BY SMT DEF Times
<1>3. tm.sec = sec /\ tm.min = min /\ tm.hour = hour /\ tm.wday = wday /\ tm.mday = mday
      /\ tm.mon = mon /\ tm.year = year
  BY SMT
<1> HIDE DEF tm
<1>4. /\ Validate(tm) => EJ_time_get(EJ_time_set(clock, tm)) = tm
      /\ ~ Validate(tm) => EJ_time_set(clock, tm) = clock
  BY <1>2, ClockKeepsTheDate, Zenon
<1>5. ASSUME EJ_time_get(EJ_time_set(clock, tm)) = tm
      PROVE EJ_Wlan_get_time(EJ_time_set(clock, tm)) = a
  BY <1>3, <1>5, Zenon DEF EJ_Wlan_get_time
<1> QED
  BY <1>1, <1>4, <1>5, Zenon DEF tm

(* A timer of the MQTT client that is started at start for timeout runs    *)
(* out just when so much time has passed, and tells how much is left,      *)
(* until the counter of the board starts again from 0 (after 2^27          *)
(* milliseconds, a day and a half).  A timer that should end after that    *)
(* never runs out.                                                         *)
THEOREM TimerCountsDown ==
  ASSUME NEW start \in Nat, NEW timeout \in Nat, NEW passed \in Nat
  PROVE LET end == CountdownMs(Now(start), timeout)
            now == Now(start + passed)
        IN /\ (start % Lap) + passed < Lap =>
                 /\ Expired(end, now) <=> passed >= timeout
                 /\ LeftMs(end, now) = IF passed >= timeout THEN 0 ELSE timeout - passed
           /\ (start % Lap) + timeout >= Lap => ~ Expired(end, now) /\ LeftMs(end, now) > 0
<1>1. PICK s \in Nat : s = Now(start)
  BY SMT DEF Now, Lap
<1>2. PICK now \in Nat : now = Now(start + passed)
  BY SMT DEF Now, Lap
<1>3. now < Lap
  BY <1>2, SMT DEF Now, Lap
<1>4. s + passed < Lap => now = s + passed
  BY <1>1, <1>2, SMT DEF Now, Lap
<1>5. s = start % Lap
  BY <1>1, Zenon DEF Now
<1>6. Lap \in Nat
  BY SMT DEF Lap
<1>7. /\ s + passed < Lap =>
           /\ Expired(s + timeout, now) <=> passed >= timeout
           /\ LeftMs(s + timeout, now) = IF passed >= timeout THEN 0 ELSE timeout - passed
      /\ s + timeout >= Lap => ~ Expired(s + timeout, now) /\ LeftMs(s + timeout, now) > 0
  BY <1>3, <1>4, <1>6, SMT DEF Expired, LeftMs
<1> QED
  BY <1>1, <1>2, <1>5, <1>7, Zenon DEF CountdownMs

(* The day after: mon counts from 0 as in a time, and the last day of a    *)
(* month is what sec_per_month says of it.                                 *)
DaysIn(y, mon) == SecPerMonth(y)[mon] \div SecPerDay
DayAfter(y, mon, day) ==
  IF day < DaysIn(y, mon) THEN [y |-> y, mon |-> mon, day |-> day + 1]
  ELSE IF mon < 11 THEN [y |-> y, mon |-> mon + 1, day |-> 1]
  ELSE [y |-> y + 1, mon |-> 0, day |-> 1]

(* The lengths of the months.                                              *)
LEMMA MonthLengths ==
  ASSUME NEW y \in Nat
  PROVE \A mon \in 0 .. 11 :
           DaysIn(y, mon) = IF mon = 1 THEN (IF IsLeap(y) THEN 29 ELSE 28)
                            ELSE IF mon \in {3, 5, 8, 10} THEN 30 ELSE 31
<1> SUFFICES ASSUME NEW mon \in 0 .. 11
             PROVE DaysIn(y, mon) = IF mon = 1 THEN (IF IsLeap(y) THEN 29 ELSE 28)
                                    ELSE IF mon \in {3, 5, 8, 10} THEN 30 ELSE 31
  BY Zenon
<1>1. CASE mon = 1
  BY <1>1, SMT DEF DaysIn, SecPerMonth, SecPerDay
<1>2. CASE mon \in {3, 5, 8, 10}
  BY <1>2, SMT DEF DaysIn, SecPerMonth, SecPerDay
<1>3. CASE mon # 1 /\ mon \notin {3, 5, 8, 10}
  BY <1>3, SMT DEF DaysIn, SecPerMonth, SecPerDay
<1> QED
  BY <1>1, <1>2, <1>3, Zenon

(* The leap days before a year, and the one in it.                         *)
LEMMA LeapDays ==
  ASSUME NEW y \in Nat \ {0}
  PROVE (y \div 4) - (y \div 100) + (y \div 400)
          = ((y - 1) \div 4) - ((y - 1) \div 100) + ((y - 1) \div 400) + (IF IsLeap(y) THEN 1 ELSE 0)
<1>1. (y \div 4) = ((y - 1) \div 4) + (IF y % 4 = 0 THEN 1 ELSE 0)
  BY SMT
<1>2. (y \div 100) = ((y - 1) \div 100) + (IF y % 100 = 0 THEN 1 ELSE 0)
  BY SMT
<1>3. (y \div 400) = ((y - 1) \div 400) + (IF y % 400 = 0 THEN 1 ELSE 0)
  BY SMT
<1>4. (y % 100 = 0 => y % 4 = 0) /\ (y % 400 = 0 => y % 100 = 0)
  BY SMT
<1> QED
  BY <1>1, <1>2, <1>3, <1>4, SMT DEF IsLeap

(* What day_of_week_get adds up, before it takes the rest by 7.            *)
MonthDays(month) ==
  IF month \in {1, 5} THEN 0 ELSE IF month \in {2, 6} THEN 3 ELSE IF month \in {3, 11} THEN 2
  ELSE IF month \in {4, 7} THEN 5 ELSE IF month = 8 THEN 1 ELSE IF month \in {9, 12} THEN 4 ELSE 6
DaysSum(month, day, y) ==
  LET year == IF month < 3 THEN y - 1 ELSE y
  IN year + ((year \div 4) - (year \div 100) + (year \div 400)) + MonthDays(month) + day

(* The day of the week is the rest of that sum.                            *)
LEMMA WeekdayIs ==
  ASSUME NEW y \in Nat \ {0}, NEW month \in 1 .. 12, NEW day \in Nat
  PROVE DaysSum(month, day, y) \in Nat /\ DayOfWeek(month, day, y) = DaysSum(month, day, y) % 7
<1> DEFINE t == <<0, 3, 2, 5, 0, 3, 5, 1, 4, 6, 2, 4>>
           year == IF month < 3 THEN y - 1 ELSE y
<1>1. t[month] = MonthDays(month) /\ MonthDays(month) \in Nat
  <2>1. CASE month \in 1 .. 4
    BY <2>1, SMT DEF MonthDays
  <2>2. CASE month \in 5 .. 8
    BY <2>2, SMT DEF MonthDays
  <2>3. CASE month \in 9 .. 12
    BY <2>3, SMT DEF MonthDays
  <2> QED
    BY <2>1, <2>2, <2>3, SMT
<1>2. DayOfWeek(month, day, y)
        = (year + (year \div 4) - (year \div 100) + (year \div 400) + t[month] + day) % 7
  BY Zenon DEF DayOfWeek
<1>3. year \in Nat /\ (year \div 4) \in Nat /\ (year \div 100) \in Nat /\ (year \div 400) \in Nat
      /\ (year \div 100) <= (year \div 4)
  BY SMT
<1>4. DaysSum(month, day, y)
        = year + ((year \div 4) - (year \div 100) + (year \div 400)) + MonthDays(month) + day
  BY Zenon DEF DaysSum
<1> HIDE DEF t, year
<1> QED
  BY <1>1, <1>2, <1>3, <1>4, SMT

(* The day after is the next day of the week: over the end of every month, *)
(* of February in leap years and others, and of the year; and the 1st of   *)
(* January 1970 was a Thursday.  So every date from then on has the day of *)
(* the week it has in the calendar.                                        *)
THEOREM WeekdayFollowsCalendar ==
  /\ DayOfWeek(1, 1, EPOCH_YR) = 4
  /\ \A y \in Nat \ {0}, mon \in 0 .. 11 : \A day \in 1 .. DaysIn(y, mon) :
        LET next == DayAfter(y, mon, day)
        IN DayOfWeek(next.mon + 1, next.day, next.y) = (DayOfWeek(mon + 1, day, y) + 1) % 7
<1>1. DayOfWeek(1, 1, EPOCH_YR) = 4
  <2>1. DaysSum(1, 1, EPOCH_YR) = 2447
    BY SMT DEF DaysSum, MonthDays, EPOCH_YR
  <2>2. EPOCH_YR \in Nat \ {0} /\ 1 \in 1 .. 12 /\ 1 \in Nat
    BY SMT DEF EPOCH_YR
  <2>3. DayOfWeek(1, 1, EPOCH_YR) = DaysSum(1, 1, EPOCH_YR) % 7
    BY <2>2, WeekdayIs, Zenon
  <2> QED
    BY <2>1, <2>3, SMT
<1>2. ASSUME NEW y \in Nat \ {0}, NEW mon \in 0 .. 11, NEW day \in 1 .. DaysIn(y, mon)
      PROVE LET next == DayAfter(y, mon, day)
            IN DayOfWeek(next.mon + 1, next.day, next.y) = (DayOfWeek(mon + 1, day, y) + 1) % 7
  <2> DEFINE last == DaysIn(y, mon)
  <2>1. last = IF mon = 1 THEN (IF IsLeap(y) THEN 29 ELSE 28)
               ELSE IF mon \in {3, 5, 8, 10} THEN 30 ELSE 31
    BY MonthLengths, Zenon
  <2>2. last \in Nat
    <3> HIDE DEF last
    <3> QED
      BY <2>1, SMT
  <2> HIDE DEF last
  <2>3. day \in Nat /\ 1 <= day /\ day <= last
    <3>1. day \in 1 .. last
      BY Zenon DEF last
    <3> QED
      BY <2>2, <3>1, SMT
  <2>4. DayOfWeek(mon + 1, day, y) = DaysSum(mon + 1, day, y) % 7 /\ DaysSum(mon + 1, day, y) \in Nat
    <3>1. mon + 1 \in 1 .. 12
      BY SMT
    <3> QED
      BY <2>3, <3>1, WeekdayIs, Zenon
  <2>5. \A a \in Nat, b \in Nat : a % 7 = (b + 1) % 7 => a % 7 = ((b % 7) + 1) % 7
    BY SMT
  <2>6. CASE day < last
    <3>1. DayAfter(y, mon, day) = [y |-> y, mon |-> mon, day |-> day + 1]
      BY <2>6, Zenon DEF DayAfter, last
    <3>2. mon + 1 \in 1 .. 12 /\ day + 1 \in Nat
      BY <2>3, SMT
    <3>3. /\ DayOfWeek(mon + 1, day + 1, y) = DaysSum(mon + 1, day + 1, y) % 7
          /\ DaysSum(mon + 1, day + 1, y) \in Nat
      BY <3>2, WeekdayIs, Zenon
    <3>4. DaysSum(mon + 1, day + 1, y) = DaysSum(mon + 1, day, y) + 1
      BY <2>3, SMT DEF DaysSum, MonthDays
    <3>5. DayOfWeek(mon + 1, day + 1, y) = (DayOfWeek(mon + 1, day, y) + 1) % 7
      BY <2>4, <2>5, <3>3, <3>4, SMT
    <3> QED
      BY <3>1, <3>5, SMT
  <2>7. CASE ~ day < last /\ mon < 11
    <3>1. DayAfter(y, mon, day) = [y |-> y, mon |-> mon + 1, day |-> 1]
      BY <2>7, Zenon DEF DayAfter, last
    <3>2. mon + 1 + 1 \in 1 .. 12 /\ 1 \in Nat /\ day = last
      BY <2>2, <2>3, <2>7, SMT
    <3>3. /\ DayOfWeek(mon + 1 + 1, 1, y) = DaysSum(mon + 1 + 1, 1, y) % 7
          /\ DaysSum(mon + 1 + 1, 1, y) \in Nat
      BY <3>2, WeekdayIs, Zenon
    <3>4. \E k \in {28, 35} : DaysSum(mon + 1 + 1, 1, y) + k = DaysSum(mon + 1, day, y) + 1
      <4>1. CASE mon = 1
        <5>1. last = 28 + (IF IsLeap(y) THEN 1 ELSE 0)
          BY <2>1, <4>1, SMT
        <5>2. DaysSum(mon + 1 + 1, 1, y) + 28 = DaysSum(mon + 1, day, y) + 1
          BY <3>2, <4>1, <5>1, LeapDays, SMT DEF DaysSum, MonthDays
        <5> QED
          BY <5>2, Zenon
      <4>2. CASE mon # 1
        <5> DEFINE k == IF mon \in {3, 6, 9} THEN 35 ELSE 28
        <5>1. last = IF mon \in {3, 5, 8, 10} THEN 30 ELSE 31
          BY <2>1, <4>2, Zenon
        <5>2. MonthDays(mon + 1 + 1) + k = MonthDays(mon + 1) + last
          BY <2>7, <4>2, <5>1, SMT DEF MonthDays
        <5>3. mon + 1 + 1 < 3 <=> mon + 1 < 3
          BY <4>2, SMT
        <5>4. MonthDays(mon + 1) \in Nat /\ MonthDays(mon + 1 + 1) \in Nat /\ k \in {28, 35}
          BY SMT DEF MonthDays
        <5> HIDE DEF k
        <5>5. DaysSum(mon + 1 + 1, 1, y) + k = DaysSum(mon + 1, day, y) + 1
          BY <2>2, <3>2, <5>2, <5>3, <5>4, SMT DEF DaysSum
        <5> QED
          BY <5>4, <5>5, Zenon
      <4> QED
        BY <4>1, <4>2, Zenon
    <3>5. DaysSum(mon + 1 + 1, 1, y) % 7 = (DaysSum(mon + 1, day, y) + 1) % 7
      BY <2>4, <3>3, <3>4, SMT
    <3>6. DayOfWeek(mon + 1 + 1, 1, y) = (DayOfWeek(mon + 1, day, y) + 1) % 7
      BY <2>4, <2>5, <3>3, <3>5, SMT
    <3> QED
      BY <3>1, <3>6, SMT
  <2>8. CASE ~ day < last /\ ~ mon < 11
    <3>1. DayAfter(y, mon, day) = [y |-> y + 1, mon |-> 0, day |-> 1]
      BY <2>8, Zenon DEF DayAfter, last
    <3>2. mon = 11 /\ day = 31 /\ y + 1 \in Nat \ {0} /\ 0 + 1 \in 1 .. 12 /\ 1 \in Nat /\ (y + 1) - 1 = y
      BY <2>1, <2>2, <2>3, <2>8, SMT
    <3>3. /\ DayOfWeek(0 + 1, 1, y + 1) = DaysSum(0 + 1, 1, y + 1) % 7
          /\ DaysSum(0 + 1, 1, y + 1) \in Nat
      BY <3>2, WeekdayIs, Zenon
    <3>4. DaysSum(0 + 1, 1, y + 1) + 35 = DaysSum(mon + 1, day, y) + 1
      BY <3>2, SMT DEF DaysSum, MonthDays
    <3>5. DaysSum(0 + 1, 1, y + 1) % 7 = (DaysSum(mon + 1, day, y) + 1) % 7
      BY <2>4, <3>3, <3>4, SMT
    <3>6. DayOfWeek(0 + 1, 1, y + 1) = (DayOfWeek(mon + 1, day, y) + 1) % 7
      BY <2>4, <2>5, <3>3, <3>5, SMT
    <3> QED
      BY <3>1, <3>6, SMT
  <2> QED
    BY <2>6, <2>7, <2>8, Zenon
<1> QED
  BY <1>1, <1>2, Zenon

(* EJ_time_set takes just the days the calendar has: validate_date_time    *)
(* lets the last day of every month pass and not the one after it.         *)
THEOREM JustTheDaysThereAre ==
  ASSUME NEW tm \in Times
  PROVE Validate(tm) <=> /\ tm.sec < 60 /\ tm.min < 60 /\ tm.hour < 24
                         /\ tm.year + YEAR0 \in EPOCH_YR .. 2111 /\ tm.mon \in 0 .. 11
                         /\ tm.mday \in 1 .. DaysIn(tm.year + YEAR0, tm.mon)
<1>1. PICK y \in Nat : y = tm.year + YEAR0
  BY SMT DEF Times, YEAR0
<1>2. PICK mon \in Nat, mday \in Nat, hour \in Nat, min \in Nat, sec \in Nat :
         mon = tm.mon /\ mday = tm.mday /\ hour = tm.hour /\ min = tm.min /\ sec = tm.sec
  BY DEF Times
<1>3. PICK last : last = DaysIn(y, mon)
  BY Zenon
<1>4. mon \in 0 .. 11 => last = IF mon = 1 THEN (IF IsLeap(y) THEN 29 ELSE 28)
                                ELSE IF mon \in {3, 5, 8, 10} THEN 30 ELSE 31
  BY <1>3, MonthLengths, Zenon
<1>5. Validate(tm) <=> /\ sec <= 59 /\ min <= 59 /\ hour <= 23
                       /\ y \in EPOCH_YR .. 2111
                       /\ mon < 12
                       /\ mon = 1 => mday <= (IF IsLeap(y) THEN 29 ELSE 28)
                       /\ mon \in {3, 5, 8, 10} => mday <= 30
                       /\ mday \in 1 .. 31
  BY <1>1, <1>2, SMT DEF Validate
<1>6. Validate(tm) <=> /\ sec < 60 /\ min < 60 /\ hour < 24
                       /\ y \in EPOCH_YR .. 2111 /\ mon \in 0 .. 11
                       /\ mday \in 1 .. last
  BY <1>4, <1>5, SMT DEF EPOCH_YR
<1> QED
  BY <1>1, <1>2, <1>3, <1>6, SMT

-----------------------------------------------------------------------------
(* The tables.                                                             *)

(* A set of numbers that is not empty has a least one.                     *)
LEMMA LeastOf ==
  ASSUME NEW I \in SUBSET Nat, I # {}
  PROVE Min(I) \in I /\ \A i \in I : Min(I) <= i
<1>1. \E k \in I : \A i \in I : ~ (<<i, k>> \in OpToRel(<, Nat))
  BY NatLessThanWellFounded, WFMin
<1>2. PICK k \in I : \A i \in I : ~ (i < k)
  BY <1>1 DEF OpToRel
<1>3. \A i \in I : k <= i
  BY <1>2
<1>4. Min(I) = k
  BY <1>3, LeastIs
<1> QED
  BY <1>3, <1>4

(* The first number of a set of places, as a search of a table finds it.   *)
FirstOf(I) == IF I # {} THEN Min(I) ELSE 0

(* A search finds the first place that fits, and 0 when none does.         *)
LEMMA FirstFound ==
  ASSUME NEW n \in Nat, NEW I, I \subseteq 1 .. n
  PROVE /\ FirstOf(I) = 0 <=> I = {}
        /\ I # {} => FirstOf(I) \in I /\ \A i \in I : FirstOf(I) <= i
<1>1. I \in SUBSET Nat /\ 0 \notin I
  BY SMT
<1>2. CASE I = {}
  BY <1>2, Zenon DEF FirstOf
<1>3. CASE I # {}
  <2>1. Min(I) \in I /\ \A i \in I : Min(I) <= i
    BY <1>1, <1>3, LeastOf
  <2> QED
    BY <1>1, <1>3, <2>1, Zenon DEF FirstOf
<1> QED
  BY <1>2, <1>3

(* The entries of a map of IDs.                                            *)
Entries(types) == [used : BOOLEAN, type : types, socket : Int, ether : Int, uart : Int]

(* The places of a map that no command has.                                *)
Free(map) == {i \in 1 .. Len(map) : ~ map[i].used}

(* The places of a map with a command.                                     *)
Waiting(map, uart, type) ==
  {i \in 1 .. Len(map) : map[i].used /\ map[i].uart = uart /\ map[i].type = type}

(* What SetEtherID does: the first unused entry takes the command, the     *)
(* others stay.                                                            *)
LEMMA SetEntry ==
  ASSUME NEW types, NEW map \in Seq(Entries(types)), NEW type \in types,
         NEW uart \in Int, NEW ether \in Int,
         Free(map) # {},
         NEW new, new = SetEtherID(map, uart, ether, type)
  PROVE /\ new \in Seq(Entries(types)) /\ Len(new) = Len(map)
        /\ \E k \in Free(map) :
              /\ new[k].used /\ new[k].ether = ether /\ new[k].uart = uart /\ new[k].type = type
              /\ \A i \in 1 .. Len(map) : i # k => new[i] = map[i]
<1> DEFINE I == Free(map)
           k == FirstOf(I)
           e == [map[k] EXCEPT !.used = TRUE, !.ether = ether, !.uart = uart, !.type = type]
<1>1. Len(map) \in Nat /\ I \subseteq 1 .. Len(map) /\ I # {}
  BY SMT DEF Free
<1>2. k # 0 /\ k \in 1 .. Len(map) /\ k \in I
  <2>1. k \in I /\ k # 0
    <3> HIDE DEF I
    <3> QED
      BY <1>1, FirstFound
  <2> QED
    BY <2>1, Zenon DEF Free
<1>3. First(map, LAMBDA x : ~ x.used) = k
  BY Zenon DEF First, SelectInSeq, FirstOf, Free
<1>4. new = [map EXCEPT ![k].used = TRUE, ![k].ether = ether, ![k].uart = uart, ![k].type = type]
  <2> HIDE DEF k
  <2> QED
    BY <1>2, <1>3, Zenon DEF SetEtherID
<1> HIDE DEF k
<1>5. map[k] \in Entries(types)
  <2> HIDE DEF Entries
  <2> QED
    BY <1>2, SMT
<1>6. e \in Entries(types)
  BY <1>5, Zenon DEF Entries
<1>7. e.used /\ e.ether = ether /\ e.uart = uart /\ e.type = type
  <2>1. PICK r \in Entries(types) : r = map[k]
    BY <1>5, Zenon
  <2>2. LET x == [r EXCEPT !.used = TRUE, !.ether = ether, !.uart = uart, !.type = type]
        IN x.used /\ x.ether = ether /\ x.uart = uart /\ x.type = type
    BY SMT DEF Entries
  <2> QED
    BY <2>1, <2>2, Zenon
<1>8. new = [map EXCEPT ![k] = e]
  BY <1>4, Zenon
<1> HIDE DEF e
<1>9. /\ new \in Seq(Entries(types)) /\ Len(new) = Len(map) /\ new[k] = e
      /\ \A i \in 1 .. Len(map) : i # k => new[i] = map[i]
  <2> HIDE DEF Entries
  <2> QED
    BY <1>1, <1>2, <1>6, <1>8, SMT
<1> QED
  BY <1>2, <1>7, <1>9, Zenon

(* What GetEtherID does: the first entry of the command answers, and the   *)
(* look-up of a command of the cloud frees it.                             *)
LEMMA GetEntry ==
  ASSUME NEW types, NEW map \in Seq(Entries(types)), NEW type \in types, NEW uart \in Int,
         NEW k, Waiting(map, uart, type) = {k},
         NEW answer, answer = GetEtherID(map, uart, type)
  PROVE /\ answer.id = map[k].ether
        /\ type = "mqtt" => answer.map = [map EXCEPT ![k].used = FALSE]
        /\ type # "mqtt" => answer.map = map
<1> DEFINE I == Waiting(map, uart, type)
<1>1. I = {k} /\ k \in 1 .. Len(map)
  BY Zenon DEF Waiting
<1>2. Min(I) = k /\ k # 0
  <2>1. k \in Int /\ k # 0
    BY <1>1, SMT
  <2>2. {k} \in SUBSET Int /\ k \in {k} /\ \A i \in {k} : k <= i
    BY <2>1, SMT
  <2>3. Min({k}) = k
    BY <2>2, LeastIs
  <2> QED
    BY <1>1, <2>1, <2>3, Zenon
<1>3. First(map, LAMBDA e : e.used /\ e.uart = uart /\ e.type = type) = k
  BY <1>1, <1>2, Zenon DEF First, SelectInSeq, Waiting
<1>4. answer = [id |-> map[k].ether,
                map |-> IF type = "mqtt" THEN [map EXCEPT ![k].used = FALSE] ELSE map]
  BY <1>2, <1>3, Zenon DEF GetEtherID
<1> QED
  BY <1>4, SMT

(* The answer of the appliance to a command goes back under the ID the     *)
(* network gave the command, from whichever entry of the map was free,     *)
(* while no other command of the network waits under that ID of the line;  *)
(* the look-up of a command of the cloud gives its entry back, that of     *)
(* another keeps it.                                                       *)
THEOREM AnswerFindsItsCommand ==
  ASSUME NEW types, NEW map \in Seq(Entries(types)), NEW type \in types,
         NEW uart \in Int, NEW ether \in Int,
         Free(map) # {},
         Waiting(map, uart, type) = {}
  PROVE LET new == SetEtherID(map, uart, ether, type)
            answer == GetEtherID(new, uart, type)
        IN /\ answer.id = ether
           /\ type = "mqtt" => \A i \in 1 .. Len(map) : answer.map[i].used <=> map[i].used
           /\ type # "mqtt" => answer.map = new
<1> DEFINE new == SetEtherID(map, uart, ether, type)
           answer == GetEtherID(new, uart, type)
<1>1. new \in Seq(Entries(types)) /\ Len(new) = Len(map)
  BY SetEntry
<1>2. PICK k \in Free(map) :
        /\ new[k].used /\ new[k].ether = ether /\ new[k].uart = uart /\ new[k].type = type
        /\ \A i \in 1 .. Len(map) : i # k => new[i] = map[i]
  BY SetEntry
<1> HIDE DEF new
<1>3. k \in 1 .. Len(map) /\ ~ map[k].used
  BY Zenon DEF Free
<1>4. Waiting(new, uart, type) = {k}
  BY <1>1, <1>2, <1>3, Zenon DEF Waiting
<1>5. /\ answer.id = new[k].ether
      /\ type = "mqtt" => answer.map = [new EXCEPT ![k].used = FALSE]
      /\ type # "mqtt" => answer.map = new
  BY <1>1, <1>4, GetEntry
<1>6. ASSUME type = "mqtt" PROVE \A i \in 1 .. Len(map) : answer.map[i].used <=> map[i].used
  <2> SUFFICES ASSUME NEW i \in 1 .. Len(map) PROVE answer.map[i].used <=> map[i].used
    BY Zenon
  <2>1. answer.map = [new EXCEPT ![k].used = FALSE]
    BY <1>5, <1>6, Zenon
  <2>2. DOMAIN new = 1 .. Len(map) /\ new[k] \in Entries(types)
    <3> HIDE DEF Entries
    <3> QED
      BY <1>1, <1>3, SMT
  <2>3. CASE i = k
    <3>1. answer.map[k] = [new[k] EXCEPT !.used = FALSE]
      BY <1>3, <2>1, <2>2, Zenon
    <3>2. PICK r \in Entries(types) : r = new[k]
      BY <2>2, Zenon
    <3>3. ~ [r EXCEPT !.used = FALSE].used
      BY SMT DEF Entries
    <3> QED
      BY <1>3, <2>3, <3>1, <3>2, <3>3, Zenon
  <2>4. CASE i # k
    <3>1. answer.map[i] = new[i]
      BY <2>1, <2>2, <2>4, Zenon
    <3> QED
      BY <1>2, <2>4, <3>1, Zenon
  <2> QED
    BY <2>3, <2>4, Zenon
<1> QED
  BY <1>2, <1>5, <1>6, Zenon DEF new

(* A command that comes in does not change what another one that waits     *)
(* gets for its answer, and a map that is full stays as it is.             *)
THEOREM OthersKeepTheirAnswers ==
  ASSUME NEW types, NEW map \in Seq(Entries(types)), NEW type \in types,
         NEW uart \in Int, NEW ether \in Int,
         NEW other \in types, NEW id \in Int, <<other, id>> # <<type, uart>>,
         NEW k, Waiting(map, id, other) = {k}
  PROVE LET new == SetEtherID(map, uart, ether, type)
        IN /\ GetEtherID(new, id, other).id = map[k].ether
           /\ Free(map) = {} => new = map
<1> DEFINE new == SetEtherID(map, uart, ether, type)
<1>1. k \in 1 .. Len(map) /\ map[k].used /\ map[k].uart = id /\ map[k].type = other
  BY Zenon DEF Waiting
<1>2. \A i \in 1 .. Len(map) : map[i].used /\ map[i].uart = id /\ map[i].type = other => i = k
  BY Zenon DEF Waiting
<1>3. CASE Free(map) = {}
  <2>2. First(map, LAMBDA x : ~ x.used) = 0
    BY <1>3, Zenon DEF First, SelectInSeq, Free
  <2>3. new = map
    BY <2>2, Zenon DEF SetEtherID
  <2>4. GetEtherID(map, id, other).id = map[k].ether
    <3>1. PICK answer : answer = GetEtherID(map, id, other)
      BY Zenon
    <3>2. /\ answer.id = map[k].ether
          /\ other = "mqtt" => answer.map = [map EXCEPT ![k].used = FALSE]
          /\ other # "mqtt" => answer.map = map
      BY <3>1, GetEntry
    <3> QED
      BY <3>1, <3>2, Zenon
  <2> QED
    BY <2>3, <2>4, Zenon
<1>4. CASE Free(map) # {}
  <2>1. new \in Seq(Entries(types)) /\ Len(new) = Len(map)
    BY <1>4, SetEntry
  <2>2. PICK j \in Free(map) :
          /\ new[j].used /\ new[j].ether = ether /\ new[j].uart = uart /\ new[j].type = type
          /\ \A i \in 1 .. Len(map) : i # j => new[i] = map[i]
    BY <1>4, SetEntry
  <2> HIDE DEF new
  <2>3. j \in 1 .. Len(map) /\ k # j /\ new[k] = map[k]
    BY <1>1, <2>2, Zenon DEF Free
  <2>4. ~ (new[j].uart = id /\ new[j].type = other)
    BY <2>2, Zenon
  <2>5. Waiting(new, id, other) = {k}
    BY <1>1, <1>2, <2>1, <2>2, <2>3, <2>4, Zenon DEF Waiting
  <2>6. new \in Seq(Entries(types))
    BY <2>1, Zenon
  <2>7. GetEtherID(new, id, other).id = new[k].ether
    <3>1. PICK answer : answer = GetEtherID(new, id, other)
      BY Zenon
    <3>2. /\ answer.id = new[k].ether
          /\ other = "mqtt" => answer.map = [new EXCEPT ![k].used = FALSE]
          /\ other # "mqtt" => answer.map = new
      BY <2>5, <2>6, <3>1, GetEntry
    <3> QED
      BY <3>1, <3>2, Zenon
  <2> QED
    BY <1>4, <2>3, <2>7, Zenon DEF new
<1> QED
  BY <1>3, <1>4, Zenon

(* The registries of the callbacks.                                        *)
Registry(callbacks) == Seq([id : Nat, callback : callbacks])

(* The places a command has in a registry, and the free places.            *)
PlacesOf(table, id) == {i \in 1 .. Len(table) : table[i].id = id}

(* A search of a registry.                                                 *)
LEMMA FirstPlace ==
  ASSUME NEW table, NEW id
  PROVE First(table, LAMBDA e : e.id = id) = FirstOf(PlacesOf(table, id))
BY Zenon DEF First, SelectInSeq, FirstOf, PlacesOf

(* A command that is registered gets its callback, and every other keeps   *)
(* the one it had, while the first free place is not the last one of the   *)
(* table; otherwise registering changes nothing.  The registry of the      *)
(* cloud's commands does the same as that of the appliance's.              *)
THEOREM RegisteredIsCalled ==
  ASSUME NEW callbacks, NEW table \in Registry(callbacks),
         NEW id \in Nat \ {0}, NEW callback \in callbacks,
         PlacesOf(table, id) = {}
  PROVE LET new == RegisterUart(table, id, callback)
            k == FirstOf(PlacesOf(table, 0))
        IN /\ RegisterMqtt(table, id, callback) = new
           /\ k \in 1 .. Len(table) - 1 =>
                /\ CallbackByUartID(new, id) = callback /\ CallbackByMqttID(new, id) = callback
                /\ \A other \in Nat \ {0, id} :
                      /\ CallbackByUartID(new, other) = CallbackByUartID(table, other)
                      /\ CallbackByMqttID(new, other) = CallbackByMqttID(table, other)
           /\ k \notin 1 .. Len(table) - 1 => new = table
<1> DEFINE new == RegisterUart(table, id, callback)
           k == FirstOf(PlacesOf(table, 0))
           r == [id |-> id, callback |-> callback]
<1>1. RegisterMqtt(table, id, callback) = new
  BY Zenon DEF RegisterMqtt, RegisterUart
<1>2. First(table, LAMBDA e : e.id = 0) = k
  BY FirstPlace
<1>3. new = IF k \in 1 .. Len(table) - 1 THEN [table EXCEPT ![k] = r] ELSE table
  BY <1>2, Zenon DEF RegisterUart
<1>4. \A t, x : CallbackByMqttID(t, x) = CallbackByUartID(t, x)
  BY Zenon DEF CallbackByUartID, CallbackByMqttID
<1>5. \A t, x : CallbackByUartID(t, x) = IF FirstOf(PlacesOf(t, x)) = 0 THEN "NULL"
                                         ELSE t[FirstOf(PlacesOf(t, x))].callback
  <2> TAKE t, x
  <2>1. First(t, LAMBDA e : e.id = x) = FirstOf(PlacesOf(t, x))
    BY FirstPlace
  <2> QED
    BY <2>1, Zenon DEF CallbackByUartID
<1>6. Len(table) \in Nat /\ DOMAIN table = 1 .. Len(table)
  BY SMT DEF Registry
<1>7. \A t, x : Len(t) \in Nat => /\ FirstOf(PlacesOf(t, x)) = 0 <=> PlacesOf(t, x) = {}
                                  /\ PlacesOf(t, x) # {} => FirstOf(PlacesOf(t, x)) \in PlacesOf(t, x)
  <2> SUFFICES ASSUME NEW t, NEW x, Len(t) \in Nat
               PROVE /\ FirstOf(PlacesOf(t, x)) = 0 <=> PlacesOf(t, x) = {}
                     /\ PlacesOf(t, x) # {} => FirstOf(PlacesOf(t, x)) \in PlacesOf(t, x)
    BY Zenon
  <2>1. PlacesOf(t, x) \subseteq 1 .. Len(t)
    BY Zenon DEF PlacesOf
  <2> QED
    BY <2>1, FirstFound
<1> HIDE DEF new, k
<1>8. ASSUME k \in 1 .. Len(table) - 1
      PROVE /\ CallbackByUartID(new, id) = callback
            /\ \A other \in Nat \ {0, id} : CallbackByUartID(new, other) = CallbackByUartID(table, other)
  <2>1. k \in 1 .. Len(table) /\ k # 0
    BY <1>6, <1>8, SMT
  <2>2. table[k].id = 0
    <3>1. PlacesOf(table, 0) # {}
      BY <1>6, <1>7, <2>1, Zenon DEF k
    <3>2. k \in PlacesOf(table, 0)
      BY <1>6, <1>7, <3>1, Zenon DEF k
    <3> QED
      BY <3>2, Zenon DEF PlacesOf
  <2>3. r.id = id /\ r.callback = callback /\ r \in [id : Nat, callback : callbacks]
    BY SMT
  <2>4. new = [table EXCEPT ![k] = r]
    BY <1>3, <1>8, Zenon
  <2> HIDE DEF r
  <2>5. Len(new) = Len(table) /\ new[k] = r /\ \A i \in 1 .. Len(table) : i # k => new[i] = table[i]
    BY <1>6, <2>1, <2>3, <2>4, SMT DEF Registry
  <2>6. CallbackByUartID(new, id) = callback
    <3>1. PlacesOf(new, id) = {k}
      BY <2>1, <2>3, <2>5, Zenon DEF PlacesOf
    <3>2. FirstOf(PlacesOf(new, id)) = k
      BY <1>6, <1>7, <2>5, <3>1, Zenon
    <3> QED
      BY <1>5, <2>1, <2>3, <2>5, <3>2, Zenon
  <2>7. ASSUME NEW other \in Nat \ {0, id}
        PROVE CallbackByUartID(new, other) = CallbackByUartID(table, other)
    <3> DEFINE j == FirstOf(PlacesOf(table, other))
    <3>1. PlacesOf(new, other) = PlacesOf(table, other)
      BY <2>1, <2>2, <2>3, <2>5, Zenon DEF PlacesOf
    <3>2. CASE j = 0
      BY <1>5, <3>1, <3>2, Zenon
    <3>3. CASE j # 0
      <4>1. j \in PlacesOf(table, other)
        BY <1>6, <1>7, <3>3, Zenon
      <4>2. j \in 1 .. Len(table) /\ table[j].id = other
        BY <4>1, Zenon DEF PlacesOf
      <4>3. new[j] = table[j]
        BY <2>2, <2>5, <4>2, Zenon
      <4> QED
        BY <1>5, <3>1, <3>3, <4>3, Zenon
    <3> QED
      BY <3>2, <3>3, Zenon
  <2> QED
    BY <2>6, <2>7, Zenon
<1> QED
  BY <1>1, <1>3, <1>4, <1>8, Zenon DEF new, k
=============================================================================
