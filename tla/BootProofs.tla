----------------------------- MODULE BootProofs -----------------------------
(***************************************************************************)
(* What the module knows after a start, for every set of networks and of   *)
(* fragile items, every number of power cuts and of requests: what the     *)
(* radio is started with is what the flash holds, the name and the key are *)
(* of one network, the version is whole and the server has its port,       *)
(* unless a write that was lost at one of three places explains it.        *)
(***************************************************************************)
EXTENDS Boot, SequenceTheorems, WellFoundedInduction, TLAPS

-----------------------------------------------------------------------------
(* The inductive invariant, in parts. *)

Texts == BuiltIn \cup Networks \cup {GARBAGE}
Stored == Texts \cup {ABSENT}
Writes == UNION {[S -> Texts] : S \in SUBSET Items}
Rams == [mode : Stored, rename : Stored, addr : Stored, port : Stored, backup : Stored,
         server : Stored, domain : Stored, version : [1..7 -> Texts]]

Typed == /\ flash \in [Items -> Stored] /\ pend \in [Writers -> Seq(Writes)] /\ ram \in Rams
         /\ phase \in {"defaults", "profile", "load", "run"} /\ at \in Nat \ {0}
         /\ failed \in BOOLEAN /\ reboots \in BOOLEAN

(* Who writes what: mainLoop the items of the application, the command line*)
(* the address of the cloud, the smart connection a name and its key, in   *)
(* this order.  Before the module runs only mainLoop writes.               *)
Addr == Own("masterServerAddr")
Port == Own("masterServerPort")
Ssid == <<"STA", "Ssid">>
Psk == <<"STA", "WpaPsk">>
Parts == {Own(VersionFields[i]) : i \in 1..7}

(* The name and the key are stored in pairs.                               *)
InPairs(q, n) ==
  \A k \in DOMAIN q : \/ q[k] = SetSsid(n) /\ k + 1 \in DOMAIN q /\ q[k + 1] = SetPsk(n)
                      \/ q[k] = SetPsk(n)
                      \/ q[k] = SetWep(n) /\ k = Len(q)
Apart ==
  /\ phase # "run" => pend["smt"] = << >> /\ pend["cli"] = << >>
  /\ phase \in {"defaults", "profile"} => pend["main"] = << >>
  /\ \A k \in DOMAIN pend["main"] :
       DOMAIN pend["main"][k] \subseteq OwnItems \cup (IF phase = "run" THEN {<<"STA", "SmartConfig">>} ELSE {})
  /\ \A k \in DOMAIN pend["cli"] : DOMAIN pend["cli"][k] \subseteq {Own("cloudDomainAddr"), Port}
  /\ pend["smt"] = << >> \/ \E n \in Networks : InPairs(pend["smt"], n)
  /\ phase \in {"defaults", "profile"} => ram = NoRam

(* The items that have a default, once it was written, have a text.        *)
Known == {ItemAt(i) : i \in DOMAIN Defaults}
Defaulted ==
  (phase = "defaults" /\ ~ failed) =>
     \A i \in DOMAIN Defaults : i < at => flash[ItemAt(i)] # ABSENT
Profiled ==
  /\ (phase # "defaults" /\ ~ failed) => \A x \in Known : flash[x] # ABSENT
  /\ phase = "load" => Ssid \in DOMAIN profile /\ DOMAIN profile \subseteq Known
  /\ ProfileRead

(* The name and the key are of one network, but for the time between two   *)
(* writes of the smart connection.                                         *)
Agree == \/ flash[Ssid] \in {ABSENT, "MTK_SOFT_AP"} /\ flash[Psk] \in {ABSENT, "12345678"}
         \/ flash[Ssid] \in Networks /\ flash[Psk] = flash[Ssid]
KeyNext == pend["smt"] # << >> /\ Psk \in DOMAIN Head(pend["smt"])
Pairing == \/ "credentials" \in torn
           \/ KeyNext /\ flash[Ssid] \in Networks /\ Head(pend["smt"])[Psk] = flash[Ssid]
           \/ ~ KeyNext /\ Agree

(* u is the version once mainLoop has written what it has to write.        *)
Wholly(u) ==
  \A x \in Parts : /\ \A k \in DOMAIN pend["main"] : x \in DOMAIN pend["main"][k] => pend["main"][k][x] = u
                   /\ (\A k \in DOMAIN pend["main"] : x \notin DOMAIN pend["main"][k]) => flash[x] = u
NoVersion == /\ flash[Own("publishWeek")] = ABSENT
             /\ \A k \in DOMAIN pend["main"] : DOMAIN pend["main"][k] \cap Parts = {}
(* The week is the last part, and tells whether there is a version.        *)
WeekLast ==
  \A k \in DOMAIN pend["main"] : Own("publishWeek") \in DOMAIN pend["main"][k] =>
     \A j \in DOMAIN pend["main"] : k < j => DOMAIN pend["main"][j] \cap Parts = {}
Versioned ==
  /\ WeekLast
  /\ "version" \in torn \/ NoVersion \/ \E u \in Texts \ {GARBAGE} : Wholly(u)
  /\ VersionWhole

(* The port is in flash when the address is, or about to be written; and a *)
(* load that has passed the port knows it if there is one.                 *)
PortNext == pend["main"] # << >> /\ DOMAIN Head(pend["main"]) = {Port}
PortDue == flash[Port] # ABSENT \/ \E k \in DOMAIN pend["main"] : Port \in DOMAIN pend["main"][k]
AddrFirst ==
  \A k \in DOMAIN pend["main"] : Addr \in DOMAIN pend["main"][k] =>
     flash[Addr] # ABSENT \/ (k + 1 \in DOMAIN pend["main"] /\ DOMAIN pend["main"][k + 1] = {Port})
Served ==
  /\ AddrFirst
  /\ flash[Addr] # ABSENT => flash[Port] # ABSENT \/ "server" \in torn \/ PortNext
  /\ (phase = "load" /\ at <= 4 /\ ram.addr # ABSENT) => flash[Addr] # ABSENT
  /\ (phase = "load" /\ at > 4 /\ PortDue) => ram.port # ABSENT
  /\ (phase = "load" /\ at > 4 /\ ram.addr # ABSENT) => ram.port # ABSENT \/ "server" \in torn
  /\ (phase = "load" /\ at > 10) => ram.addr # ABSENT
  /\ phase = "load" => at \in 1..13
  /\ ServerKnown

IInv == Typed /\ Apart /\ Defaulted /\ Profiled /\ Pairing /\ Versioned /\ Served

-----------------------------------------------------------------------------
(* The tables of defaults. *)

(* A tuple is a sequence of what it lists.                                 *)
LEMMA TupleSeq ==
  ASSUME NEW n \in Nat, NEW t, t = [i \in 1..n |-> t[i]]
  PROVE  t \in Seq(Range(t)) /\ DOMAIN t = 1..n /\ Len(t) = n
<1>1. DOMAIN t = 1..n
  OBVIOUS
<1>2. \A i \in 1..n : t[i] \in Range(t)
  BY <1>1 DEF Range
<1>3. t \in [1..n -> Range(t)]
  BY <1>1, <1>2
<1>4. t \in Seq(Range(t))
  BY <1>3, SeqDef
<1> QED
  BY <1>1, <1>3, <1>4, LenProperties

(* Every table is a sequence.                                              *)
LEMMA Tables ==
  \A t \in {CommonDefaults, StaRadioDefaults, StaSecurityDefaults, ApRadioDefaults, ApSecurityDefaults} :
    t \in Seq(Range(t))
<1>1. CommonDefaults = [i \in 1..23 |-> CommonDefaults[i]]
  BY DEF CommonDefaults
<1>2. StaRadioDefaults = [i \in 1..17 |-> StaRadioDefaults[i]]
  BY DEF StaRadioDefaults
<1>3. StaSecurityDefaults = [i \in 1..17 |-> StaSecurityDefaults[i]]
  BY DEF StaSecurityDefaults
<1>4. ApRadioDefaults = [i \in 1..15 |-> ApRadioDefaults[i]]
  BY DEF ApRadioDefaults
<1>5. ApSecurityDefaults = [i \in 1..14 |-> ApSecurityDefaults[i]]
  BY DEF ApSecurityDefaults
<1>6. 23 \in Nat /\ 17 \in Nat /\ 15 \in Nat /\ 14 \in Nat
  OBVIOUS
<1>7. CommonDefaults \in Seq(Range(CommonDefaults))
  BY <1>1, <1>6, TupleSeq
<1>8. StaRadioDefaults \in Seq(Range(StaRadioDefaults))
  BY <1>2, <1>6, TupleSeq
<1>9. StaSecurityDefaults \in Seq(Range(StaSecurityDefaults))
  BY <1>3, <1>6, TupleSeq
<1>10. ApRadioDefaults \in Seq(Range(ApRadioDefaults))
  BY <1>4, <1>6, TupleSeq
<1>11. ApSecurityDefaults \in Seq(Range(ApSecurityDefaults))
  BY <1>5, <1>6, TupleSeq
<1> QED
  BY <1>7, <1>8, <1>9, <1>10, <1>11

(* A group is its table with the name of the group before every row.       *)
LEMMA Groups ==
  ASSUME NEW g, NEW S, NEW t \in Seq(S)
  PROVE  /\ Group(g, t) \in Seq(Range(Group(g, t)))
         /\ Range(Group(g, t)) = {<<g, row[1], row[2]>> : row \in Range(t)}
<1>1. DOMAIN t = 1..Len(t) /\ Len(t) \in Nat
  BY LenProperties
<1>2. DOMAIN Group(g, t) = DOMAIN t /\ \A i \in DOMAIN t : Group(g, t)[i] = <<g, t[i][1], t[i][2]>>
  BY DEF Group
<1>3. Group(g, t) = [i \in 1..Len(t) |-> Group(g, t)[i]]
  BY <1>1 DEF Group
<1>4. Group(g, t) \in Seq(Range(Group(g, t)))
  BY <1>1, <1>3, TupleSeq
<1>5. Range(Group(g, t)) = {<<g, row[1], row[2]>> : row \in Range(t)}
  <2> DEFINE R == {<<g, row[1], row[2]>> : row \in Range(t)}
  <2>1. \A i \in DOMAIN t : t[i] \in Range(t)
    BY DEF Range
  <2>2. \A i \in DOMAIN Group(g, t) : Group(g, t)[i] \in R
    BY <1>2, <2>1
  <2>3. ASSUME NEW row \in Range(t) PROVE <<g, row[1], row[2]>> \in Range(Group(g, t))
    <3>1. PICK i \in DOMAIN t : t[i] = row
      BY DEF Range
    <3>2. i \in DOMAIN Group(g, t) /\ Group(g, t)[i] = <<g, row[1], row[2]>>
      BY <1>2, <3>1
    <3> QED
      BY <3>2 DEF Range
  <2>4. Range(Group(g, t)) \subseteq R
    BY <2>2, Zenon DEF Range
  <2>5. R \subseteq Range(Group(g, t))
    BY <2>3
  <2> QED
    BY <2>4, <2>5
<1> QED
  BY <1>4, <1>5

(* The rows of a concatenation are those of its parts.                     *)
LEMMA Joined ==
  ASSUME NEW s, s \in Seq(Range(s)), NEW t, t \in Seq(Range(t))
  PROVE  /\ s \o t \in Seq(Range(s \o t))
         /\ Range(s \o t) = Range(s) \cup Range(t)
<1> DEFINE S == Range(s) \cup Range(t)
<1>0. s \in Seq(S) /\ t \in Seq(S)
  <2>1. DOMAIN s = 1..Len(s) /\ DOMAIN t = 1..Len(t) /\ Len(s) \in Nat /\ Len(t) \in Nat
    BY LenProperties
  <2>2. s \in [1..Len(s) -> S] /\ t \in [1..Len(t) -> S]
    BY <2>1 DEF Range
  <2> QED
    BY <2>1, <2>2, SeqDef
<1>1. /\ s \o t \in Seq(S) /\ Len(s \o t) = Len(s) + Len(t)
      /\ \A i \in 1..Len(s) + Len(t) : (s \o t)[i] = IF i <= Len(s) THEN s[i] ELSE t[i - Len(s)]
  BY <1>0, ConcatProperties
<1>s. s \o t \in Seq(Range(s \o t))
  BY <1>1, TupleSeq, LenProperties
<1>2. /\ DOMAIN s = 1..Len(s) /\ DOMAIN t = 1..Len(t) /\ DOMAIN (s \o t) = 1..Len(s) + Len(t)
      /\ Len(s) \in Nat /\ Len(t) \in Nat
  BY <1>0, <1>1, LenProperties
<1> HIDE DEF S
<1>3. ASSUME NEW i \in DOMAIN (s \o t)
      PROVE  (\E j \in DOMAIN s : s[j] = (s \o t)[i]) \/ (\E j \in DOMAIN t : t[j] = (s \o t)[i])
  <2>1. CASE i <= Len(s)
    BY <1>1, <1>2, <2>1
  <2>2. CASE ~ i <= Len(s)
    <3>1. i - Len(s) \in 1..Len(t) /\ (s \o t)[i] = t[i - Len(s)]
      BY <1>1, <1>2, <2>2
    <3> QED
      BY <1>2, <3>1
  <2> QED
    BY <2>1, <2>2
<1>4. ASSUME NEW j \in DOMAIN s PROVE \E i \in DOMAIN (s \o t) : (s \o t)[i] = s[j]
  <2>1. j \in 1..Len(s) + Len(t) /\ (s \o t)[j] = s[j]
    BY <1>1, <1>2
  <2> QED
    BY <1>2, <2>1
<1>5. ASSUME NEW j \in DOMAIN t PROVE \E i \in DOMAIN (s \o t) : (s \o t)[i] = t[j]
  <2>1. j + Len(s) \in 1..Len(s) + Len(t) /\ (s \o t)[j + Len(s)] = t[j]
    BY <1>1, <1>2
  <2> QED
    BY <1>2, <2>1
<1>6. Range(s \o t) = Range(s) \cup Range(t)
  <2>1. Range(s \o t) \subseteq Range(s) \cup Range(t)
    BY <1>3, Zenon DEF Range
  <2>2. Range(s) \subseteq Range(s \o t)
    BY <1>4, Zenon DEF Range
  <2>3. Range(t) \subseteq Range(s \o t)
    BY <1>5, Zenon DEF Range
  <2> QED
    BY <2>1, <2>2, <2>3
<1> QED
  BY <1>s, <1>6

(* Something is an entry of the defaults when it is a row of a table.      *)
Row(t, name, text) == \E row \in Range(t) : row[1] = name /\ row[2] = text
InTables(g, name, text) ==
  \/ g = "common" /\ Row(CommonDefaults, name, text)
  \/ g = "STA" /\ (Row(StaRadioDefaults, name, text) \/ Row(StaSecurityDefaults, name, text))
  \/ g = "AP" /\ (Row(ApRadioDefaults, name, text) \/ Row(ApSecurityDefaults, name, text))

(* The whole list of defaults is the tables, each under its group.         *)
LEMMA EntryIn ==
  ASSUME NEW g, NEW name, NEW text
  PROVE  /\ <<g, name, text>> \in Range(Defaults) <=> InTables(g, name, text)
         /\ \A e \in Range(Defaults) : e = <<e[1], e[2], e[3]>>
         /\ Defaults \in Seq(Range(Defaults))
<1> DEFINE sr == StaRadioDefaults
           ss == StaSecurityDefaults
           ar == ApRadioDefaults
           as == ApSecurityDefaults
           x == <<g, name, text>>
<1>1. /\ sr \o ss \in Seq(Range(sr \o ss)) /\ Range(sr \o ss) = Range(sr) \cup Range(ss)
      /\ ar \o as \in Seq(Range(ar \o as)) /\ Range(ar \o as) = Range(ar) \cup Range(as)
  BY Tables, Joined
<1> DEFINE C == Group("common", CommonDefaults)
           S == Group("STA", sr \o ss)
           A == Group("AP", ar \o as)
<1>2. /\ C \in Seq(Range(C)) /\ Range(C) = {<<"common", row[1], row[2]>> : row \in Range(CommonDefaults)}
      /\ S \in Seq(Range(S)) /\ Range(S) = {<<"STA", row[1], row[2]>> : row \in Range(sr \o ss)}
      /\ A \in Seq(Range(A)) /\ Range(A) = {<<"AP", row[1], row[2]>> : row \in Range(ar \o as)}
  BY <1>1, Groups, Tables
<1>3. Defaults = (C \o S) \o A
  BY DEF Defaults
<1> HIDE DEF C, S, A
<1>4. Range(Defaults) = Range(C) \cup Range(S) \cup Range(A)
  <2>1. C \o S \in Seq(Range(C \o S)) /\ Range(C \o S) = Range(C) \cup Range(S)
    BY <1>2, Joined
  <2> QED
    BY <1>2, <1>3, <2>1, Joined
<1>5. /\ x \in Range(C) <=> g = "common" /\ Row(CommonDefaults, name, text)
      /\ x \in Range(S) <=> g = "STA" /\ (Row(sr, name, text) \/ Row(ss, name, text))
      /\ x \in Range(A) <=> g = "AP" /\ (Row(ar, name, text) \/ Row(as, name, text))
  BY <1>1, <1>2 DEF Row
<1>6. \A e \in Range(Defaults) : e = <<e[1], e[2], e[3]>>
  BY <1>2, <1>4
<1>7. Defaults \in Seq(Range(Defaults))
  BY <1>2, <1>3, Joined
<1> QED
  BY <1>4, <1>5, <1>6, <1>7 DEF InTables

(* The items with a default are those of the tables.                       *)
LEMMA KnownItem ==
  /\ \A g, name, text : InTables(g, name, text) => <<g, name>> \in Known
  /\ \A i \in DOMAIN Defaults : InTables(Defaults[i][1], Defaults[i][2], Defaults[i][3])
  /\ Len(Defaults) \in Nat /\ DOMAIN Defaults = 1..Len(Defaults)
<1>1. ASSUME NEW g, NEW name, NEW text, InTables(g, name, text) PROVE <<g, name>> \in Known
  <2>1. <<g, name, text>> \in Range(Defaults)
    BY <1>1, EntryIn
  <2>2. PICK i \in DOMAIN Defaults : Defaults[i] = <<g, name, text>>
    BY <2>1 DEF Range
  <2> QED
    BY <2>2 DEF Known, ItemAt
<1>2. ASSUME NEW i \in DOMAIN Defaults PROVE InTables(Defaults[i][1], Defaults[i][2], Defaults[i][3])
  <2>1. Defaults[i] \in Range(Defaults)
    BY DEF Range
  <2>2. Defaults[i] = <<Defaults[i][1], Defaults[i][2], Defaults[i][3]>>
    BY <2>1, EntryIn
  <2> QED
    BY <2>1, <2>2, EntryIn
<1>3. Len(Defaults) \in Nat /\ DOMAIN Defaults = 1..Len(Defaults)
  BY EntryIn, LenProperties
<1> QED
  BY <1>1, <1>2, <1>3

(* What wifi_config_init, tcpip_config_init and dhcp_config_init read has  *)
(* a default.                                                              *)
LEMMA KnownNames ==
  /\ \A name \in {"OpMode", "CountryCode", "IpAddr", "IpNetmask", "IpGateway"} :
       <<"common", name>> \in Known
  /\ \A name \in {"SsidLen", "Ssid", "BW", "WirelessMode", "ListenInterval",
                  "EncrypType", "PSMode", "DefaultKeyId", "SharedKeyLen",
                  "SharedKey", "WpaPskLen", "WpaPsk", "IpMode"} :
       <<"STA", name>> \in Known
  /\ \A name \in {"Channel", "BW", "SsidLen", "Ssid", "WirelessMode",
                  "DtimPeriod", "HideSSID", "AuthMode", "EncrypType",
                  "DefaultKeyId", "SharedKeyLen", "SharedKey", "WpaPskLen",
                  "WpaPsk"} :
       <<"AP", name>> \in Known
<1>1. /\ CommonDefaults[1][1] = "OpMode" /\ CommonDefaults[3][1] = "CountryCode" /\
         CommonDefaults[5][1] = "IpAddr" /\ CommonDefaults[6][1] = "IpNetmask" /\
         CommonDefaults[7][1] = "IpGateway"
      /\ {1, 3, 5, 6, 7} \subseteq DOMAIN CommonDefaults
  BY DEF CommonDefaults
<1>2. /\ StaRadioDefaults[4][1] = "SsidLen" /\ StaRadioDefaults[3][1] = "Ssid" /\
         StaRadioDefaults[7][1] = "BW" /\ StaRadioDefaults[8][1] = "WirelessMode" /\
         StaRadioDefaults[17][1] = "ListenInterval"
      /\ {4, 3, 7, 8, 17} \subseteq DOMAIN StaRadioDefaults
  BY DEF StaRadioDefaults
<1>3. /\ StaSecurityDefaults[2][1] = "EncrypType" /\ StaSecurityDefaults[13][1] = "PSMode" /\
         StaSecurityDefaults[10][1] = "DefaultKeyId" /\
         StaSecurityDefaults[12][1] = "SharedKeyLen" /\
         StaSecurityDefaults[11][1] = "SharedKey" /\ StaSecurityDefaults[4][1] = "WpaPskLen" /\
         StaSecurityDefaults[3][1] = "WpaPsk" /\ StaSecurityDefaults[15][1] = "IpMode"
      /\ {2, 13, 10, 12, 11, 4, 3, 15} \subseteq DOMAIN StaSecurityDefaults
  BY DEF StaSecurityDefaults
<1>4. /\ ApRadioDefaults[5][1] = "Channel" /\ ApRadioDefaults[6][1] = "BW" /\
         ApRadioDefaults[4][1] = "SsidLen" /\ ApRadioDefaults[3][1] = "Ssid" /\
         ApRadioDefaults[7][1] = "WirelessMode" /\ ApRadioDefaults[15][1] = "DtimPeriod"
      /\ {5, 6, 4, 3, 7, 15} \subseteq DOMAIN ApRadioDefaults
  BY DEF ApRadioDefaults
<1>5. /\ ApSecurityDefaults[12][1] = "HideSSID" /\ ApSecurityDefaults[1][1] = "AuthMode" /\
         ApSecurityDefaults[2][1] = "EncrypType" /\
         ApSecurityDefaults[9][1] = "DefaultKeyId" /\
         ApSecurityDefaults[11][1] = "SharedKeyLen" /\
         ApSecurityDefaults[10][1] = "SharedKey" /\ ApSecurityDefaults[4][1] = "WpaPskLen" /\
         ApSecurityDefaults[3][1] = "WpaPsk"
      /\ {12, 1, 2, 9, 11, 10, 4, 3} \subseteq DOMAIN ApSecurityDefaults
  BY DEF ApSecurityDefaults
<1>6. \A t : \A i \in DOMAIN t : Row(t, t[i][1], t[i][2])
  BY DEF Row, Range
<1>7. \A name \in {"OpMode", "CountryCode", "IpAddr", "IpNetmask", "IpGateway"} :
        <<"common", name>> \in Known
  BY <1>1, <1>6, KnownItem DEF InTables
<1>8. \A name \in {"SsidLen", "Ssid", "BW", "WirelessMode", "ListenInterval"} :
        <<"STA", name>> \in Known
  BY <1>2, <1>6, KnownItem DEF InTables
<1>9. \A name \in {"EncrypType", "PSMode", "DefaultKeyId", "SharedKeyLen",
                   "SharedKey", "WpaPskLen", "WpaPsk", "IpMode"} :
        <<"STA", name>> \in Known
  BY <1>3, <1>6, KnownItem DEF InTables
<1>10. \A name \in {"Channel", "BW", "SsidLen", "Ssid", "WirelessMode",
                    "DtimPeriod"} :
        <<"AP", name>> \in Known
  BY <1>4, <1>6, KnownItem DEF InTables
<1>11. \A name \in {"HideSSID", "AuthMode", "EncrypType", "DefaultKeyId",
                    "SharedKeyLen", "SharedKey", "WpaPskLen", "WpaPsk"} :
        <<"AP", name>> \in Known
  BY <1>5, <1>6, KnownItem DEF InTables
<1> QED
  BY <1>7, <1>8, <1>9, <1>10, <1>11

(* What check_default_value writes is a text, and not to an item of the    *)
(* application; the name and the key it writes are those of the soft AP.   *)
LEMMA Defaulting ==
  ASSUME NEW i \in DOMAIN Defaults
  PROVE  /\ DefaultAt(i) \in BuiltIn /\ ItemAt(i) \in Items /\ ItemAt(i) \in Known
         /\ ItemAt(i) \notin OwnItems
         /\ ItemAt(i) = Ssid => DefaultAt(i) = "MTK_SOFT_AP"
         /\ ItemAt(i) = Psk => DefaultAt(i) = "12345678"
<1> DEFINE g == Defaults[i][1]
           name == Defaults[i][2]
           text == Defaults[i][3]
<1>1. InTables(g, name, text)
  BY KnownItem
<1>2. text \in BuiltIn /\ "efuse" \in BuiltIn
  BY DEF BuiltIn
<1>3. \/ DefaultAt(i) = text
      \/ DefaultAt(i) = "efuse" /\ name = "MacAddr"
  BY DEF DefaultAt
<1>4. DefaultAt(i) \in BuiltIn
  BY <1>2, <1>3
<1>5. ItemAt(i) = <<g, name>> /\ ItemAt(i) \in Items /\ ItemAt(i) \in Known
  BY DEF ItemAt, Items, Known
<1>6. g # "EJCLOUD"
  BY <1>1 DEF InTables
<1>7. ItemAt(i) \notin OwnItems
  BY <1>5, <1>6 DEF OwnItems, Own
<1>8. \A j \in DOMAIN StaRadioDefaults :
        /\ StaRadioDefaults[j][1] = "Ssid" => StaRadioDefaults[j][2] = "MTK_SOFT_AP"
        /\ StaRadioDefaults[j][1] # "WpaPsk"
  BY DEF StaRadioDefaults
<1>9. \A j \in DOMAIN StaSecurityDefaults :
        /\ StaSecurityDefaults[j][1] = "WpaPsk" => StaSecurityDefaults[j][2] = "12345678"
        /\ StaSecurityDefaults[j][1] # "Ssid"
  <2> DEFINE Name(j) == StaSecurityDefaults[j][1]
  <2>1. /\ Name(1) = "AuthMode" /\ Name(2) = "EncrypType" /\ Name(3) = "WpaPsk"
        /\ Name(4) = "WpaPskLen" /\ Name(5) = "Password" /\ Name(6) = "PMK"
        /\ Name(7) = "PMK_INFO" /\ Name(8) = "PairCipher" /\ Name(9) = "GroupCipher"
        /\ Name(10) = "DefaultKeyId" /\ Name(11) = "SharedKey" /\ Name(12) = "SharedKeyLen"
        /\ Name(13) = "PSMode" /\ Name(14) = "KeepAlivePeriod" /\ Name(15) = "IpMode"
        /\ Name(16) = "BeaconLostTime" /\ Name(17) = "ApcliBWAutoUpBelow"
    BY DEF StaSecurityDefaults
  <2>2. StaSecurityDefaults[3][2] = "12345678" /\ DOMAIN StaSecurityDefaults = 1..17
    BY DEF StaSecurityDefaults
  <2> HIDE DEF Name
  <2>3. \A j \in 1..17 : Name(j) # "Ssid" /\ (Name(j) = "WpaPsk" => j = 3)
    BY <2>1
  <2> QED
    BY <2>2, <2>3 DEF Name
<1>10. /\ Row(StaRadioDefaults, "Ssid", text) => text = "MTK_SOFT_AP"
       /\ ~ Row(StaSecurityDefaults, "Ssid", text) /\ ~ Row(StaRadioDefaults, "WpaPsk", text)
       /\ Row(StaSecurityDefaults, "WpaPsk", text) => text = "12345678"
  BY <1>8, <1>9 DEF Row, Range
<1> HIDE DEF g, name, text
<1>11. ASSUME ItemAt(i) = Ssid PROVE DefaultAt(i) = "MTK_SOFT_AP"
  <2>1. g = "STA" /\ name = "Ssid"
    BY <1>5, <1>11 DEF Ssid
  <2> QED
    BY <1>1, <1>3, <1>10, <2>1 DEF InTables
<1>12. ASSUME ItemAt(i) = Psk PROVE DefaultAt(i) = "12345678"
  <2>1. g = "STA" /\ name = "WpaPsk"
    BY <1>5, <1>12 DEF Psk
  <2> QED
    BY <1>1, <1>3, <1>10, <2>1 DEF InTables
<1> QED
  BY <1>4, <1>5, <1>7, <1>11, <1>12

(* A series of reads is a sequence of items with a default.                *)
LEMMA OfKnown ==
  ASSUME NEW g, NEW N, NEW names \in Seq(N), \A name \in N : <<g, name>> \in Known
  PROVE  Of(g, names) \in Seq(Known)
<1>1. DOMAIN names = 1..Len(names) /\ Len(names) \in Nat /\ \A i \in 1..Len(names) : names[i] \in N
  BY LenProperties
<1>2. Of(g, names) = [i \in 1..Len(names) |-> <<g, names[i]>>]
  BY <1>1 DEF Of
<1> QED
  BY <1>1, <1>2

(* The reads of wifi_config_init, whatever the types of encryption are.    *)
LEMMA SeriesKnown ==
  /\ StaReads \in Seq(Known) /\ ApReads \in Seq(Known) /\ LastReads \in Seq(Known)
  /\ \A g \in {"STA", "AP"} : \A text : KeyReads(g, text) \in Seq(Known)
  /\ Of("common", <<"IpAddr", "IpNetmask", "IpGateway">>) \in Seq(Known)
  /\ Of("STA", <<"IpMode">>) \in Seq(Known)
  /\ Ssid \in Range(StaReads)
<1> DEFINE N(g) == {name \in {Defaults[i][2] : i \in DOMAIN Defaults} : <<g, name>> \in Known}
<1>0. \A g, name : <<g, name>> \in Known => name \in N(g)
  BY DEF Known, ItemAt
<1>n. \A g : \A name \in N(g) : <<g, name>> \in Known
  OBVIOUS
<1> HIDE DEF N
<1>1. /\ <<"OpMode", "CountryCode">> \in Seq(N("common"))
      /\ <<"IpAddr", "IpNetmask", "IpGateway">> \in Seq(N("common"))
  BY <1>0, KnownNames
<1>2. /\ <<"SsidLen", "Ssid", "EncrypType">> \in Seq(N("STA"))
      /\ <<"BW", "WirelessMode", "ListenInterval", "PSMode">> \in Seq(N("STA"))
      /\ <<"IpMode">> \in Seq(N("STA"))
  BY <1>0, KnownNames
<1>3. /\ <<"Channel", "BW", "SsidLen", "Ssid", "HideSSID", "AuthMode", "EncrypType">> \in Seq(N("AP"))
      /\ <<"WirelessMode", "DtimPeriod">> \in Seq(N("AP"))
  BY <1>0, KnownNames
<1>4. ASSUME NEW g \in {"STA", "AP"} 
      PROVE  /\ <<"DefaultKeyId", "SharedKeyLen", "SharedKey">> \in Seq(N(g))
             /\ <<"WpaPskLen", "WpaPsk">> \in Seq(N(g))
  BY <1>0, KnownNames
<1>5. \A g, names : names \in Seq(N(g)) => Of(g, names) \in Seq(Known)
  BY <1>n, OfKnown
<1>6. \A s, t \in Seq(Known) : s \o t \in Seq(Known)
  BY ConcatProperties
<1>7. ApReads \in Seq(Known) /\ LastReads \in Seq(Known)
  BY <1>2, <1>3, <1>5, <1>6 DEF ApReads, LastReads
<1>8. \A g \in {"STA", "AP"} : \A text : KeyReads(g, text) \in Seq(Known)
  <2> SUFFICES ASSUME NEW g \in {"STA", "AP"}, NEW text PROVE KeyReads(g, text) \in Seq(Known)
    OBVIOUS
  <2> QED
    BY <1>4, <1>5 DEF KeyReads
<1>9. StaReads \in Seq(Known)
  BY <1>1, <1>2, <1>5, <1>6 DEF StaReads
<1>10. Ssid \in Range(StaReads)
  <2> DEFINE s == Of("common", <<"OpMode", "CountryCode">>)
             t == Of("STA", <<"SsidLen", "Ssid", "EncrypType">>)
  <2>1. s \in Seq(Known) /\ t \in Seq(Known)
    BY <1>1, <1>2, <1>5
  <2>2. t[2] = Ssid /\ Len(t) = 3 /\ Len(s) = 2
    BY DEF Of, Ssid
  <2> HIDE DEF s, t
  <2>3. /\ s \o t \in Seq(Known) /\ Len(s \o t) = Len(s) + Len(t)
        /\ \A i \in 1..Len(s) + Len(t) : (s \o t)[i] = IF i <= Len(s) THEN s[i] ELSE t[i - Len(s)]
    BY <2>1, ConcatProperties
  <2>4. (s \o t)[4] = Ssid
    BY <2>2, <2>3
  <2>5. 4 \in DOMAIN (s \o t)
    BY <2>2, <2>3, LenProperties
  <2> QED
    BY <2>4, <2>5 DEF StaReads, Range, s, t
<1> QED
  BY <1>1, <1>2, <1>5, <1>7, <1>8, <1>9, <1>10

(* While every item with a default is there, reading gives every field its *)
(* own item's text.                                                        *)
LEMMA ReadsValue ==
  ASSUME NEW items \in Seq(Known), NEW buff
  PROVE  /\ DOMAIN Reads(items, buff) = Range(items) /\ Range(items) \subseteq Known
         /\ (\A x \in Known : flash[x] # ABSENT) => \A x \in Range(items) : Reads(items, buff)[x] = flash[x]
<1>1. DOMAIN items = 1..Len(items) /\ Len(items) \in Nat /\ \A i \in DOMAIN items : items[i] \in Known
  BY LenProperties
<1>2. ToSet(items) = Range(items) /\ Range(items) \subseteq Known
  BY <1>1 DEF ToSet, Range
<1>3. DOMAIN Reads(items, buff) = Range(items)
  BY <1>2 DEF Reads
<1>4. ASSUME \A x \in Known : flash[x] # ABSENT, NEW x \in Range(items)
      PROVE  Reads(items, buff)[x] = flash[x]
  <2> DEFINE k == CHOOSE i \in DOMAIN items : items[i] = x
             found == {j \in 1..k : flash[items[j]] # ABSENT}
             last == CHOOSE j \in found : \A i \in found : i <= j
  <2>1. k \in DOMAIN items /\ items[k] = x
    BY DEF Range
  <2> HIDE DEF k
  <2>2. k \in found /\ \A i \in found : i <= k
    BY <1>1, <1>4, <2>1
  <2>3. last \in found /\ \A i \in found : i <= last
    BY <2>2
  <2>4. last = k
    BY <1>1, <2>1, <2>2, <2>3
  <2> HIDE DEF found, last
  <2>5. TextAt(items, buff, k) = IF found = {} THEN buff ELSE flash[items[last]]
    BY DEF TextAt, found, last
  <2>6. TextAt(items, buff, k) = flash[x]
    BY <2>1, <2>2, <2>4, <2>5
  <2>7. Reads(items, buff)[x] = TextAt(items, buff, k)
    BY <1>2 DEF Reads, k
  <2> QED
    BY <2>6, <2>7
<1> QED
  BY <1>2, <1>3, <1>4

(* What main reads of the profile.                                         *)
LEMMA ProfileValue ==
  ASSUME NEW p, p = Over(WifiConfigInit, Over(TcpipConfigInit, DhcpConfigInit))
  PROVE  /\ Ssid \in DOMAIN p /\ DOMAIN p \subseteq Known
         /\ (\A x \in Known : flash[x] # ABSENT) => \A x \in DOMAIN p : p[x] = flash[x]
<1>1. \A s, t \in Seq(Known) : s \o t \in Seq(Known) /\ Range(s) \subseteq Range(s \o t)
  <2> SUFFICES ASSUME NEW s \in Seq(Known), NEW t \in Seq(Known)
               PROVE  s \o t \in Seq(Known) /\ Range(s) \subseteq Range(s \o t)
    OBVIOUS
  <2>1. /\ s \o t \in Seq(Known) /\ Len(s \o t) = Len(s) + Len(t)
        /\ \A i \in 1..Len(s) + Len(t) : (s \o t)[i] = IF i <= Len(s) THEN s[i] ELSE t[i - Len(s)]
    BY ConcatProperties
  <2>2. /\ DOMAIN s = 1..Len(s) /\ DOMAIN (s \o t) = 1..Len(s \o t)
        /\ Len(s) \in Nat /\ Len(t) \in Nat
    BY <2>1, LenProperties
  <2>3. \A i \in DOMAIN s : i \in DOMAIN (s \o t) /\ (s \o t)[i] = s[i]
    BY <2>1, <2>2
  <2> QED
    BY <2>1, <2>3, Zenon DEF Range
<1>2. WifiReads \in Seq(Known) /\ Ssid \in Range(WifiReads)
  <2> DEFINE sta == StaReads \o KeyReads("STA", TextAt(StaReads, GARBAGE, Len(StaReads))) \o ApReads
             key == KeyReads("AP", TextAt(sta, GARBAGE, Len(sta)))
  <2>1. sta \in Seq(Known) /\ Ssid \in Range(sta)
    BY <1>1, SeriesKnown
  <2> HIDE DEF sta
  <2>2. key \in Seq(Known)
    BY SeriesKnown
  <2> HIDE DEF key
  <2>3. sta \o key \o LastReads \in Seq(Known) /\ Ssid \in Range(sta \o key \o LastReads)
    BY <1>1, <2>1, <2>2, SeriesKnown
  <2> QED
    BY <2>3 DEF WifiReads, sta, key
<1> DEFINE w == WifiConfigInit
           c == TcpipConfigInit
           d == DhcpConfigInit
           All == \A x \in Known : flash[x] # ABSENT
<1>3. /\ Ssid \in DOMAIN w /\ DOMAIN w \subseteq Known
      /\ All => \A x \in DOMAIN w : w[x] = flash[x]
  BY <1>2, ReadsValue DEF WifiConfigInit
<1>4. DOMAIN c \subseteq Known /\ (All => \A x \in DOMAIN c : c[x] = flash[x])
  BY SeriesKnown, ReadsValue DEF TcpipConfigInit
<1>5. DOMAIN d \subseteq Known /\ (All => \A x \in DOMAIN d : d[x] = flash[x])
  BY SeriesKnown, ReadsValue DEF DhcpConfigInit
<1> HIDE DEF w, c, d, All
<1>6. /\ DOMAIN Over(c, d) = DOMAIN c \cup DOMAIN d
      /\ \A x \in DOMAIN Over(c, d) : Over(c, d)[x] = IF x \in DOMAIN c THEN c[x] ELSE d[x]
  BY DEF Over
<1>7. /\ DOMAIN p = DOMAIN w \cup DOMAIN Over(c, d)
      /\ \A x \in DOMAIN p : p[x] = IF x \in DOMAIN w THEN w[x] ELSE Over(c, d)[x]
  BY DEF Over, w, c, d
<1> QED
  BY <1>3, <1>4, <1>5, <1>6, <1>7 DEF All

-----------------------------------------------------------------------------
(* What is written. *)

(* A write gives texts to items.                                           *)
LEMMA WriteType ==
  /\ \A w \in Writes : DOMAIN w \subseteq Items /\ \A x \in DOMAIN w : w[x] \in Texts
  /\ \A S \in SUBSET Items : \A w \in [S -> Texts] : w \in Writes
BY DEF Writes

(* One item.                                                               *)
LEMMA WriteOne ==
  ASSUME NEW x \in Items, NEW text \in Texts
  PROVE  Write(x, text) \in Writes /\ DOMAIN Write(x, text) = {x} /\ Write(x, text)[x] = text
<1>1. Write(x, text) \in [{x} -> Texts]
  BY DEF Write
<1> QED
  BY <1>1, WriteType DEF Write

(* Done, it changes the items it is about.                                 *)
LEMMA OverValue ==
  ASSUME flash \in [Items -> Stored], NEW w \in Writes
  PROVE  /\ Over(w, flash) \in [Items -> Stored]
         /\ \A x \in Items : Over(w, flash)[x] = IF x \in DOMAIN w THEN w[x] ELSE flash[x]
<1>1. DOMAIN w \subseteq Items /\ \A x \in DOMAIN w : w[x] \in Texts
  BY WriteType
<1>2. DOMAIN flash = Items /\ DOMAIN w \cup Items = Items
  BY <1>1
<1>3. Over(w, flash) = [x \in Items |-> IF x \in DOMAIN w THEN w[x] ELSE flash[x]]
  BY <1>2 DEF Over
<1> QED
  BY <1>1, <1>3 DEF Stored

(* The items of the application.                                           *)
LEMMA OwnNames ==
  /\ \A name \in {"configMode", "renameSSID", "masterServerAddr", "masterServerPort",
                  "backupServer1Addr", "backupServer1Port", "backupServer2Port",
                  "defaultConnectServer", "cloudDomainAddr"} : Own(name) \in OwnItems \ Parts
  /\ Parts \subseteq OwnItems /\ OwnItems \subseteq Items /\ <<"STA", "SmartConfig">> \in Items
  /\ Own("publishWeek") \in Parts /\ Own("versionRule") \in Parts
<1>1. DOMAIN VersionFields = 1..7
  BY DEF VersionFields
<1>2. \A i \in 1..7 : VersionFields[i] \in ToSet(VersionFields)
  BY <1>1 DEF ToSet
<1>3. VersionFields[7] = "publishWeek" /\ VersionFields[1] = "versionRule"
  BY DEF VersionFields
<1>4. Parts \subseteq OwnItems
  BY <1>2 DEF Parts, OwnItems
<1>5. \A i \in 1..7 : VersionFields[i] \in {"versionRule", "functionCode", "hardwareVersion",
        "softwareVersionMsb", "softwareVersionLsb", "publishYear", "publishWeek"}
  BY DEF VersionFields
<1>6. \A x \in Parts : \E name \in {"versionRule", "functionCode", "hardwareVersion",
        "softwareVersionMsb", "softwareVersionLsb", "publishYear", "publishWeek"} : x = <<"EJCLOUD", name>>
  BY <1>5 DEF Parts, Own
<1>7. \A name \in {"configMode", "renameSSID", "masterServerAddr", "masterServerPort",
                   "backupServer1Addr", "backupServer1Port", "backupServer2Port",
                   "defaultConnectServer", "cloudDomainAddr"} :
         Own(name) \in OwnItems /\ Own(name) \notin Parts
  BY <1>6 DEF OwnItems, Own
<1>8. OwnItems \subseteq Items /\ <<"STA", "SmartConfig">> \in Items
  BY DEF Items
<1>9. Own("publishWeek") \in Parts /\ Own("versionRule") \in Parts
  BY <1>3 DEF Parts
<1> QED
  BY <1>4, <1>7, <1>8, <1>9

(* What the smart connection writes of a network.                          *)
LEMMA SmtWrites ==
  ASSUME NEW n \in Networks
  PROVE  /\ {SetSsid(n), SetPsk(n), SetWep(n)} \subseteq Writes
         /\ Ssid \in DOMAIN SetSsid(n) /\ Psk \notin DOMAIN SetSsid(n) /\ SetSsid(n)[Ssid] = n
         /\ Psk \in DOMAIN SetPsk(n) /\ Ssid \notin DOMAIN SetPsk(n) /\ SetPsk(n)[Psk] = n
         /\ Ssid \notin DOMAIN SetWep(n) /\ Psk \notin DOMAIN SetWep(n)
         /\ \A w \in {SetSsid(n), SetPsk(n), SetWep(n)} :
              DOMAIN w \cap (OwnItems \cup {<<"STA", "SmartConfig">>}) = {}
<1> DEFINE Sta(name) == <<"STA", name>>
<1>1. \A name \in {"SsidLen", "Ssid", "WpaPskLen", "WpaPsk", "DefaultKeyId", "SharedKeyLen", "SharedKey"} :
        Sta(name) \in Items /\ Sta(name) \notin OwnItems \cup {<<"STA", "SmartConfig">>}
  BY KnownNames DEF Known, Items, OwnItems, Own
<1>2. n \in Texts /\ "0" \in Texts
  BY DEF Texts, BuiltIn
<1>3. /\ DOMAIN SetSsid(n) = {Ssid, Sta("SsidLen")} /\ \A x \in DOMAIN SetSsid(n) : SetSsid(n)[x] = n
      /\ SetSsid(n) \in [{Ssid, Sta("SsidLen")} -> Texts]
  BY <1>2 DEF SetSsid, Ssid
<1>4. /\ DOMAIN SetPsk(n) = {Psk, Sta("WpaPskLen")} /\ \A x \in DOMAIN SetPsk(n) : SetPsk(n)[x] = n
      /\ SetPsk(n) \in [{Psk, Sta("WpaPskLen")} -> Texts]
  BY <1>2 DEF SetPsk, Psk
<1> DEFINE W == {Sta("DefaultKeyId"), Sta("SharedKey"), Sta("SharedKeyLen")}
<1>5. DOMAIN SetWep(n) = W /\ SetWep(n) \in [W -> Texts]
  <2> DEFINE f == Write(Sta("DefaultKeyId"), "0")
             g == [i \in {Sta("SharedKey"), Sta("SharedKeyLen")} |-> n]
  <2>1. /\ DOMAIN f = {Sta("DefaultKeyId")} /\ \A x \in DOMAIN f : f[x] \in Texts
        /\ DOMAIN g = {Sta("SharedKey"), Sta("SharedKeyLen")} /\ \A x \in DOMAIN g : g[x] \in Texts
    BY <1>2 DEF Write
  <2>2. SetWep(n) = Over(f, g)
    BY DEF SetWep
  <2> HIDE DEF f, g
  <2>3. Over(f, g) = [i \in DOMAIN f \cup DOMAIN g |-> IF i \in DOMAIN f THEN f[i] ELSE g[i]]
    BY DEF Over
  <2>4. DOMAIN f \cup DOMAIN g = W
    BY <2>1
  <2> QED
    BY <2>1, <2>2, <2>3, <2>4
<1>6. /\ {Ssid, Sta("SsidLen")} \subseteq Items /\ {Psk, Sta("WpaPskLen")} \subseteq Items
      /\ W \subseteq Items
  BY <1>1 DEF Ssid, Psk
<1>7. SetSsid(n) \in Writes /\ SetPsk(n) \in Writes /\ SetWep(n) \in Writes
  BY <1>3, <1>4, <1>5, <1>6, WriteType
<1>8. /\ Ssid \notin {Psk, Sta("WpaPskLen")} /\ Psk \notin {Ssid, Sta("SsidLen")}
      /\ Ssid \notin W /\ Psk \notin W
  BY DEF Ssid, Psk
<1>9. \A w \in {SetSsid(n), SetPsk(n), SetWep(n)} :
        DOMAIN w \cap (OwnItems \cup {<<"STA", "SmartConfig">>}) = {}
  <2> DEFINE Z == OwnItems \cup {<<"STA", "SmartConfig">>}
  <2>1. {Ssid, Sta("SsidLen")} \cap Z = {} /\ {Psk, Sta("WpaPskLen")} \cap Z = {} /\ W \cap Z = {}
    BY <1>1 DEF Ssid, Psk
  <2> HIDE DEF Z, W
  <2> QED
    BY <1>3, <1>4, <1>5, <2>1 DEF Z
<1> QED
  BY <1>3, <1>4, <1>7, <1>8, <1>9, <1>5

(* The version is seven writes.                                            *)
LEMMA VersionWritten ==
  ASSUME NEW v \in [1..7 -> Texts]
  PROVE  /\ VersionWrites(v) \in Seq(Writes) /\ DOMAIN VersionWrites(v) = 1..7
         /\ \A k \in 1..7 : /\ DOMAIN VersionWrites(v)[k] = {Own(VersionFields[k])}
                            /\ VersionWrites(v)[k][Own(VersionFields[k])] = v[k]
                            /\ Own(VersionFields[k]) \in Parts
<1>1. \A k \in 1..7 : Own(VersionFields[k]) \in Parts /\ Own(VersionFields[k]) \in Items /\ v[k] \in Texts
  BY OwnNames DEF Parts
<1>2. \A k \in 1..7 : VersionWrites(v)[k] = Write(Own(VersionFields[k]), v[k])
  BY DEF VersionWrites
<1>3. ASSUME NEW k \in 1..7
      PROVE  /\ VersionWrites(v)[k] \in Writes
             /\ DOMAIN VersionWrites(v)[k] = {Own(VersionFields[k])}
             /\ VersionWrites(v)[k][Own(VersionFields[k])] = v[k]
  <2> DEFINE x == Own(VersionFields[k])
  <2>1. x \in Items /\ v[k] \in Texts /\ VersionWrites(v)[k] = Write(x, v[k])
    BY <1>1, <1>2
  <2> HIDE DEF x
  <2>2. Write(x, v[k]) \in Writes /\ DOMAIN Write(x, v[k]) = {x} /\ Write(x, v[k])[x] = v[k]
    BY <2>1, WriteOne
  <2> QED
    BY <2>1, <2>2 DEF x
<1>4. VersionWrites(v) = [k \in 1..7 |-> VersionWrites(v)[k]]
  BY DEF VersionWrites
<1> DEFINE q == VersionWrites(v)
<1>5. q \in Seq(Writes) /\ DOMAIN q = 1..7
  <2>1. (\A k \in 1..7 : q[k] \in Writes) /\ q = [k \in 1..7 |-> q[k]]
    BY <1>3, <1>4
  <2> HIDE DEF q
  <2>2. q \in [1..7 -> Writes] /\ 7 \in Nat /\ DOMAIN q = 1..7
    BY <2>1
  <2> QED
    BY <2>2, SeqDef
<1> QED
  BY <1>1, <1>3, <1>5

-----------------------------------------------------------------------------
(* loadInfoFromFlash. *)

(* The steps that have nothing to do with the server or the version.       *)
Plain(r, writes) ==
  /\ r \in Rams /\ r.addr = ram.addr /\ r.port = ram.port /\ r.version = ram.version
  /\ writes \in Seq(Writes)
  /\ \A k \in DOMAIN writes : DOMAIN writes[k] \subseteq OwnItems \ (Parts \cup {Addr, Port})

(* Which function each step of the load calls.                             *)
LEMMA LoadSteps ==
  /\ Loaded(1) = LoadConfigMode /\ Loaded(2) = Load(RenameSSID) /\ Loaded(3) = Load(MasterServerAddr)
  /\ Loaded(4) = Load(MasterServerPort) /\ Loaded(5) = Load(BackupServer1Addr)
  /\ Loaded(6) = Load(BackupServer1Port) /\ Loaded(7) = Load(BackupServer2Addr)
  /\ Loaded(8) = Load(BackupServer2Port) /\ Loaded(9) = Load(DefaultConnectServer)
  /\ Loaded(10) = DefaultServer /\ Loaded(11) = Load(CloudDomainAddr) /\ Loaded(12) = DefaultDomain
  /\ Loaded(13) = LoadVersion
BY DEF Loaded

(* One write, or none.                                                     *)
LEMMA Alone ==
  ASSUME NEW w \in Writes
  PROVE  /\ <<w>> \in Seq(Writes) /\ DOMAIN <<w>> = 1..1 /\ <<w>>[1] = w
         /\ << >> \in Seq(Writes) /\ DOMAIN << >> = {} /\ << >> # <<w>>
OBVIOUS

(* A setter sets its field and stores its item.                            *)
LEMMA Setters ==
  ASSUME NEW text
  PROVE  /\ Set(RenameSSID, text) = Done([ram EXCEPT !.rename = text], <<Write(Own("renameSSID"), text)>>)
         /\ Set(MasterServerAddr, text) = Done([ram EXCEPT !.addr = text], <<Write(Addr, text)>>)
         /\ Set(MasterServerPort, text) = Done([ram EXCEPT !.port = text], <<Write(Port, text)>>)
         /\ Set(BackupServer1Addr, text) = Done([ram EXCEPT !.backup = text], <<Write(Own("backupServer1Addr"), text)>>)
         /\ Set(BackupServer1Port, text) = Done([ram EXCEPT !.port = text], <<Write(Port, text)>>)
         /\ Set(BackupServer2Addr, text) = Done([ram EXCEPT !.addr = text], <<Write(Addr, text)>>)
         /\ Set(BackupServer2Port, text) = Done([ram EXCEPT !.port = text], <<Write(Port, text)>>)
         /\ Set(DefaultConnectServer, text) = Done([ram EXCEPT !.server = text], <<Write(Own("defaultConnectServer"), text)>>)
         /\ Set(CloudDomainAddr, text) = Done([ram EXCEPT !.domain = text], <<Write(Own("cloudDomainAddr"), text)>>)
<1> USE DEF Set, Field, Addr, Port
<1>1. Set(RenameSSID, text) = Done([ram EXCEPT !.rename = text], <<Write(Own("renameSSID"), text)>>)
  BY DEF RenameSSID
<1>2. Set(MasterServerAddr, text) = Done([ram EXCEPT !.addr = text], <<Write(Addr, text)>>)
  BY DEF MasterServerAddr
<1>3. Set(MasterServerPort, text) = Done([ram EXCEPT !.port = text], <<Write(Port, text)>>)
  BY DEF MasterServerPort
<1>4. Set(BackupServer1Addr, text) = Done([ram EXCEPT !.backup = text], <<Write(Own("backupServer1Addr"), text)>>)
  BY DEF BackupServer1Addr
<1>5. Set(BackupServer1Port, text) = Done([ram EXCEPT !.port = text], <<Write(Port, text)>>)
  BY DEF BackupServer1Port
<1>6. Set(BackupServer2Addr, text) = Done([ram EXCEPT !.addr = text], <<Write(Addr, text)>>)
  BY DEF BackupServer2Addr
<1>7. Set(BackupServer2Port, text) = Done([ram EXCEPT !.port = text], <<Write(Port, text)>>)
  BY DEF BackupServer2Port
<1>8. Set(DefaultConnectServer, text) = Done([ram EXCEPT !.server = text], <<Write(Own("defaultConnectServer"), text)>>)
  BY DEF DefaultConnectServer
<1>9. Set(CloudDomainAddr, text) = Done([ram EXCEPT !.domain = text], <<Write(Own("cloudDomainAddr"), text)>>)
  BY DEF CloudDomainAddr
<1> QED
  BY <1>1, <1>2, <1>3, <1>4, <1>5, <1>6, <1>7, <1>8, <1>9

(* A write of one item, as a series of writes.                             *)
LEMMA OneWrite ==
  ASSUME NEW x \in Items, NEW text \in Texts
  PROVE  /\ <<Write(x, text)>> \in Seq(Writes)
         /\ \A k \in DOMAIN <<Write(x, text)>> : DOMAIN <<Write(x, text)>>[k] = {x}
<1>1. Write(x, text) \in Writes /\ DOMAIN Write(x, text) = {x}
  BY WriteOne
<1> DEFINE w == Write(x, text)
<1> HIDE DEF w
<1>2. w \in Writes /\ DOMAIN w = {x}
  BY <1>1 DEF w
<1>3. <<w>> \in Seq(Writes) /\ DOMAIN <<w>> = 1..1 /\ <<w>>[1] = w
  BY <1>2, Alone
<1>4. \A k \in DOMAIN <<w>> : DOMAIN <<w>>[k] = {x}
  BY <1>2, <1>3
<1> QED
  BY <1>3, <1>4 DEF w

(* A field is loaded from what the flash holds, if it holds anything.      *)
LEMMA Loads ==
  ASSUME Typed, NEW f, Own(f.reads) \in Items
  PROVE  \/ flash[Own(f.reads)] = ABSENT /\ Load(f) = Done(ram, << >>)
         \/ /\ flash[Own(f.reads)] # ABSENT /\ flash[Own(f.reads)] \in Texts
            /\ Load(f) = Set(f, flash[Own(f.reads)])
BY DEF Typed, Load, Has, Stored

(* The fields that have nothing to do with the server.                     *)
LEMMA PlainSets ==
  ASSUME Typed, NEW text \in Texts, NEW name, Own(name) \in OwnItems \ (Parts \cup {Addr, Port}),
         NEW r, r \in {[ram EXCEPT !.rename = text], [ram EXCEPT !.backup = text],
                       [ram EXCEPT !.server = text], [ram EXCEPT !.domain = text]}
  PROVE  Plain(r, <<Write(Own(name), text)>>)
<1>1. r \in Rams /\ r.addr = ram.addr /\ r.port = ram.port /\ r.version = ram.version
  BY DEF Typed, Rams, Stored
<1>2. Own(name) \in Items
  BY OwnNames
<1>3. /\ <<Write(Own(name), text)>> \in Seq(Writes)
      /\ \A k \in DOMAIN <<Write(Own(name), text)>> : DOMAIN <<Write(Own(name), text)>>[k] = {Own(name)}
  BY <1>2, OneWrite
<1> DEFINE q == <<Write(Own(name), text)>>
<1> HIDE DEF q
<1>4. q \in Seq(Writes) /\ \A k \in DOMAIN q : DOMAIN q[k] \subseteq OwnItems \ (Parts \cup {Addr, Port})
  BY <1>3 DEF q
<1> QED
  BY <1>1, <1>4 DEF Plain, q

(* Nothing to load.                                                        *)
LEMMA PlainNothing == Typed => Plain(ram, << >>)
BY DEF Plain, Typed

(* The steps of the load that have nothing to do with the server or the    *)
(* version.                                                                *)
LEMMA Plains ==
  ASSUME Typed, NEW i \in {1, 2, 5, 9, 11, 12}
  PROVE  Plain(Loaded(i).ram, Loaded(i).writes)
<1> DEFINE Other == OwnItems \ (Parts \cup {Addr, Port})
<1>1. \A name \in {"configMode", "renameSSID", "backupServer1Addr", "defaultConnectServer", "cloudDomainAddr"} :
        Own(name) \in Other /\ Own(name) \in Items
  BY OwnNames DEF Addr, Port, Own
<1>d. \A r, q : Done(r, q).ram = r /\ Done(r, q).writes = q
  BY DEF Done
<1> DEFINE Fine(d) == Plain(d.ram, d.writes)
<1>n. Fine(Done(ram, << >>))
  BY <1>d, PlainNothing
<1>s. ASSUME NEW text \in Texts
      PROVE  /\ Fine(Set(RenameSSID, text)) /\ Fine(Set(BackupServer1Addr, text))
             /\ Fine(Set(DefaultConnectServer, text)) /\ Fine(Set(CloudDomainAddr, text))
  <2>1. Plain([ram EXCEPT !.rename = text], <<Write(Own("renameSSID"), text)>>)
    BY <1>1, PlainSets
  <2>2. Plain([ram EXCEPT !.backup = text], <<Write(Own("backupServer1Addr"), text)>>)
    BY <1>1, PlainSets
  <2>3. Plain([ram EXCEPT !.server = text], <<Write(Own("defaultConnectServer"), text)>>)
    BY <1>1, PlainSets
  <2>4. Plain([ram EXCEPT !.domain = text], <<Write(Own("cloudDomainAddr"), text)>>)
    BY <1>1, PlainSets
  <2> QED
    <3>1. /\ Set(RenameSSID, text) = Done([ram EXCEPT !.rename = text], <<Write(Own("renameSSID"), text)>>)
          /\ Set(BackupServer1Addr, text) = Done([ram EXCEPT !.backup = text], <<Write(Own("backupServer1Addr"), text)>>)
          /\ Set(DefaultConnectServer, text) = Done([ram EXCEPT !.server = text], <<Write(Own("defaultConnectServer"), text)>>)
          /\ Set(CloudDomainAddr, text) = Done([ram EXCEPT !.domain = text], <<Write(Own("cloudDomainAddr"), text)>>)
      BY Setters
    <3>2. \A r, q : Plain(r, q) => Fine(Done(r, q))
      BY <1>d
    <3> HIDE DEF Fine
    <3> QED
      BY <2>1, <2>2, <2>3, <2>4, <3>1, <3>2
<1>f. /\ Own(RenameSSID.reads) \in Items /\ Own(BackupServer1Addr.reads) \in Items
      /\ Own(DefaultConnectServer.reads) \in Items /\ Own(CloudDomainAddr.reads) \in Items
  BY <1>1 DEF RenameSSID, BackupServer1Addr, DefaultConnectServer, CloudDomainAddr, Field
<1> HIDE DEF Fine
<1>2. Fine(Load(RenameSSID))
  BY <1>n, <1>s, <1>f, Loads
<1>5. Fine(Load(BackupServer1Addr))
  BY <1>n, <1>s, <1>f, Loads
<1>9. Fine(Load(DefaultConnectServer))
  BY <1>n, <1>s, <1>f, Loads
<1>11. Fine(Load(CloudDomainAddr))
  BY <1>n, <1>s, <1>f, Loads
<1>12. Fine(DefaultDomain)
  <2>1. "ej-test.com" \in Texts
    BY DEF Texts, BuiltIn
  <2> QED
    BY <1>n, <1>s, <2>1 DEF DefaultDomain
<1>m. Fine(LoadConfigMode)
  <2> DEFINE mode == flash[Own("configMode")]
             x == Own("configMode")
  <2>1. x \in Items /\ x \in Other /\ "NULL" \in Texts /\ (mode = ABSENT \/ mode \in Texts)
    BY <1>1 DEF Typed, Texts, Stored, BuiltIn
  <2> HIDE DEF x, mode
  <2>2. /\ <<Write(x, "NULL")>> \in Seq(Writes)
        /\ \A k \in DOMAIN <<Write(x, "NULL")>> : DOMAIN <<Write(x, "NULL")>>[k] = {x}
    BY <2>1, OneWrite
  <2>3. mode # ABSENT => /\ <<Write(x, mode)>> \in Seq(Writes)
                         /\ \A k \in DOMAIN <<Write(x, mode)>> : DOMAIN <<Write(x, mode)>>[k] = {x}
    BY <2>1, OneWrite
  <2> DEFINE Alike(q) == q \in Seq(Writes) /\ \A k \in DOMAIN q : DOMAIN q[k] = {x}
  <2>4. \A q, s : Alike(q) /\ Alike(s) => Alike(q \o s)
    <3> SUFFICES ASSUME NEW q \in Seq(Writes), NEW s \in Seq(Writes),
                        \A k \in DOMAIN q : DOMAIN q[k] = {x}, \A k \in DOMAIN s : DOMAIN s[k] = {x}
                 PROVE  Alike(q \o s)
      OBVIOUS
    <3>1. /\ q \o s \in Seq(Writes) /\ Len(q \o s) = Len(q) + Len(s)
          /\ \A k \in 1..Len(q) + Len(s) : (q \o s)[k] = IF k <= Len(q) THEN q[k] ELSE s[k - Len(q)]
      BY ConcatProperties
    <3>2. /\ DOMAIN q = 1..Len(q) /\ DOMAIN s = 1..Len(s) /\ DOMAIN (q \o s) = 1..Len(q) + Len(s)
          /\ Len(q) \in Nat /\ Len(s) \in Nat
      BY <3>1, LenProperties
    <3>3. \A k \in DOMAIN (q \o s) : DOMAIN (q \o s)[k] = {x}
      BY <3>1, <3>2
    <3> QED
      BY <3>1, <3>3
  <2>5. Alike(<< >>)
    OBVIOUS
  <2>6. mode # ABSENT => Alike(ModeWrites(mode))
    BY <2>3, <2>5 DEF ModeWrites, x
  <2> DEFINE null == <<Write(x, "NULL")>>
  <2>7. Alike(null)
    BY <2>2
  <2>8. LoadConfigMode = IF mode = ABSENT THEN Done(ram, null)
                                          ELSE Done([ram EXCEPT !.mode = mode], ModeWrites(mode) \o null)
    BY DEF LoadConfigMode, x, mode
  <2> HIDE DEF null
  <2>9. mode # ABSENT => Alike(ModeWrites(mode) \o null)
    BY <2>4, <2>6, <2>7
  <2>10. \A r, q : /\ r \in Rams /\ r.addr = ram.addr /\ r.port = ram.port /\ r.version = ram.version
                   /\ Alike(q)
                   => Fine(Done(r, q))
    BY <1>d, <2>1 DEF Fine, Plain
  <2> HIDE DEF Alike
  <2>11. ram \in Rams
    BY DEF Typed
  <2>12. mode # ABSENT => LET r == [ram EXCEPT !.mode = mode]
                          IN r \in Rams /\ r.addr = ram.addr /\ r.port = ram.port /\ r.version = ram.version
    BY <2>1, <2>11 DEF Rams, Stored
  <2> QED
    BY <2>7, <2>8, <2>9, <2>10, <2>11, <2>12
<1> QED
  BY <1>2, <1>5, <1>9, <1>11, <1>12, <1>m, LoadSteps DEF Fine

(* The address is loaded, and stored again, when the flash has one.        *)
LEMMA AddrSteps ==
  ASSUME Typed, NEW i \in {3, 7}, NEW r, r = Loaded(i).ram, NEW q, q = Loaded(i).writes
  PROVE  /\ r \in Rams /\ r.port = ram.port /\ r.version = ram.version
         /\ r.addr = IF flash[Addr] = ABSENT THEN ram.addr ELSE flash[Addr]
         /\ q \in Seq(Writes) /\ \A k \in DOMAIN q : DOMAIN q[k] = {Addr} /\ flash[Addr] # ABSENT
<1>1. Addr \in Items /\ ram \in Rams
  BY OwnNames DEF Addr, Typed
<1> DEFINE text == flash[Addr]
<1>2. MasterServerAddr.reads = "masterServerAddr" /\ BackupServer2Addr.reads = "masterServerAddr"
  BY DEF MasterServerAddr, BackupServer2Addr, Field
<1>3. \A f \in {MasterServerAddr, BackupServer2Addr} :
        \/ text = ABSENT /\ Load(f) = Done(ram, << >>)
        \/ /\ text # ABSENT /\ text \in Texts
           /\ Load(f) = Set(f, text)
  BY <1>1, <1>2, Loads DEF Addr
<1>4. \A f \in {MasterServerAddr, BackupServer2Addr} :
        Set(f, text) = Done([ram EXCEPT !.addr = text], <<Write(Addr, text)>>)
  BY Setters
<1>5. Loaded(i) \in {Load(MasterServerAddr), Load(BackupServer2Addr)}
  BY LoadSteps
<1> HIDE DEF text
<1>6. \/ text = ABSENT /\ Loaded(i) = Done(ram, << >>)
      \/ text # ABSENT /\ text \in Texts /\ Loaded(i) = Done([ram EXCEPT !.addr = text], <<Write(Addr, text)>>)
  BY <1>3, <1>4, <1>5
<1>7. CASE text = ABSENT
  <2>1. r = ram /\ q = << >>
    BY <1>6, <1>7 DEF Done
  <2> QED
    BY <1>1, <1>7, <2>1 DEF text
<1>8. CASE text # ABSENT
  <2>1. r = [ram EXCEPT !.addr = text] /\ q = <<Write(Addr, text)>> /\ text \in Texts
    BY <1>6, <1>8 DEF Done
  <2>2. r \in Rams /\ r.port = ram.port /\ r.version = ram.version /\ r.addr = text
    BY <1>1, <2>1 DEF Rams, Stored
  <2>3. q \in Seq(Writes) /\ \A k \in DOMAIN q : DOMAIN q[k] = {Addr}
    BY <1>1, <2>1, OneWrite
  <2> QED
    BY <1>8, <2>2, <2>3 DEF text
<1> QED
  BY <1>7, <1>8

(* The port is loaded from its own item or from that of a backup, and      *)
(* stored to its own.                                                      *)
LEMMA PortSteps ==
  ASSUME Typed, NEW i \in {4, 6, 8}, NEW r, r = Loaded(i).ram, NEW q, q = Loaded(i).writes
  PROVE  /\ r \in Rams /\ r.addr = ram.addr /\ r.version = ram.version
         /\ q \in Seq(Writes) /\ \A k \in DOMAIN q : DOMAIN q[k] = {Port}
         /\ r.port # ABSENT \/ (r.port = ram.port /\ q = << >>)
         /\ (i = 4 /\ flash[Port] # ABSENT) => r.port # ABSENT
<1>1. Port \in Items /\ ram \in Rams /\ Own("backupServer1Port") \in Items /\ Own("backupServer2Port") \in Items
  BY OwnNames DEF Port, Typed
<1> DEFINE F == {MasterServerPort, BackupServer1Port, BackupServer2Port}
<1>2. /\ MasterServerPort.reads = "masterServerPort" /\ BackupServer2Port.reads = "backupServer2Port"
      /\ BackupServer1Port.reads = "backupServer1Port"
  <2>1. MasterServerPort.reads = "masterServerPort"
    BY DEF MasterServerPort, Field
  <2>2. BackupServer1Port.reads = "backupServer1Port"
    BY DEF BackupServer1Port, Field
  <2>3. BackupServer2Port.reads = "backupServer2Port"
    BY DEF BackupServer2Port, Field
  <2> QED
    BY <2>1, <2>2, <2>3
<1>3. \A f \in F : \/ flash[Own(f.reads)] = ABSENT /\ Load(f) = Done(ram, << >>)
                   \/ /\ flash[Own(f.reads)] # ABSENT /\ flash[Own(f.reads)] \in Texts
                      /\ Load(f) = Set(f, flash[Own(f.reads)])
  BY <1>1, <1>2, Loads DEF Port
<1>4. \A f \in F : \A text : Set(f, text) = Done([ram EXCEPT !.port = text], <<Write(Port, text)>>)
  BY Setters
<1>5. PICK f \in F : Loaded(i) = Load(f) /\ (i = 4 => f = MasterServerPort)
  BY LoadSteps
<1> DEFINE text == flash[Own(f.reads)]
<1>6. (i = 4 /\ flash[Port] # ABSENT) => text # ABSENT
  BY <1>2, <1>5 DEF Port
<1>7. \/ text = ABSENT /\ Loaded(i) = Done(ram, << >>)
      \/ text # ABSENT /\ text \in Texts /\ Loaded(i) = Done([ram EXCEPT !.port = text], <<Write(Port, text)>>)
  BY <1>3, <1>4, <1>5
<1> HIDE DEF text, F
<1>8. CASE text = ABSENT
  <2>1. r = ram /\ q = << >>
    BY <1>7, <1>8 DEF Done
  <2>2. q \in Seq(Writes) /\ \A k \in DOMAIN q : DOMAIN q[k] = {Port}
    BY <2>1
  <2> QED
    BY <1>1, <1>6, <1>8, <2>1, <2>2
<1>9. CASE text # ABSENT
  <2>1. r = [ram EXCEPT !.port = text] /\ q = <<Write(Port, text)>> /\ text \in Texts
    BY <1>7, <1>9 DEF Done
  <2>2. r \in Rams /\ r.addr = ram.addr /\ r.version = ram.version /\ r.port = text
    BY <1>1, <2>1 DEF Rams, Stored
  <2>3. q \in Seq(Writes) /\ \A k \in DOMAIN q : DOMAIN q[k] = {Port}
    BY <1>1, <2>1, OneWrite
  <2> QED
    BY <1>9, <2>2, <2>3
<1> QED
  BY <1>8, <1>9

(* An address that nothing gave is the one that was built in, and the port *)
(* with it.                                                                *)
LEMMA DefaultStep ==
  ASSUME Typed, NEW r, r = DefaultServer.ram, NEW q, q = DefaultServer.writes
  PROVE  /\ r \in Rams /\ r.version = ram.version /\ q \in Seq(Writes)
         /\ ram.addr # ABSENT => r = ram /\ q = << >>
         /\ ram.addr = ABSENT => /\ r.addr # ABSENT /\ r.port # ABSENT
                                 /\ DOMAIN q = 1..2 /\ DOMAIN q[1] = {Addr} /\ DOMAIN q[2] = {Port}
<1>1. ram \in Rams
  BY DEF Typed
<1>2. CASE ram.addr # ABSENT
  <2>1. r = ram /\ q = << >>
    BY <1>2 DEF DefaultServer, Done
  <2> QED
    BY <1>1, <1>2, <2>1
<1>3. CASE ram.addr = ABSENT
  <2> DEFINE a == Write(Addr, "120.24.170.30")
             p == Write(Port, "1883")
  <2>1. Addr \in Items /\ Port \in Items
    BY OwnNames DEF Addr, Port
  <2>2. "120.24.170.30" \in Texts /\ "1883" \in Texts
    BY DEF Texts, BuiltIn
  <2>3. "120.24.170.30" # ABSENT /\ "1883" # ABSENT
    BY BootAssumption DEF BuiltIn
  <2>4. r = [ram EXCEPT !.addr = "120.24.170.30", !.port = "1883"] /\ q = <<a, p>>
    BY <1>3 DEF DefaultServer, Done, Addr, Port
  <2>5. a \in Writes /\ p \in Writes /\ DOMAIN a = {Addr} /\ DOMAIN p = {Port}
    BY <2>1, <2>2, WriteOne
  <2> HIDE DEF a, p
  <2>6. r \in Rams /\ r.version = ram.version /\ r.addr = "120.24.170.30" /\ r.port = "1883"
    BY <1>1, <2>2, <2>4 DEF Rams, Stored
  <2>7. <<a, p>> \in Seq(Writes) /\ DOMAIN <<a, p>> = 1..2 /\ <<a, p>>[1] = a /\ <<a, p>>[2] = p
    BY <2>5
  <2> QED
    BY <1>3, <2>3, <2>4, <2>5, <2>6, <2>7
<1> QED
  BY <1>2, <1>3

(* The version is that of the flash, if its week is there, and the one that*)
(* was built otherwise.                                                    *)
LEMMA VersionStep ==
  ASSUME Typed
  PROVE  \E v \in [1..7 -> Texts] :
           /\ LoadVersion = Done([ram EXCEPT !.version = v], VersionWrites(v))
           /\ flash[Own("publishWeek")] # ABSENT => 
                \A k \in 1..7 : flash[Own(VersionFields[k])] # ABSENT => v[k] = flash[Own(VersionFields[k])]
           /\ flash[Own("publishWeek")] = ABSENT => v = [k \in 1..7 |-> "build"]
<1> DEFINE found == [k \in 1..7 |-> Part(VersionFields[k])]
           build == [k \in 1..7 |-> "build"]
<1>1. \A k \in 1..7 : Own(VersionFields[k]) \in Items
  BY OwnNames DEF Parts
<1>2. \A k \in 1..7 : /\ Part(VersionFields[k]) \in Texts
                      /\ flash[Own(VersionFields[k])] # ABSENT =>
                           Part(VersionFields[k]) = flash[Own(VersionFields[k])]
  BY <1>1 DEF Part, Has, Typed, Stored, Texts
<1>3. found \in [1..7 -> Texts]
  BY <1>2
<1>4. build \in [1..7 -> Texts]
  BY DEF Texts, BuiltIn
<1> DEFINE v == IF flash[Own("publishWeek")] # ABSENT THEN found ELSE build
<1>5. LoadVersion = Done([ram EXCEPT !.version = v], VersionWrites(v))
  BY DEF LoadVersion, SetVersion, VersionFound, Has
<1>6. v \in [1..7 -> Texts]
  BY <1>3, <1>4
<1>7. flash[Own("publishWeek")] # ABSENT =>
        \A k \in 1..7 : flash[Own(VersionFields[k])] # ABSENT => v[k] = flash[Own(VersionFields[k])]
  BY <1>2
<1>8. flash[Own("publishWeek")] = ABSENT => v = [k \in 1..7 |-> "build"]
  OBVIOUS
<1> HIDE DEF v
<1> QED
  BY <1>5, <1>6, <1>7, <1>8

-----------------------------------------------------------------------------
(* The steps. *)

(* A set of numbers that is not empty has a least one.                     *)
LEMMA LeastOf ==
  ASSUME NEW S \in SUBSET Nat, S # {}
  PROVE  Least(S) \in S /\ \A j \in S : Least(S) <= j
<1>1. \E i \in S : \A j \in S : ~ (<<j, i>> \in OpToRel(<, Nat))
  BY NatLessThanWellFounded, WFMin
<1>2. PICK i \in S : \A j \in S : ~ (j < i)
  BY <1>1 DEF OpToRel
<1>3. \A j \in S : i <= j
  BY <1>2
<1> QED
  BY <1>3 DEF Least

(* check_default_value writes the first item that is missing, or fails.    *)
LEMMA CheckStep ==
  ASSUME Typed, CheckDefaultValue
  PROVE  \E i \in DOMAIN Defaults :
           /\ at' = i + 1 /\ flash[ItemAt(i)] = ABSENT
           /\ \A j \in DOMAIN Defaults : at <= j /\ j < i => flash[ItemAt(j)] # ABSENT
           /\ \/ flash' = [flash EXCEPT ![ItemAt(i)] = DefaultAt(i)] /\ failed' = failed
              \/ flash' = flash /\ failed' = TRUE
<1> DEFINE N == Len(Defaults)
<1>1. N \in Nat /\ DOMAIN Defaults = 1..N
  BY KnownItem
<1> HIDE DEF N
<1>2. Missing(at) = {i \in at..N : flash[ItemAt(i)] = ABSENT}
  BY DEF Missing, N
<1>3. Missing(at) \in SUBSET Nat /\ at \in Nat
  BY <1>1, <1>2 DEF Typed
<1>4. Missing(at) # {}
  BY DEF CheckDefaultValue
<1> DEFINE i == Least(Missing(at))
<1>5. i \in Missing(at) /\ \A j \in Missing(at) : i <= j
  BY <1>3, <1>4, LeastOf
<1>6. /\ at' = i + 1
      /\ \/ flash' = [flash EXCEPT ![ItemAt(i)] = DefaultAt(i)] /\ failed' = failed
         \/ flash' = flash /\ failed' = TRUE
  BY DEF CheckDefaultValue
<1> HIDE DEF i
<1>7. i \in DOMAIN Defaults /\ flash[ItemAt(i)] = ABSENT
  BY <1>1, <1>2, <1>3, <1>5 DEF Typed
<1>8. ASSUME NEW j \in DOMAIN Defaults, at <= j, j < i PROVE flash[ItemAt(j)] # ABSENT
  <2>1. j \in at..N /\ ~ i <= j
    BY <1>1, <1>3, <1>7, <1>8
  <2> QED
    BY <1>2, <1>5, <2>1
<1> QED
  BY <1>6, <1>7, <1>8

(* Every pending write of a task moves up by one, and the first is in the  *)
(* flash, or was lost.                                                     *)
WrittenBy(w, h) ==
  /\ h \in Writes /\ 1 \in DOMAIN pend[w] /\ h = pend[w][1] /\ h = Head(pend[w]) /\ pend[w] # << >>
  /\ pend' \in [Writers -> Seq(Writes)] /\ \A v \in Writers \ {w} : pend'[v] = pend[v]
  /\ DOMAIN pend'[w] = 1..Len(pend[w]) - 1 /\ Len(pend[w]) \in Nat \ {0}
  /\ DOMAIN pend[w] = 1..Len(pend[w]) /\ Len(pend'[w]) = Len(pend[w]) - 1
  /\ \A k \in DOMAIN pend'[w] : pend'[w][k] = pend[w][k + 1] /\ k + 1 \in DOMAIN pend[w]
  /\ UNCHANGED <<phase, at, profile, ram, reboots, failed>>
  /\ flash' \in [Items -> Stored]
  /\ \/ torn' = torn /\ \A x \in Items : flash'[x] = IF x \in DOMAIN h THEN h[x] ELSE flash[x]
     \/ torn' = torn \cup Unstored(h) /\ flash' = flash

(* WriteItem does one write of a thread and nothing else.                  *)
LEMMA WriteStep ==
  ASSUME Typed, NEW w \in Writers, WriteItem(w)
  PROVE  WrittenBy(w, Head(pend[w]))
<1> DEFINE q == pend[w]
           h == Head(pend[w])
<1>1. q \in Seq(Writes) /\ q # << >> /\ DOMAIN pend = Writers
  BY DEF Typed, WriteItem
<1>2. /\ Len(q) \in Nat \ {0} /\ DOMAIN q = 1..Len(q) /\ h = q[1] /\ h \in Writes
      /\ Tail(q) \in Seq(Writes) /\ Len(Tail(q)) = Len(q) - 1
      /\ \A k \in 1..Len(q) - 1 : Tail(q)[k] = q[k + 1]
  <2> HIDE DEF q
  <2>1. Len(q) \in Nat \ {0} /\ DOMAIN q = 1..Len(q) /\ \A k \in DOMAIN q : q[k] \in Writes
    BY <1>1, LenProperties
  <2>2. Head(q) = q[1] /\ Head(q) \in Writes
    BY <1>1, <2>1, HeadTailProperties
  <2>3. /\ Tail(q) \in Seq(Writes) /\ Len(Tail(q)) = Len(q) - 1
        /\ \A k \in 1..Len(q) - 1 : Tail(q)[k] = q[k + 1]
    BY <1>1, HeadTailProperties
  <2> QED
    BY <2>1, <2>2, <2>3 DEF q
<1>3. pend' = [pend EXCEPT ![w] = Tail(q)] /\ UNCHANGED <<phase, at, profile, ram, reboots, failed>>
  BY DEF WriteItem
<1>4. \/ flash' = Over(h, flash) /\ torn' = torn
      \/ torn' = torn \cup Unstored(h) /\ flash' = flash
  BY DEF WriteItem
<1>5. /\ pend' \in [Writers -> Seq(Writes)] /\ pend'[w] = Tail(q)
      /\ \A v \in Writers \ {w} : pend'[v] = pend[v]
  BY <1>1, <1>2, <1>3 DEF Typed
<1>6. DOMAIN Tail(q) = 1..Len(q) - 1
  BY <1>2, LenProperties
<1>7. \A k \in 1..Len(q) - 1 : k + 1 \in DOMAIN q
  BY <1>2
<1>8. /\ flash' \in [Items -> Stored]
      /\ \/ torn' = torn /\ \A x \in Items : flash'[x] = IF x \in DOMAIN h THEN h[x] ELSE flash[x]
         \/ torn' = torn \cup Unstored(h) /\ flash' = flash
  BY <1>2, <1>4, OverValue DEF Typed
<1>9. 1 \in DOMAIN q
  BY <1>2
<1> HIDE DEF h
<1> QED
  BY <1>1, <1>2, <1>3, <1>5, <1>6, <1>7, <1>8, <1>9 DEF WrittenBy, h

(* A start clears everything but the flash; what was lost is noted.        *)
Begun ==
  /\ phase' = "defaults" /\ at' = 1 /\ ram' = NoRam /\ reboots' = FALSE /\ failed' = FALSE
  /\ \A w \in Writers : pend'[w] = << >>
  /\ pend' \in [Writers -> Seq(Writes)]
  /\ flash' = flash /\ \A w \in Writers : Lost(pend[w]) \subseteq torn'
  /\ torn \subseteq torn'

(* A reboot and a power cut both begin a start.                            *)
LEMMA RestartStep ==
  ASSUME EJ_App_reboot \/ PowerCut
  PROVE  Begun
<1>1. Start /\ Interrupted /\ flash' = flash
  BY DEF EJ_App_reboot, PowerCut
<1>2. torn \subseteq torn' /\ \A w \in Writers : Lost(pend[w]) \subseteq torn'
  BY <1>1 DEF Interrupted
<1>3. pend' = [w \in Writers |-> << >>] /\ << >> \in Seq(Writes)
  BY <1>1 DEF Start
<1> QED
  BY <1>1, <1>2, <1>3 DEF Start, Begun

(* A step of the load: what it does to the version and the server is for   *)
(* the lemmas above.                                                       *)
LoadedBy(r, q) ==
  /\ r = Loaded(at).ram /\ q = Loaded(at).writes
  /\ phase = "load" /\ pend["main"] = << >> /\ at' = at + 1
  /\ phase' = IF at = 13 THEN "run" ELSE "load"
  /\ UNCHANGED <<flash, profile, reboots, failed, torn>>
  /\ r \in Rams /\ ram' = r
  /\ q \in Seq(Writes) /\ pend' \in [Writers -> Seq(Writes)] /\ pend'["main"] = q
  /\ \A v \in Writers \ {"main"} : pend'[v] = pend[v]
  /\ \A k \in DOMAIN q : DOMAIN q[k] \subseteq OwnItems /\ (at # 13 => DOMAIN q[k] \cap Parts = {})
  /\ at # 13 => r.version = ram.version

(* A step of the load is one of those functions.                           *)
LEMMA LoadStep ==
  ASSUME Typed, at \in 1..13, LoadInfoFromFlash
  PROVE  LoadedBy(Loaded(at).ram, Loaded(at).writes)
<1> DEFINE r == Loaded(at).ram
           q == Loaded(at).writes
<1>1. /\ phase = "load" /\ pend["main"] = << >> /\ at' = at + 1
      /\ phase' = IF at = 13 THEN "run" ELSE "load"
      /\ UNCHANGED <<flash, profile, reboots, failed, torn>>
      /\ ram' = r /\ pend' = [pend EXCEPT !["main"] = q]
  BY DEF LoadInfoFromFlash
<1> DEFINE Shape == /\ r \in Rams /\ q \in Seq(Writes)
                    /\ \A k \in DOMAIN q : /\ DOMAIN q[k] \subseteq OwnItems
                                           /\ at # 13 => DOMAIN q[k] \cap Parts = {}
                    /\ at # 13 => r.version = ram.version
<1>2. Addr \in OwnItems \ Parts /\ Port \in OwnItems \ Parts /\ Parts \subseteq OwnItems
  BY OwnNames DEF Addr, Port
<1>3. ASSUME at \in {1, 2, 5, 9, 11, 12} PROVE Shape
  <2>1. Plain(r, q)
    BY <1>3, Plains
  <2> HIDE DEF r, q
  <2> QED
    BY <2>1 DEF Plain
<1>4. ASSUME at \in {3, 7} PROVE Shape
  <2>1. /\ r \in Rams /\ r.version = ram.version
        /\ q \in Seq(Writes) /\ \A k \in DOMAIN q : DOMAIN q[k] = {Addr}
    BY <1>4, AddrSteps
  <2> HIDE DEF r, q
  <2> QED
    BY <1>2, <2>1
<1>5. ASSUME at \in {4, 6, 8} PROVE Shape
  <2>1. /\ r \in Rams /\ r.version = ram.version
        /\ q \in Seq(Writes) /\ \A k \in DOMAIN q : DOMAIN q[k] = {Port}
    BY <1>5, PortSteps
  <2> HIDE DEF r, q
  <2> QED
    BY <1>2, <2>1
<1>6. ASSUME at = 10 PROVE Shape
  <2>1. Loaded(at) = DefaultServer
    BY <1>6, LoadSteps
  <2>2. /\ r \in Rams /\ r.version = ram.version /\ q \in Seq(Writes)
        /\ ram.addr # ABSENT => q = << >>
        /\ ram.addr = ABSENT => DOMAIN q = 1..2 /\ DOMAIN q[1] = {Addr} /\ DOMAIN q[2] = {Port}
    BY <2>1, DefaultStep
  <2> HIDE DEF r, q
  <2>3. \A k \in DOMAIN q : DOMAIN q[k] \in {{Addr}, {Port}}
    <3>1. CASE ram.addr # ABSENT
      <4>1. DOMAIN q = {}
        BY <2>2, <3>1
      <4> QED
        BY <4>1
    <3>2. CASE ram.addr = ABSENT
      <4>1. \A k \in DOMAIN q : k = 1 \/ k = 2
        BY <2>2, <3>2
      <4> QED
        BY <2>2, <3>2, <4>1
    <3> QED
      BY <3>1, <3>2
  <2> QED
    BY <1>2, <2>2, <2>3
<1>7. ASSUME at = 13 PROVE Shape
  <2>1. PICK v \in [1..7 -> Texts] : Loaded(at) = Done([ram EXCEPT !.version = v], VersionWrites(v))
    BY <1>7, LoadSteps, VersionStep
  <2>2. r = [ram EXCEPT !.version = v] /\ q = VersionWrites(v)
    BY <2>1 DEF Done
  <2> HIDE DEF r, q
  <2>3. r \in Rams
    BY <2>2 DEF Typed, Rams
  <2>4. q \in Seq(Writes) /\ \A k \in DOMAIN q : DOMAIN q[k] \subseteq Parts
    <3>1. q \in Seq(Writes) /\ DOMAIN q = 1..7
      BY <2>2, VersionWritten
    <3>2. \A k \in 1..7 : DOMAIN q[k] = {Own(VersionFields[k])} /\ Own(VersionFields[k]) \in Parts
      BY <2>2, VersionWritten
    <3> HIDE DEF q
    <3> QED
      BY <3>1, <3>2
  <2> QED
    BY <1>2, <1>7, <2>3, <2>4
<1>8. Shape
  <2>1. at \in {1, 2, 5, 9, 11, 12} \/ at \in {3, 7} \/ at \in {4, 6, 8} \/ at = 10 \/ at = 13
    OBVIOUS
  <2> HIDE DEF Shape
  <2> QED
    BY <1>3, <1>4, <1>5, <1>6, <1>7, <2>1
<1> HIDE DEF r, q
<1>9. /\ pend' \in [Writers -> Seq(Writes)] /\ pend'["main"] = q
      /\ \A v \in Writers \ {"main"} : pend'[v] = pend[v]
  BY <1>1, <1>8 DEF Typed, Writers
<1>10. LoadedBy(r, q)
  BY <1>1, <1>8, <1>9 DEF LoadedBy, r, q
<1> QED
  BY <1>10 DEF r, q

(* While the module runs, a task that has nothing to write is given some-  *)
(* thing.                                                                  *)
Upgrade == [k \in 1..7 |-> "upgrade"]
Asks(w, q) ==
  /\ phase = "run" /\ pend[w] = << >> /\ q \in Seq(Writes)
  /\ pend' \in [Writers -> Seq(Writes)] /\ pend'[w] = q /\ \A v \in Writers \ {w} : pend'[v] = pend[v]
  /\ UNCHANGED <<flash, phase, at, profile, failed, torn>> /\ reboots' \in BOOLEAN
  /\ ram' \in Rams /\ ram'.addr = ram.addr /\ ram'.port \in {ram.port, "cli"}
AskedOf(w, q) ==
  /\ w = "main" =>
       /\ \A k \in DOMAIN q : DOMAIN q[k] \subseteq (OwnItems \cup {<<"STA", "SmartConfig">>}) \ {Addr, Port}
       /\ \/ ram'.version = ram.version /\ \A k \in DOMAIN q : DOMAIN q[k] \cap Parts = {}
          \/ ram'.version = Upgrade /\ q = VersionWrites(Upgrade)
  /\ w = "cli" => /\ ram'.version = ram.version
                  /\ \A k \in DOMAIN q : DOMAIN q[k] \subseteq {Own("cloudDomainAddr"), Port}
  /\ w = "smt" => /\ ram'.version = ram.version
                  /\ \E n \in Networks : InPairs(q, n) /\ 1 \in DOMAIN q /\ q[1] = SetSsid(n)

(* What the smart connection is given.                                     *)
LEMMA Collected ==
  ASSUME NEW n \in Networks
  PROVE  /\ InfoCollected(n) \in Seq(Writes) /\ InPairs(InfoCollected(n), n)
         /\ 1 \in DOMAIN InfoCollected(n) /\ InfoCollected(n)[1] = SetSsid(n)
<1> DEFINE a == SetSsid(n)
           b == SetPsk(n)
           c == SetWep(n)
           q == InfoCollected(n)
<1>1. a \in Writes /\ b \in Writes /\ c \in Writes
  BY SmtWrites
<1>2. q = (<<a, b>> \o <<a, b>>) \o (IF n \in WepKeyed THEN <<c>> ELSE << >>)
  BY DEF InfoCollected, GetResult
<1> DEFINE Pairs(s) ==
      \A k \in DOMAIN s : \/ s[k] = a /\ k + 1 \in DOMAIN s /\ s[k + 1] = b
                          \/ s[k] = b
                          \/ s[k] = c /\ k = Len(s)
<1>p. Pairs(q) => InPairs(q, n)
  BY DEF InPairs
<1> HIDE DEF a, b, c, q
<1> DEFINE s == <<a, b>>
           t == s \o s
           r == IF n \in WepKeyed THEN <<c>> ELSE << >>
<1>3. s \in Seq(Writes) /\ Len(s) = 2 /\ s[1] = a /\ s[2] = b
  BY <1>1
<1>4. r \in Seq(Writes) /\ (Len(r) = 0 \/ (Len(r) = 1 /\ r[1] = c))
  BY <1>1
<1>5. q = t \o r
  BY <1>2
<1> HIDE DEF s, r
<1>6. t \in Seq(Writes) /\ Len(t) = 4 /\ t[1] = a /\ t[2] = b /\ t[3] = a /\ t[4] = b
  <2>1. /\ s \o s \in Seq(Writes) /\ Len(s \o s) = Len(s) + Len(s)
        /\ \A k \in 1..Len(s) + Len(s) : (s \o s)[k] = IF k <= Len(s) THEN s[k] ELSE s[k - Len(s)]
    BY <1>3, ConcatProperties
  <2> QED
    BY <1>3, <2>1
<1> HIDE DEF t
<1>7. /\ q \in Seq(Writes) /\ Len(q) = 4 + Len(r)
      /\ q[1] = a /\ q[2] = b /\ q[3] = a /\ q[4] = b /\ (Len(r) = 1 => q[5] = c)
  <2>1. /\ t \o r \in Seq(Writes) /\ Len(t \o r) = Len(t) + Len(r)
        /\ \A k \in 1..Len(t) + Len(r) : (t \o r)[k] = IF k <= Len(t) THEN t[k] ELSE r[k - Len(t)]
    BY <1>4, <1>6, ConcatProperties
  <2>2. \A k \in 1..4 + Len(r) : q[k] = IF k <= 4 THEN t[k] ELSE r[k - 4]
    BY <1>5, <1>6, <2>1
  <2>3. 1 \in 1..4 + Len(r) /\ 2 \in 1..4 + Len(r) /\ 3 \in 1..4 + Len(r) /\ 4 \in 1..4 + Len(r)
    BY <1>4
  <2>4. Len(r) = 1 => q[5] = c
    BY <1>4, <2>2
  <2>5. q \in Seq(Writes) /\ Len(q) = 4 + Len(r)
    BY <1>5, <1>6, <2>1
  <2>6. q[1] = t[1] /\ q[2] = t[2] /\ q[3] = t[3] /\ q[4] = t[4]
    BY <2>2, <2>3
  <2> QED
    BY <1>6, <2>4, <2>5, <2>6
<1>8. DOMAIN q = 1..Len(q) /\ Len(q) \in {4, 5}
  <2>1. q \in Seq(Writes) /\ Len(q) = 4 + Len(r)
    BY <1>7
  <2>2. DOMAIN q = 1..Len(q)
    BY <2>1, LenProperties
  <2>3. Len(r) = 0 \/ Len(r) = 1
    BY <1>4
  <2>4. Len(q) = 4 \/ Len(q) = 5
    <3>1. Len(q) = 4 + Len(r)
      BY <2>1
    <3>2. CASE Len(r) = 0
      <4>1. Len(q) = 4 + 0
        BY <3>1, <3>2
      <4> QED
        BY <4>1
    <3>3. CASE Len(r) = 1
      <4>1. Len(q) = 4 + 1
        BY <3>1, <3>3
      <4> QED
        BY <4>1
    <3> QED
      BY <2>3, <3>2, <3>3
  <2> HIDE DEF q
  <2> QED
    BY <2>2, <2>4
<1>9. Pairs(q) /\ 1 \in DOMAIN q
  BY <1>4, <1>7, <1>8
<1> QED
  BY <1>p, <1>7, <1>9 DEF q, a

(* What is asked of the module while it runs, and of whom.                 *)
LEMMA AskStep ==
  ASSUME Typed, RenameWifiSSID \/ EasylinkRequest \/ Upgraded \/ ModifyServer \/ Configured
  PROVE  \E w \in Writers : \E q : Asks(w, q) /\ AskedOf(w, q)
<1> DEFINE Other == (OwnItems \cup {<<"STA", "SmartConfig">>}) \ (Parts \cup {Addr, Port})
<1>0. ram \in Rams /\ pend \in [Writers -> Seq(Writes)] /\ reboots \in BOOLEAN
  BY DEF Typed
<1>1. /\ Own("renameSSID") \in Other /\ Own("configMode") \in Other /\ <<"STA", "SmartConfig">> \in Other
      /\ Other \subseteq Items /\ Own("cloudDomainAddr") \in Items /\ Port \in Items
      /\ Own("cloudDomainAddr") \notin Parts
  <2>1. <<"STA", "SmartConfig">> \notin OwnItems
    BY DEF OwnItems, Own
  <2>2. Own("renameSSID") \notin {Addr, Port} /\ Own("configMode") \notin {Addr, Port}
    BY DEF Addr, Port, Own
  <2> QED
    BY <2>1, <2>2, OwnNames DEF Addr, Port
<1>t. "name" \in Texts /\ "EZ" \in Texts /\ "0" \in Texts /\ "cli" \in Texts /\ "upgrade" \in Texts
  BY DEF Texts, BuiltIn
<1>a. ASSUME NEW w \in Writers, NEW r, NEW q, Idle(w), Stores(w, Done(r, q)), reboots' \in BOOLEAN,
             r \in Rams, q \in Seq(Writes), r.addr = ram.addr, r.port \in {ram.port, "cli"}
      PROVE  Asks(w, q) /\ ram' = r
  <2>1. /\ phase = "run" /\ pend[w] = << >> /\ ram' = r /\ pend' = [pend EXCEPT ![w] = q]
        /\ UNCHANGED <<flash, phase, at, profile, failed, torn>>
    BY <1>a DEF Idle, Stores, Done
  <2> QED
    BY <1>0, <1>a, <2>1 DEF Asks
<1>w. "main" \in Writers /\ "cli" \in Writers /\ "smt" \in Writers
  BY DEF Writers
<1>2. ASSUME RenameWifiSSID PROVE \E w \in Writers : \E q : Asks(w, q) /\ AskedOf(w, q)
  <2> DEFINE x == Own("renameSSID")
             q == <<Write(x, "name")>>
             r == [ram EXCEPT !.rename = "name"]
  <2>1. Idle("main") /\ Stores("main", Done(r, q)) /\ reboots' \in BOOLEAN
    BY <1>0, <1>2, Setters DEF RenameWifiSSID
  <2>2. /\ r \in Rams /\ r.addr = ram.addr /\ r.port = ram.port /\ r.version = ram.version
    BY <1>0, <1>t DEF Rams, Stored
  <2>3. q \in Seq(Writes) /\ \A k \in DOMAIN q : DOMAIN q[k] = {x}
    BY <1>1, <1>t, OneWrite
  <2> HIDE DEF q, r
  <2>4. Asks("main", q) /\ ram' = r
    BY <1>a, <1>w, <2>1, <2>2, <2>3
  <2>5. AskedOf("main", q)
    BY <1>1, <2>2, <2>3, <2>4 DEF AskedOf
  <2> QED
    BY <1>w, <2>4, <2>5
<1>3. ASSUME EasylinkRequest PROVE \E w \in Writers : \E q : Asks(w, q) /\ AskedOf(w, q)
  <2> DEFINE x == Own("configMode")
             y == <<"STA", "SmartConfig">>
             a == Write(x, "EZ")
             b == Write(y, "0")
             q == <<a>> \o <<b>>
             r == [ram EXCEPT !.mode = "EZ"]
  <2>1. Idle("main") /\ Stores("main", Done(r, q)) /\ reboots' \in BOOLEAN
    BY <1>3 DEF EasylinkRequest, ModeWrites
  <2>2. /\ r \in Rams /\ r.addr = ram.addr /\ r.port = ram.port /\ r.version = ram.version
    BY <1>0, <1>t DEF Rams, Stored
  <2>3. a \in Writes /\ b \in Writes /\ DOMAIN a = {x} /\ DOMAIN b = {y}
    BY <1>1, <1>t, WriteOne
  <2> HIDE DEF a, b
  <2> DEFINE s == <<a>>
             t == <<b>>
  <2>4. s \in Seq(Writes) /\ t \in Seq(Writes) /\ Len(s) = 1 /\ Len(t) = 1 /\ s[1] = a /\ t[1] = b
    BY <2>3
  <2> HIDE DEF s, t
  <2>5. /\ q \in Seq(Writes) /\ \A k \in DOMAIN q : DOMAIN q[k] \in {{x}, {y}}
    <3>1. q = s \o t
      BY DEF s, t
    <3> HIDE DEF q
    <3>2. /\ s \o t \in Seq(Writes) /\ Len(s \o t) = Len(s) + Len(t)
          /\ \A k \in 1..Len(s) + Len(t) : (s \o t)[k] = IF k <= Len(s) THEN s[k] ELSE t[k - Len(s)]
      BY <2>4, ConcatProperties
    <3>3. DOMAIN q = 1..2
      BY <2>4, <3>1, <3>2, LenProperties
    <3>4. q[1] = a /\ q[2] = b
      BY <2>4, <3>1, <3>2
    <3>5. \A k \in DOMAIN q : k = 1 \/ k = 2
      BY <3>3
    <3> QED
      BY <2>3, <3>1, <3>2, <3>4, <3>5
  <2> HIDE DEF q, r
  <2>6. Asks("main", q) /\ ram' = r
    BY <1>a, <1>w, <2>1, <2>2, <2>5
  <2>7. AskedOf("main", q)
    BY <1>1, <2>2, <2>5, <2>6 DEF AskedOf
  <2> QED
    BY <1>w, <2>6, <2>7
<1>4. ASSUME Upgraded PROVE \E w \in Writers : \E q : Asks(w, q) /\ AskedOf(w, q)
  <2> DEFINE q == VersionWrites(Upgrade)
             r == [ram EXCEPT !.version = Upgrade]
  <2>1. Idle("main") /\ Stores("main", Done(r, q)) /\ reboots' \in BOOLEAN
    BY <1>0, <1>4 DEF Upgraded, SetVersion, Upgrade
  <2>2. Upgrade \in [1..7 -> Texts]
    BY <1>t DEF Upgrade
  <2>3. /\ r \in Rams /\ r.addr = ram.addr /\ r.port = ram.port /\ r.version = Upgrade
    BY <1>0, <2>2 DEF Rams
  <2>4. q \in Seq(Writes) /\ \A k \in DOMAIN q : DOMAIN q[k] \subseteq Parts
    <3>1. q \in Seq(Writes) /\ DOMAIN q = 1..7
      BY <2>2, VersionWritten
    <3>2. \A k \in 1..7 : DOMAIN q[k] = {Own(VersionFields[k])} /\ Own(VersionFields[k]) \in Parts
      BY <2>2, VersionWritten
    <3> HIDE DEF q
    <3> QED
      BY <3>1, <3>2
  <2>5. Parts \subseteq OwnItems \ {Addr, Port}
    BY OwnNames DEF Addr, Port
  <2>6. q = VersionWrites(Upgrade)
    OBVIOUS
  <2> HIDE DEF q, r
  <2>7. Asks("main", q) /\ ram' = r
    BY <1>a, <1>w, <2>1, <2>3, <2>4
  <2>8. AskedOf("main", q)
    BY <2>3, <2>4, <2>5, <2>6, <2>7 DEF AskedOf
  <2> QED
    BY <1>w, <2>7, <2>8
<1>5. ASSUME ModifyServer PROVE \E w \in Writers : \E q : Asks(w, q) /\ AskedOf(w, q)
  <2> DEFINE x == Own("cloudDomainAddr")
             a == Write(x, "cli")
             b == Write(Port, "cli")
             q == <<a, b>>
             r == [ram EXCEPT !.domain = "cli", !.port = "cli"]
  <2>1. Idle("cli") /\ Stores("cli", Done(r, q)) /\ reboots' \in BOOLEAN
    BY <1>0, <1>5 DEF ModifyServer, Port
  <2>2. /\ r \in Rams /\ r.addr = ram.addr /\ r.port = "cli" /\ r.version = ram.version
    BY <1>0, <1>t DEF Rams, Stored
  <2>3. a \in Writes /\ b \in Writes /\ DOMAIN a = {x} /\ DOMAIN b = {Port}
    BY <1>1, <1>t, WriteOne
  <2> HIDE DEF a, b
  <2>4. /\ q \in Seq(Writes) /\ \A k \in DOMAIN q : DOMAIN q[k] \in {{x}, {Port}}
    BY <2>3
  <2> HIDE DEF q, r
  <2>5. Asks("cli", q) /\ ram' = r
    BY <1>a, <1>w, <2>1, <2>2, <2>4
  <2>6. AskedOf("cli", q)
    BY <2>2, <2>4, <2>5 DEF AskedOf
  <2> QED
    BY <1>w, <2>5, <2>6
<1>6. ASSUME Configured PROVE \E w \in Writers : \E q : Asks(w, q) /\ AskedOf(w, q)
  <2>1. PICK n \in Networks : Idle("smt") /\ Stores("smt", Done(ram, InfoCollected(n)))
    BY <1>6 DEF Configured
  <2>2. reboots' \in BOOLEAN
    BY <1>0, <1>6 DEF Configured
  <2> DEFINE q == InfoCollected(n)
  <2>3. q \in Seq(Writes) /\ InPairs(q, n) /\ 1 \in DOMAIN q /\ q[1] = SetSsid(n)
    BY Collected
  <2> HIDE DEF q
  <2>4. Asks("smt", q) /\ ram' = ram
    BY <1>0, <1>a, <1>w, <2>1, <2>2, <2>3 DEF q
  <2>5. AskedOf("smt", q)
    BY <2>3, <2>4 DEF AskedOf
  <2> QED
    BY <1>w, <2>4, <2>5
<1> QED
  BY <1>2, <1>3, <1>4, <1>5, <1>6

-----------------------------------------------------------------------------
(* The invariant, part by part. *)

(* The six kinds of step.                                                  *)
Stepped ==
  \/ CheckDefaultValue \/ DefaultsChecked \/ ReadProfile
  \/ LoadedBy(Loaded(at).ram, Loaded(at).writes)
  \/ \E w \in Writers : \E q : Asks(w, q) /\ AskedOf(w, q)
  \/ \E w \in Writers : WrittenBy(w, Head(pend[w]))
  \/ Begun

(* Every step is of one of the six kinds.                                  *)
LEMMA Steps ==
  ASSUME IInv, Next
  PROVE  Stepped
<1>1. Typed
  BY DEF IInv
<1>2. phase = "load" => at \in 1..13
  BY DEF IInv, Served
<1>3. ASSUME LoadInfoFromFlash PROVE Stepped
  <2>1. at \in 1..13
    BY <1>2, <1>3 DEF LoadInfoFromFlash
  <2>2. LoadedBy(Loaded(at).ram, Loaded(at).writes)
    BY <1>1, <1>3, <2>1, LoadStep
  <2> QED
    BY <2>2 DEF Stepped
<1>4. ASSUME RenameWifiSSID \/ EasylinkRequest \/ Upgraded \/ ModifyServer \/ Configured PROVE Stepped
  BY <1>1, <1>4, AskStep DEF Stepped
<1>5. ASSUME NEW w \in Writers, WriteItem(w) PROVE Stepped
  BY <1>1, <1>5, WriteStep DEF Stepped
<1>6. ASSUME EJ_App_reboot \/ PowerCut PROVE Stepped
  BY <1>6, RestartStep DEF Stepped
<1>7. ASSUME CheckDefaultValue \/ DefaultsChecked \/ ReadProfile PROVE Stepped
  BY <1>7 DEF Stepped
<1> QED
  BY <1>3, <1>4, <1>5, <1>6, <1>7 DEF Next

(* The types.                                                              *)
LEMMA TypedNext ==
  ASSUME IInv, Next
  PROVE  Typed'
<1> USE DEF Typed
<1>0. Typed
  BY DEF IInv
<1>n. NoRam \in Rams
  <2>1. [i \in 1..7 |-> "build"] \in [1..7 -> Texts]
    BY DEF Texts, BuiltIn
  <2>2. "NULL" \in Stored /\ ABSENT \in Stored
    BY DEF Stored, Texts, BuiltIn
  <2> QED
    BY <2>1, <2>2 DEF NoRam, Rams
<1>1. ASSUME CheckDefaultValue PROVE Typed'
  <2>1. PICK i \in DOMAIN Defaults :
           /\ at' = i + 1
           /\ \/ flash' = [flash EXCEPT ![ItemAt(i)] = DefaultAt(i)] /\ failed' = failed
              \/ flash' = flash /\ failed' = TRUE
    BY <1>0, <1>1, CheckStep
  <2>2. i \in Nat
    BY KnownItem
  <2>3. DefaultAt(i) \in Stored
    BY Defaulting DEF Stored, Texts
  <2>4. flash' \in [Items -> Stored] /\ failed' \in BOOLEAN /\ at' \in Nat \ {0}
    <3>0. failed' \in BOOLEAN
      BY <1>0, <2>1, Zenon
    <3>1. at' \in Nat \ {0}
      BY <2>1, <2>2
    <3>2. flash' \in [Items -> Stored]
      BY <1>0, <2>1, <2>3
    <3> QED
      BY <3>0, <3>1, <3>2
  <2>5. UNCHANGED <<pend, ram, phase, reboots>>
    BY <1>1 DEF CheckDefaultValue
  <2> QED
    BY <1>0, <2>4, <2>5
<1>2. ASSUME DefaultsChecked PROVE Typed'
  BY <1>0, <1>2 DEF DefaultsChecked
<1>3. ASSUME ReadProfile PROVE Typed'
  BY <1>0, <1>3 DEF ReadProfile
<1>4. ASSUME LoadedBy(Loaded(at).ram, Loaded(at).writes) PROVE Typed'
  BY <1>0, <1>4 DEF LoadedBy
<1>5. ASSUME NEW w \in Writers, NEW q, Asks(w, q) PROVE Typed'
  BY <1>0, <1>5 DEF Asks
<1>6. ASSUME NEW w \in Writers, WrittenBy(w, Head(pend[w])) PROVE Typed'
  BY <1>0, <1>6 DEF WrittenBy
<1>7. ASSUME Begun PROVE Typed'
  <2>0. failed' \in BOOLEAN /\ reboots' \in BOOLEAN
    BY <1>7, Zenon DEF Begun
  <2>1. ram' \in Rams /\ phase' = "defaults" /\ at' = 1
    BY <1>7, <1>n, Zenon DEF Begun
  <2>2. pend' \in [Writers -> Seq(Writes)] /\ flash' \in [Items -> Stored]
    BY <1>0, <1>7 DEF Begun
  <2> QED
    BY <2>0, <2>1, <2>2
<1> QED
  BY <1>1, <1>2, <1>3, <1>4, <1>5, <1>6, <1>7, Steps DEF Stepped

(* The rest of the pairs are pairs.                                        *)
LEMMA PairsLeft ==
  ASSUME Typed, NEW w \in Writers, WrittenBy(w, Head(pend[w])), NEW n, InPairs(pend[w], n)
  PROVE  InPairs(pend'[w], n)
<1> DEFINE q == pend[w]
           t == pend'[w]
<1>1. /\ Len(q) \in Nat \ {0} /\ DOMAIN q = 1..Len(q) /\ DOMAIN t = 1..Len(q) - 1 /\ Len(t) = Len(q) - 1
      /\ \A k \in DOMAIN t : t[k] = q[k + 1] /\ k + 1 \in DOMAIN q
  BY DEF WrittenBy
<1> SUFFICES ASSUME NEW k \in DOMAIN t
             PROVE  \/ t[k] = SetSsid(n) /\ k + 1 \in DOMAIN t /\ t[k + 1] = SetPsk(n)
                    \/ t[k] = SetPsk(n)
                    \/ t[k] = SetWep(n) /\ k = Len(t)
  BY DEF InPairs
<1>2. \/ q[k + 1] = SetSsid(n) /\ k + 1 + 1 \in DOMAIN q /\ q[k + 1 + 1] = SetPsk(n)
      \/ q[k + 1] = SetPsk(n)
      \/ q[k + 1] = SetWep(n) /\ k + 1 = Len(q)
  BY <1>1 DEF InPairs
<1> HIDE DEF q, t
<1>3. k \in Nat /\ t[k] = q[k + 1]
  BY <1>1
<1>4. k + 1 + 1 \in DOMAIN q => k + 1 \in DOMAIN t /\ t[k + 1] = q[k + 1 + 1]
  BY <1>1, <1>3
<1>5. k + 1 = Len(q) => k = Len(t)
  BY <1>1, <1>3
<1> QED
  BY <1>2, <1>3, <1>4, <1>5

(* Who writes what.                                                        *)
LEMMA ApartNext ==
  ASSUME IInv, Next
  PROVE  Apart'
<1>0. Typed /\ Apart
  BY DEF IInv
<1> DEFINE MainOnly(q) == \A k \in DOMAIN q : DOMAIN q[k] \subseteq
                            OwnItems \cup (IF phase' = "run" THEN {<<"STA", "SmartConfig">>} ELSE {})
           CliOnly(q) == \A k \in DOMAIN q : DOMAIN q[k] \subseteq {Own("cloudDomainAddr"), Port}
           SmtOnly(q) == q = << >> \/ \E n \in Networks : InPairs(q, n)
<1>p. ASSUME phase' # "run" => pend'["smt"] = << >> /\ pend'["cli"] = << >>,
             phase' \in {"defaults", "profile"} => pend'["main"] = << >>,
             MainOnly(pend'["main"]), CliOnly(pend'["cli"]), SmtOnly(pend'["smt"]),
             phase' \in {"defaults", "profile"} => ram' = NoRam
      PROVE  Apart'
  BY <1>p DEF Apart, InPairs, SetSsid, SetPsk, SetWep, Addr, Port
<1>w. Writers = {"main", "smt", "cli"}
  BY DEF Writers
<1>e. MainOnly(<< >>) /\ CliOnly(<< >>) /\ SmtOnly(<< >>)
  OBVIOUS
<1>s. /\ phase # "run" => pend["smt"] = << >> /\ pend["cli"] = << >>
      /\ phase \in {"defaults", "profile"} => pend["main"] = << >> /\ ram = NoRam
      /\ phase' = phase => MainOnly(pend["main"])
      /\ CliOnly(pend["cli"]) /\ SmtOnly(pend["smt"])
  BY <1>0 DEF Apart
<1> HIDE DEF MainOnly, CliOnly, SmtOnly
<1>1. ASSUME CheckDefaultValue \/ DefaultsChecked PROVE Apart'
  <2>1. UNCHANGED <<pend, ram>> /\ phase = "defaults" /\ phase' \in {"defaults", "profile"}
    BY <1>1 DEF CheckDefaultValue, DefaultsChecked
  <2> QED
    BY <1>e, <1>s, <1>p, <2>1
<1>3. ASSUME ReadProfile PROVE Apart'
  <2>1. UNCHANGED <<pend, ram>> /\ phase = "profile" /\ phase' = "load"
    BY <1>3 DEF ReadProfile
  <2> QED
    BY <1>e, <1>s, <1>p, <2>1
<1>4. ASSUME LoadedBy(Loaded(at).ram, Loaded(at).writes) PROVE Apart'
  <2>1. /\ phase = "load" /\ phase' \in {"load", "run"}
        /\ pend'["smt"] = pend["smt"] /\ pend'["cli"] = pend["cli"]
        /\ \A k \in DOMAIN pend'["main"] : DOMAIN pend'["main"][k] \subseteq OwnItems
    BY <1>4, <1>w DEF LoadedBy
  <2>2. MainOnly(pend'["main"])
    BY <2>1 DEF MainOnly
  <2> QED
    BY <1>s, <1>p, <2>1, <2>2
<1>5. ASSUME NEW w \in Writers, NEW q, Asks(w, q), AskedOf(w, q) PROVE Apart'
  <2>1. /\ phase = "run" /\ phase' = "run" /\ pend'[w] = q
        /\ \A v \in Writers \ {w} : pend'[v] = pend[v]
    BY <1>5 DEF Asks
  <2>2. (w = "main" => MainOnly(q)) /\ (w = "cli" => CliOnly(q)) /\ (w = "smt" => SmtOnly(q))
    BY <1>5, <2>1 DEF AskedOf, MainOnly, CliOnly, SmtOnly
  <2> QED
    BY <1>s, <1>p, <1>w, <2>1, <2>2
<1>6. ASSUME NEW w \in Writers, WrittenBy(w, Head(pend[w])) PROVE Apart'
  <2>1. /\ pend[w] # << >> /\ UNCHANGED <<phase, ram>>
        /\ \A v \in Writers \ {w} : pend'[v] = pend[v]
        /\ \A k \in DOMAIN pend'[w] : pend'[w][k] = pend[w][k + 1] /\ k + 1 \in DOMAIN pend[w]
    BY <1>6 DEF WrittenBy
  <2>2. MainOnly(pend[w]) => MainOnly(pend'[w])
    BY <2>1 DEF MainOnly
  <2>3. CliOnly(pend[w]) => CliOnly(pend'[w])
    BY <2>1 DEF CliOnly
  <2>4. SmtOnly(pend[w]) => SmtOnly(pend'[w])
    BY <1>0, <1>6, <2>1, PairsLeft DEF SmtOnly
  <2>5. /\ phase' # "run" => pend'["smt"] = << >> /\ pend'["cli"] = << >>
        /\ phase' \in {"defaults", "profile"} => FALSE
    BY <1>s, <1>w, <2>1
  <2>6. MainOnly(pend'["main"]) /\ CliOnly(pend'["cli"]) /\ SmtOnly(pend'["smt"])
    BY <1>s, <1>w, <2>1, <2>2, <2>3, <2>4
  <2> QED
    BY <1>p, <2>5, <2>6
<1>7. ASSUME Begun PROVE Apart'
  <2>1. ram' = NoRam /\ pend'["main"] = << >> /\ pend'["smt"] = << >> /\ pend'["cli"] = << >>
    BY <1>7, <1>w DEF Begun
  <2> QED
    BY <1>e, <1>p, <2>1
<1> QED
  BY <1>1, <1>3, <1>4, <1>5, <1>6, <1>7, Steps DEF Stepped

(* An item that was written stays so.                                      *)
LEMMA NeverForgotten ==
  ASSUME IInv, Next, NEW x \in Items, flash[x] # ABSENT
  PROVE  flash'[x] # ABSENT
<1>0. Typed
  BY DEF IInv
<1>t. ABSENT \notin Texts
  BY BootAssumption DEF Texts
<1>1. ASSUME CheckDefaultValue PROVE flash'[x] # ABSENT
  <2>1. PICK i \in DOMAIN Defaults :
           \/ flash' = [flash EXCEPT ![ItemAt(i)] = DefaultAt(i)]
           \/ flash' = flash
    BY <1>0, <1>1, CheckStep
  <2>2. DefaultAt(i) # ABSENT
    BY <1>t, Defaulting DEF Texts
  <2> QED
    BY <1>0, <2>1, <2>2 DEF Typed
<1>2. ASSUME NEW w \in Writers, WrittenBy(w, Head(pend[w])) PROVE flash'[x] # ABSENT
  <2> DEFINE h == Head(pend[w])
  <2>1. h \in Writes /\ (flash' = flash \/ flash'[x] = IF x \in DOMAIN h THEN h[x] ELSE flash[x])
    BY <1>2 DEF WrittenBy
  <2> HIDE DEF h
  <2>2. x \in DOMAIN h => h[x] \in Texts
    BY <2>1, WriteType
  <2> QED
    BY <1>t, <2>1, <2>2
<1>3. ASSUME flash' = flash PROVE flash'[x] # ABSENT
  BY <1>3
<1>4. DefaultsChecked \/ ReadProfile \/ LoadedBy(Loaded(at).ram, Loaded(at).writes) \/ Begun => flash' = flash
  BY DEF DefaultsChecked, ReadProfile, LoadedBy, Begun
<1>5. \A w, q : Asks(w, q) => flash' = flash
  BY DEF Asks
<1> QED
  BY <1>1, <1>2, <1>3, <1>4, <1>5, Steps DEF Stepped

(* check_default_value leaves nothing behind it that is missing.           *)
LEMMA DefaultedNext ==
  ASSUME IInv, Next
  PROVE  Defaulted'
<1>0. Typed /\ Defaulted
  BY DEF IInv
<1> SUFFICES ASSUME phase' = "defaults", ~ failed', NEW j \in DOMAIN Defaults, j < at'
             PROVE  flash'[ItemAt(j)] # ABSENT
  BY DEF Defaulted, ItemAt
<1>k. ItemAt(j) \in Items /\ j \in Nat \ {0}
  BY Defaulting, KnownItem
<1>1. ASSUME CheckDefaultValue PROVE flash'[ItemAt(j)] # ABSENT
  <2>1. PICK i \in DOMAIN Defaults :
           /\ at' = i + 1
           /\ \A k \in DOMAIN Defaults : at <= k /\ k < i => flash[ItemAt(k)] # ABSENT
           /\ \/ flash' = [flash EXCEPT ![ItemAt(i)] = DefaultAt(i)] /\ failed' = failed
              \/ flash' = flash /\ failed' = TRUE
    BY <1>0, <1>1, CheckStep
  <2>2. flash' = [flash EXCEPT ![ItemAt(i)] = DefaultAt(i)] /\ ~ failed /\ phase = "defaults"
    BY <1>1, <2>1 DEF CheckDefaultValue
  <2>3. DefaultAt(i) # ABSENT /\ ItemAt(i) \in Items /\ i \in Nat
    BY BootAssumption, Defaulting, KnownItem
  <2>4. CASE j = i
    BY <1>0, <2>2, <2>3, <2>4 DEF Typed
  <2>5. CASE j < at
    <3>1. flash[ItemAt(j)] # ABSENT
      BY <1>0, <2>2, <2>5 DEF Defaulted
    <3> QED
      BY <3>1, <1>k, NeverForgotten
  <2>6. CASE at <= j /\ j < i
    <3>1. flash[ItemAt(j)] # ABSENT
      BY <2>1, <2>6
    <3> QED
      BY <3>1, <1>k, NeverForgotten
  <2>7. at \in Nat
    BY <1>0 DEF Typed
  <2> QED
    BY <1>k, <2>1, <2>3, <2>4, <2>5, <2>6, <2>7
<1>2. ASSUME NEW w \in Writers, WrittenBy(w, Head(pend[w])) PROVE flash'[ItemAt(j)] # ABSENT
  <2>1. phase = "defaults" /\ ~ failed /\ j < at
    BY <1>2 DEF WrittenBy
  <2>2. flash[ItemAt(j)] # ABSENT
    BY <1>0, <2>1 DEF Defaulted
  <2> QED
    BY <1>k, <2>2, NeverForgotten
<1>3. ASSUME Begun PROVE flash'[ItemAt(j)] # ABSENT
  <2>1. at' = 1
    BY <1>3 DEF Begun
  <2> QED
    BY <1>k, <2>1
<1>4. DefaultsChecked \/ ReadProfile \/ LoadedBy(Loaded(at).ram, Loaded(at).writes) => phase' # "defaults"
  BY DEF DefaultsChecked, ReadProfile, LoadedBy
<1>5. \A w, q : Asks(w, q) => phase' # "defaults"
  BY DEF Asks
<1> QED
  BY <1>1, <1>2, <1>3, <1>4, <1>5, Steps DEF Stepped

(* What the radio is started with is what the flash holds.                 *)
LEMMA ProfiledNext ==
  ASSUME IInv, Next
  PROVE  Profiled'
<1>0. Typed /\ Defaulted /\ Profiled /\ Apart
  BY DEF IInv
<1>k. Known \subseteq Items
  BY DEF Known, Items
<1>1. ASSUME phase' # "defaults", ~ failed', NEW x \in Known PROVE flash'[x] # ABSENT
  <2> SUFFICES flash[x] # ABSENT
    BY <1>k, NeverForgotten
  <2>1. ASSUME DefaultsChecked PROVE flash[x] # ABSENT
    <3>1. PICK i \in DOMAIN Defaults : x = ItemAt(i)
      BY DEF Known
    <3>2. phase = "defaults" /\ Missing(at) = {} /\ ~ failed
      BY <1>1, <2>1 DEF DefaultsChecked
    <3>3. at \in Nat /\ i \in 1..Len(Defaults) /\ Len(Defaults) \in Nat
      BY <1>0, KnownItem DEF Typed
    <3>4. CASE i < at
      BY <1>0, <3>1, <3>2, <3>4 DEF Defaulted
    <3>5. CASE ~ i < at
      <4>1. i \in at..Len(Defaults)
        BY <3>3, <3>5
      <4> QED
        BY <3>1, <3>2, <4>1 DEF Missing
    <3> QED
      BY <3>4, <3>5
  <2>2. ASSUME phase # "defaults", ~ failed PROVE flash[x] # ABSENT
    BY <1>0, <2>2 DEF Profiled
  <2>3. ReadProfile \/ LoadedBy(Loaded(at).ram, Loaded(at).writes) => phase # "defaults" /\ ~ failed
    BY <1>1 DEF ReadProfile, LoadedBy
  <2>4. \A w, q : Asks(w, q) => phase # "defaults" /\ ~ failed
    BY <1>1 DEF Asks
  <2>5. \A w, h : WrittenBy(w, h) => phase # "defaults" /\ ~ failed
    BY <1>1 DEF WrittenBy
  <2>6. ~ CheckDefaultValue /\ ~ Begun
    BY <1>1 DEF CheckDefaultValue, Begun
  <2> QED
    BY <2>1, <2>2, <2>3, <2>4, <2>5, <2>6, Steps DEF Stepped
<1> DEFINE Fits == Ssid \in DOMAIN profile /\ DOMAIN profile \subseteq Known
           Same == \A x \in DOMAIN profile : profile[x] = flash[x]
<1>2. ASSUME phase' = "load" PROVE Fits' /\ (~ failed' => Same')
  <2>0. phase = "load" => Fits /\ (~ failed => Same)
    BY <1>0 DEF Profiled, ProfileRead
  <2>1. ASSUME ReadProfile PROVE Fits' /\ (~ failed' => Same')
    <3>1. /\ phase = "profile" /\ failed' = failed /\ flash' = flash
          /\ profile' = Over(WifiConfigInit, Over(TcpipConfigInit, DhcpConfigInit))
      BY <2>1 DEF ReadProfile
    <3> DEFINE p == Over(WifiConfigInit, Over(TcpipConfigInit, DhcpConfigInit))
    <3>2. /\ Ssid \in DOMAIN p /\ DOMAIN p \subseteq Known
          /\ (\A x \in Known : flash[x] # ABSENT) => \A x \in DOMAIN p : p[x] = flash[x]
      BY ProfileValue
    <3> HIDE DEF p
    <3>3. ~ failed => \A x \in Known : flash[x] # ABSENT
      BY <1>0, <3>1 DEF Profiled
    <3>4. profile' = p
      BY <3>1 DEF p
    <3>5. Fits'
      BY <3>2, <3>4 DEF Ssid, Known, ItemAt
    <3>6. ASSUME ~ failed' PROVE Same'
      BY <3>1, <3>2, <3>3, <3>4, <3>6
    <3> QED
      BY <3>5, <3>6
  <2>2. ASSUME phase = "load", profile' = profile, failed' = failed, flash' = flash
        PROVE  Fits' /\ (~ failed' => Same')
    <3>1. Fits' <=> Fits
      BY <2>2 DEF Ssid, Known, ItemAt
    <3>2. Same' <=> Same
      BY <2>2
    <3> QED
      BY <2>0, <2>2, <3>1, <3>2
  <2>3. LoadedBy(Loaded(at).ram, Loaded(at).writes) => 
          phase = "load" /\ profile' = profile /\ failed' = failed /\ flash' = flash
    BY DEF LoadedBy
  <2>4. ASSUME NEW w \in Writers, WrittenBy(w, Head(pend[w])) PROVE Fits' /\ (~ failed' => Same')
    <3> DEFINE h == Head(pend[w])
    <3>1. /\ phase = "load" /\ profile' = profile /\ failed' = failed
          /\ pend[w] # << >> /\ h = pend[w][1] /\ 1 \in DOMAIN pend[w]
          /\ flash' = flash \/ \A x \in Items : flash'[x] = IF x \in DOMAIN h THEN h[x] ELSE flash[x]
      BY <1>2, <2>4 DEF WrittenBy
    <3> HIDE DEF h
    <3>2. w = "main"
      BY <1>0, <3>1 DEF Apart, Writers
    <3>3. DOMAIN h \subseteq OwnItems
      BY <1>0, <3>1, <3>2 DEF Apart
    <3>4. \A x \in Known : x \notin OwnItems
      BY Defaulting DEF Known
    <3>5. \A x \in Known : flash'[x] = flash[x]
      BY <1>k, <3>1, <3>3, <3>4
    <3>6. Fits'
      BY <2>0, <3>1 DEF Ssid, Known, ItemAt
    <3>7. ASSUME ~ failed' PROVE Same'
      BY <2>0, <3>1, <3>5, <3>7
    <3> QED
      BY <3>6, <3>7
  <2>5. \A w, q : Asks(w, q) => phase' = "run"
    BY DEF Asks
  <2>6. CheckDefaultValue \/ DefaultsChecked \/ Begun => phase' # "load"
    BY DEF CheckDefaultValue, DefaultsChecked, Begun
  <2> QED
    BY <1>2, <2>1, <2>2, <2>3, <2>4, <2>5, <2>6, Steps DEF Stepped
<1>3. Known' = Known
  BY DEF Known, ItemAt
<1> QED
  BY <1>1, <1>2, <1>3 DEF Profiled, ProfileRead

(* A step that leaves the name, the key and the writes of the smart        *)
(* connection alone leaves them of one network.                            *)
LEMMA PairingKept ==
  ASSUME Pairing, flash'[Ssid] = flash[Ssid], flash'[Psk] = flash[Psk], pend'["smt"] = pend["smt"],
         torn \subseteq torn'
  PROVE  Pairing'
<1>1. KeyNext' <=> KeyNext
  BY DEF KeyNext, Psk
<1>2. Agree' <=> Agree
  BY DEF Agree, Ssid, Psk
<1> QED
  BY <1>1, <1>2 DEF Pairing, Ssid, Psk

(* The name and the key.                                                   *)
LEMMA PairingNext ==
  ASSUME IInv, Next
  PROVE  Pairing'
<1>0. Typed /\ Apart /\ Pairing /\ Apart' /\ Typed'
  BY ApartNext, TypedNext DEF IInv
<1>k. Ssid \in Items /\ Psk \in Items /\ Ssid \notin OwnItems /\ Psk \notin OwnItems /\ Ssid # Psk
  BY KnownNames, Defaulting DEF Known, Items, Ssid, Psk, OwnItems, Own
<1>w. Writers = {"main", "smt", "cli"}
  BY DEF Writers
<1>a. ABSENT \notin Networks /\ "MTK_SOFT_AP" \notin Networks
  BY BootAssumption
<1>1. ASSUME CheckDefaultValue PROVE Pairing'
  <2>1. PICK i \in DOMAIN Defaults :
           /\ flash[ItemAt(i)] = ABSENT
           /\ flash' = [flash EXCEPT ![ItemAt(i)] = DefaultAt(i)] \/ flash' = flash
    BY <1>0, <1>1, CheckStep
  <2>2. pend' = pend /\ torn' = torn
    BY <1>1 DEF CheckDefaultValue
  <2>3. CASE flash'[Ssid] = flash[Ssid] /\ flash'[Psk] = flash[Psk]
    BY <1>0, <2>2, <2>3, PairingKept
  <2>4. CASE ~ (flash'[Ssid] = flash[Ssid] /\ flash'[Psk] = flash[Psk])
    <3>1. /\ flash' = [flash EXCEPT ![ItemAt(i)] = DefaultAt(i)]
          /\ ItemAt(i) = Ssid \/ ItemAt(i) = Psk
      BY <1>0, <1>k, <2>1, <2>4 DEF Typed
    <3>2. ~ KeyNext
      BY <1>0, <1>1 DEF Apart, CheckDefaultValue, KeyNext
    <3>3. ~ KeyNext'
      BY <2>2, <3>2 DEF KeyNext, Psk
    <3>4. CASE "credentials" \in torn
      BY <2>2, <3>4 DEF Pairing
    <3>5. CASE Agree
      <4>1. flash[Ssid] \in {ABSENT, "MTK_SOFT_AP"} /\ flash[Psk] \in {ABSENT, "12345678"}
        BY <1>a, <2>1, <3>1, <3>5 DEF Agree
      <4>2. /\ ItemAt(i) = Ssid => flash'[Ssid] = "MTK_SOFT_AP" /\ flash'[Psk] = flash[Psk]
            /\ ItemAt(i) = Psk => flash'[Psk] = "12345678" /\ flash'[Ssid] = flash[Ssid]
        BY <1>0, <1>k, <3>1, Defaulting DEF Typed
      <4>3. Agree'
        BY <3>1, <4>1, <4>2 DEF Agree, Ssid, Psk
      <4> QED
        BY <3>3, <4>3 DEF Pairing
    <3> QED
      BY <1>0, <3>2, <3>4, <3>5 DEF Pairing
  <2> QED
    BY <2>3, <2>4
<1>2. ASSUME DefaultsChecked \/ ReadProfile PROVE Pairing'
  <2>1. flash' = flash /\ pend' = pend /\ torn' = torn
    BY <1>2 DEF DefaultsChecked, ReadProfile
  <2> QED
    BY <1>0, <2>1, PairingKept
<1>3. ASSUME LoadedBy(Loaded(at).ram, Loaded(at).writes) PROVE Pairing'
  <2>1. flash' = flash /\ pend'["smt"] = pend["smt"] /\ torn' = torn
    BY <1>3, <1>w DEF LoadedBy
  <2> QED
    BY <1>0, <2>1, PairingKept
<1>4. ASSUME NEW w \in Writers, NEW q, Asks(w, q), AskedOf(w, q) PROVE Pairing'
  <2>1. flash' = flash /\ torn' = torn /\ pend[w] = << >> /\ pend'[w] = q /\ \A v \in Writers \ {w} : pend'[v] = pend[v]
    BY <1>4 DEF Asks
  <2>2. CASE w # "smt"
    BY <1>0, <1>w, <2>1, <2>2, PairingKept
  <2>3. CASE w = "smt"
    <3>1. PICK n \in Networks : 1 \in DOMAIN q /\ q[1] = SetSsid(n)
      BY <1>4, <2>3 DEF AskedOf
    <3>2. Head(q) = SetSsid(n)
      BY <3>1
    <3>3. Psk \notin DOMAIN SetSsid(n)
      BY SmtWrites
    <3>4. ~ KeyNext /\ ~ KeyNext'
      BY <2>1, <2>3, <3>2, <3>3 DEF KeyNext, Psk
    <3>5. Agree' <=> Agree
      BY <2>1 DEF Agree, Ssid, Psk
    <3> QED
      BY <1>0, <2>1, <3>4, <3>5 DEF Pairing
  <2> QED
    BY <2>2, <2>3
<1>5. ASSUME NEW w \in Writers, WrittenBy(w, Head(pend[w])) PROVE Pairing'
  <2> DEFINE h == Head(pend[w])
  <2>1. /\ h \in Writes /\ 1 \in DOMAIN pend[w] /\ h = pend[w][1] /\ pend[w] # << >>
        /\ \A v \in Writers \ {w} : pend'[v] = pend[v]
        /\ \A k \in DOMAIN pend'[w] : pend'[w][k] = pend[w][k + 1]
        /\ DOMAIN pend'[w] = 1..Len(pend[w]) - 1 /\ DOMAIN pend[w] = 1..Len(pend[w])
        /\ Len(pend[w]) \in Nat
    BY <1>5 DEF WrittenBy
  <2>2. \/ torn' = torn /\ \A x \in Items : flash'[x] = IF x \in DOMAIN h THEN h[x] ELSE flash[x]
        \/ torn' = torn \cup Unstored(h) /\ flash' = flash
    BY <1>5 DEF WrittenBy
  <2>t. torn \subseteq torn'
    BY <2>2
  <2> HIDE DEF h
  <2>3. CASE w # "smt"
    <3>1. Ssid \notin DOMAIN h /\ Psk \notin DOMAIN h
      <4>1. CASE w = "main"
        BY <1>0, <1>k, <2>1, <4>1 DEF Apart, Ssid, Psk
      <4>2. CASE w = "cli"
        <5>1. {Own("cloudDomainAddr"), Port} \subseteq OwnItems
          BY OwnNames DEF Port
        <5> QED
          BY <1>0, <1>k, <2>1, <4>2, <5>1 DEF Apart
      <4> QED
        BY <1>w, <2>3, <4>1, <4>2
    <3>2. flash'[Ssid] = flash[Ssid] /\ flash'[Psk] = flash[Psk] /\ pend'["smt"] = pend["smt"]
      BY <1>k, <1>w, <2>1, <2>2, <2>3, <3>1
    <3> QED
      BY <1>0, <2>t, <3>2, PairingKept
  <2>4. CASE w = "smt"
    <3> DEFINE q == pend["smt"]
               r == pend'["smt"]
    <3>1. PICK n \in Networks : InPairs(q, n)
      BY <1>0, <2>1, <2>4 DEF Apart
    <3>2. \/ h = SetSsid(n) /\ 2 \in DOMAIN q /\ q[2] = SetPsk(n)
          \/ h = SetPsk(n)
          \/ h = SetWep(n) /\ 1 = Len(q)
      <4>1. 1 \in DOMAIN q /\ h = q[1] /\ 1 + 1 = 2
        BY <2>1, <2>4
      <4> HIDE DEF q
      <4>2. \/ q[1] = SetSsid(n) /\ 1 + 1 \in DOMAIN q /\ q[1 + 1] = SetPsk(n)
            \/ q[1] = SetPsk(n)
            \/ q[1] = SetWep(n) /\ 1 = Len(q)
        BY <3>1, <4>1, Zenon DEF InPairs
      <4> QED
        BY <4>1, <4>2
    <3>3. KeyNext <=> Psk \in DOMAIN h
      BY <2>1, <2>4 DEF KeyNext
    <3>4. r # << >> => Head(r) = r[1] /\ 1 \in DOMAIN r /\ r[1] = q[2]
      <4>1. r \in Seq(Writes)
        BY <1>0, <1>w DEF Typed
      <4>2. r # << >> => 1 \in DOMAIN r /\ Head(r) = r[1]
        BY <4>1, LenProperties
      <4> QED
        BY <2>1, <2>4, <4>2
    <3>c. CASE "credentials" \in torn'
      BY <3>c DEF Pairing
    <3>5. CASE h = SetSsid(n) /\ "credentials" \notin torn'
      <4>1. Ssid \in DOMAIN h /\ Psk \notin DOMAIN h /\ h[Ssid] = n
        BY <3>5, SmtWrites
      <4>2. r[1] = SetPsk(n) /\ r # << >> /\ Head(r) = SetPsk(n)
        <5>1. 2 \in DOMAIN q /\ q[2] = SetPsk(n)
          <6>1. h # SetPsk(n) /\ h # SetWep(n)
            BY <4>1, SmtWrites
          <6> QED
            BY <3>2, <6>1
        <5>2. 1 \in DOMAIN r
          BY <2>1, <2>4, <5>1
        <5>3. r # << >>
          BY <5>2
        <5> QED
          BY <3>4, <5>1, <5>3
      <4>3. Psk \in DOMAIN SetPsk(n) /\ SetPsk(n)[Psk] = n
        BY SmtWrites
      <4>4. KeyNext' /\ Head(pend'["smt"])[Psk] = n
        BY <4>2, <4>3 DEF KeyNext, Psk
      <4>5. flash'[Ssid] = n
        <5>1. CASE \A x \in Items : flash'[x] = IF x \in DOMAIN h THEN h[x] ELSE flash[x]
          BY <1>k, <4>1, <5>1
        <5>2. CASE torn' = torn \cup Unstored(h) /\ flash' = flash
          <6>1. "credentials" \notin Unstored(h)
            BY <3>5, <5>2
          <6>2. ~ Changes(h)
            BY <4>1, <6>1 DEF Unstored, Ssid
          <6>3. flash[Ssid] = h[Ssid]
            BY <4>1, <6>2 DEF Changes
          <6> QED
            BY <4>1, <5>2, <6>3
        <5> QED
          BY <2>2, <5>1, <5>2
      <4> QED
        BY <4>4, <4>5 DEF Pairing, Ssid, Psk
    <3>6. CASE h = SetPsk(n) /\ "credentials" \notin torn'
      <4>1. Psk \in DOMAIN h /\ Ssid \notin DOMAIN h /\ h[Psk] = n
        BY <3>6, SmtWrites
      <4>2. flash[Ssid] \in Networks /\ h[Psk] = flash[Ssid]
        BY <1>0, <2>1, <2>4, <2>t, <3>3, <3>6, <4>1 DEF Pairing
      <4>3. flash'[Ssid] = n /\ flash'[Psk] = n
        <5>1. CASE \A x \in Items : flash'[x] = IF x \in DOMAIN h THEN h[x] ELSE flash[x]
          BY <1>k, <4>1, <4>2, <5>1
        <5>2. CASE torn' = torn \cup Unstored(h) /\ flash' = flash
          <6>1. "credentials" \notin Lost(<<h>>)
            BY <3>6, <5>2 DEF Unstored
          <6>2. <<h>> # << >> /\ <<h>>[1] = h
            OBVIOUS
          <6>3. ~ Changes(h)
            BY <4>1, <6>1, <6>2 DEF Lost, Psk
          <6>4. flash[Psk] = h[Psk]
            BY <4>1, <6>3 DEF Changes
          <6> QED
            BY <4>1, <4>2, <5>2, <6>4
        <5> QED
          BY <2>2, <5>1, <5>2
      <4>4. KeyNext' => Head(pend'["smt"])[Psk] = n
        <5>1. ASSUME r # << >>, Psk \in DOMAIN Head(r) PROVE Head(r)[Psk] = n
          <6>1. Head(r) = q[2] /\ 2 \in DOMAIN q
            BY <2>1, <2>4, <3>4, <5>1
          <6>2. q[2] \in {SetSsid(n), SetPsk(n), SetWep(n)}
            BY <3>1, <6>1 DEF InPairs
          <6> QED
            BY <5>1, <6>1, <6>2, SmtWrites
        <5> QED
          BY <5>1 DEF KeyNext, Psk
      <4>5. Agree'
        BY <4>3 DEF Agree, Ssid, Psk
      <4> QED
        BY <4>3, <4>4, <4>5 DEF Pairing, Ssid, Psk
    <3>7. CASE h = SetWep(n) /\ "credentials" \notin torn'
      <4>1. Ssid \notin DOMAIN h /\ Psk \notin DOMAIN h
        BY <3>7, SmtWrites
      <4>2. h # SetSsid(n) /\ h # SetPsk(n)
        BY <4>1, SmtWrites
      <4>3. 1 = Len(q)
        BY <3>2, <4>2
      <4>4. r = << >>
        BY <2>1, <2>4, <3>4, <4>3
      <4>5. ~ KeyNext /\ ~ KeyNext'
        BY <3>3, <4>1, <4>4 DEF KeyNext, Psk
      <4>6. flash'[Ssid] = flash[Ssid] /\ flash'[Psk] = flash[Psk]
        BY <1>k, <2>2, <4>1
      <4>7. Agree
        BY <1>0, <2>t, <3>7, <4>5 DEF Pairing
      <4>8. Agree'
        BY <4>6, <4>7 DEF Agree, Ssid, Psk
      <4> QED
        BY <4>5, <4>8 DEF Pairing
    <3> QED
      BY <3>2, <3>c, <3>5, <3>6, <3>7
  <2> QED
    BY <2>3, <2>4
<1>6. ASSUME Begun PROVE Pairing'
  <2>1. flash' = flash /\ pend'["smt"] = << >> /\ Lost(pend["smt"]) \subseteq torn' /\ torn \subseteq torn'
    BY <1>6, <1>w DEF Begun
  <2>2. ~ KeyNext'
    BY <2>1 DEF KeyNext
  <2>3. Agree' <=> Agree
    BY <2>1 DEF Agree, Ssid, Psk
  <2>4. CASE "credentials" \in torn'
    BY <2>4 DEF Pairing
  <2>5. CASE "credentials" \notin torn' /\ ~ KeyNext
    BY <1>0, <2>1, <2>2, <2>3, <2>5 DEF Pairing
  <2>6. CASE "credentials" \notin torn' /\ KeyNext
    <3> DEFINE h == Head(pend["smt"])
    <3>1. Psk \in DOMAIN h /\ flash[Ssid] \in Networks /\ h[Psk] = flash[Ssid] /\ pend["smt"] # << >>
      BY <1>0, <2>1, <2>6 DEF Pairing, KeyNext
    <3>2. h = pend["smt"][1]
      BY <3>1
    <3> HIDE DEF h
    <3>3. "credentials" \notin Lost(pend["smt"])
      BY <2>1, <2>6
    <3>4. ~ Changes(h)
      BY <3>1, <3>2, <3>3 DEF Lost, Psk
    <3>5. flash[Psk] = flash[Ssid]
      BY <3>1, <3>4 DEF Changes
    <3>6. Agree
      BY <3>1, <3>5 DEF Agree
    <3> QED
      BY <2>2, <2>3, <3>6 DEF Pairing
  <2> QED
    BY <2>4, <2>5, <2>6
<1> QED
  BY <1>1, <1>2, <1>3, <1>4, <1>5, <1>6, Steps DEF Stepped

(* A step that leaves the version, the writes of mainLoop and what is in   *)
(* RAM alone leaves it whole.                                              *)
LEMMA VersionedKept ==
  ASSUME Versioned, \A x \in Parts : flash'[x] = flash[x], pend'["main"] = pend["main"],
         torn \subseteq torn', ram'.version = ram.version
  PROVE  Versioned'
<1>1. Parts' = Parts /\ Own("publishWeek") \in Parts /\ Own("publishWeek")' = Own("publishWeek")
  BY OwnNames DEF Parts, Own
<1>2. WeekLast => WeekLast'
  BY <1>1 DEF WeekLast
<1>3. NoVersion => NoVersion'
  BY <1>1 DEF NoVersion
<1>4. \A u : Wholly(u) => Wholly(u)'
  BY <1>1 DEF Wholly
<1>5. VersionWhole => VersionWhole'
  BY DEF VersionWhole
<1> QED
  BY <1>2, <1>3, <1>4, <1>5 DEF Versioned, Texts, BuiltIn

(* Seven writes of one version are one version.                            *)
LEMMA SevenWrites ==
  ASSUME NEW v \in [1..7 -> Texts], pend'["main"] = VersionWrites(v)
  PROVE  /\ WeekLast'
         /\ \A u : (\A k \in 1..7 : v[k] = u) => Wholly(u)'
<1> DEFINE q == VersionWrites(v)
           X(k) == Own(VersionFields[k])
<1>1. DOMAIN q = 1..7 /\ \A k \in 1..7 : DOMAIN q[k] = {X(k)} /\ q[k][X(k)] = v[k] /\ X(k) \in Parts
  BY VersionWritten
<1>2. VersionFields = <<"versionRule", "functionCode", "hardwareVersion", "softwareVersionMsb",
                        "softwareVersionLsb", "publishYear", "publishWeek">>
  BY DEF VersionFields
<1>3. \A k \in 1..7 : k # 7 => X(k) # Own("publishWeek")
  BY <1>2 DEF Own
<1>4. \A x \in Parts : \E k \in 1..7 : x = X(k)
  BY DEF Parts
<1> HIDE DEF q, X
<1>5. pend'["main"] = q
  BY DEF q
<1>6. WeekLast'
  <2> SUFFICES ASSUME NEW k \in DOMAIN q, Own("publishWeek") \in DOMAIN q[k], NEW j \in DOMAIN q, k < j
               PROVE  FALSE
    BY <1>5 DEF WeekLast, Parts, Own
  <2>1. k = 7
    BY <1>1, <1>3
  <2> QED
    BY <1>1, <2>1
<1>7. ASSUME NEW u, \A k \in 1..7 : v[k] = u PROVE Wholly(u)'
  <2>1. ASSUME NEW x \in Parts
        PROVE  /\ \A k \in DOMAIN q : x \in DOMAIN q[k] => q[k][x] = u
               /\ ~ \A k \in DOMAIN q : x \notin DOMAIN q[k]
    BY <1>1, <1>4, <1>7
  <2> QED
    BY <1>5, <2>1 DEF Wholly, Parts, Own
<1> QED
  BY <1>6, <1>7

(* The version.                                                            *)
LEMMA VersionedNext ==
  ASSUME IInv, Next
  PROVE  Versioned'
<1>0. Typed /\ Apart /\ Versioned /\ Typed'
  BY TypedNext DEF IInv
<1> DEFINE pw == Own("publishWeek")
<1>k. /\ Parts \subseteq Items /\ Parts \subseteq OwnItems /\ pw \in Parts
      /\ Parts' = Parts
  BY OwnNames DEF Parts, Own
<1>n. Parts \cap Known = {}
  BY <1>k, Defaulting DEF Known
<1>w. Writers = {"main", "smt", "cli"}
  BY DEF Writers
<1>t. /\ "build" \in Texts \ {GARBAGE} /\ "upgrade" \in Texts \ {GARBAGE}
      /\ (Texts \ {GARBAGE})' = Texts \ {GARBAGE}
  BY BootAssumption DEF Texts, BuiltIn
<1> HIDE DEF pw
<1>1. ASSUME CheckDefaultValue PROVE Versioned'
  <2>1. PICK i \in DOMAIN Defaults :
           flash' = [flash EXCEPT ![ItemAt(i)] = DefaultAt(i)] \/ flash' = flash
    BY <1>0, <1>1, CheckStep
  <2>2. ItemAt(i) \notin Parts
    BY <1>n, Defaulting
  <2>3. \A x \in Parts : flash'[x] = flash[x]
    BY <1>0, <1>k, <2>1, <2>2 DEF Typed
  <2>4. pend' = pend /\ torn' = torn /\ ram' = ram
    BY <1>1 DEF CheckDefaultValue
  <2> QED
    BY <1>0, <2>3, <2>4, VersionedKept
<1>2. ASSUME DefaultsChecked \/ ReadProfile PROVE Versioned'
  <2>1. flash' = flash /\ pend' = pend /\ torn' = torn /\ ram' = ram
    BY <1>2 DEF DefaultsChecked, ReadProfile
  <2> QED
    BY <1>0, <2>1, VersionedKept
<1>3. ASSUME LoadedBy(Loaded(at).ram, Loaded(at).writes) PROVE Versioned'
  <2> DEFINE q == Loaded(at).writes
  <2>1. /\ flash' = flash /\ torn' = torn /\ pend["main"] = << >> /\ pend'["main"] = q
        /\ at # 13 => \A k \in DOMAIN q : DOMAIN q[k] \cap Parts = {}
        /\ at # 13 => ram'.version = ram.version
    BY <1>3 DEF LoadedBy
  <2>2. CASE at # 13
    <3> HIDE DEF q
    <3>1. WeekLast'
      BY <1>k, <2>1, <2>2 DEF WeekLast
    <3>2. NoVersion => NoVersion'
      BY <1>k, <2>1, <2>2 DEF NoVersion, Own
    <3>3. \A u : Wholly(u) => Wholly(u)'
      BY <1>k, <2>1, <2>2 DEF Wholly
    <3>4. VersionWhole'
      BY <1>0, <2>1, <2>2 DEF Versioned, VersionWhole
    <3> QED
      BY <1>0, <1>t, <2>1, <3>1, <3>2, <3>3, <3>4 DEF Versioned
  <2>3. CASE at = 13
    <3>1. PICK v \in [1..7 -> Texts] :
            /\ LoadVersion = Done([ram EXCEPT !.version = v], VersionWrites(v))
            /\ flash[pw] # ABSENT => 
                 \A k \in 1..7 : flash[Own(VersionFields[k])] # ABSENT => v[k] = flash[Own(VersionFields[k])]
            /\ flash[pw] = ABSENT => v = [k \in 1..7 |-> "build"]
      BY <1>0, VersionStep DEF pw
    <3>2. Loaded(at) = LoadVersion
      BY <2>3, LoadSteps
    <3>3. ram' = [ram EXCEPT !.version = v] /\ pend'["main"] = VersionWrites(v)
      BY <1>3, <3>1, <3>2 DEF LoadedBy, Done
    <3>4. ram'.version = v
      BY <1>0, <3>3 DEF Typed, Rams
    <3>5. WeekLast' /\ \A u : (\A k \in 1..7 : v[k] = u) => Wholly(u)'
      BY <3>3, SevenWrites
    <3>6. CASE "version" \in torn
      BY <2>1, <3>5, <3>6 DEF Versioned, VersionWhole
    <3>7. CASE flash[pw] = ABSENT
      <4>1. \A k \in 1..7 : v[k] = "build"
        BY <3>1, <3>7
      <4>2. VersionWhole'
        BY <1>t, <3>4, <4>1 DEF VersionWhole
      <4> QED
        BY <1>t, <3>5, <4>1, <4>2 DEF Versioned
    <3>8. CASE flash[pw] # ABSENT /\ "version" \notin torn
      <4>1. PICK u \in Texts \ {GARBAGE} : Wholly(u)
        BY <1>0, <3>8 DEF Versioned, NoVersion, pw
      <4>2. \A x \in Parts : flash[x] = u
        BY <2>1, <4>1 DEF Wholly
      <4>3. u # ABSENT
        BY BootAssumption, <4>1 DEF Texts
      <4>4. \A k \in 1..7 : v[k] = u
        <5>1. \A k \in 1..7 : Own(VersionFields[k]) \in Parts
          BY DEF Parts
        <5> QED
          BY <3>1, <3>8, <4>2, <4>3, <5>1
      <4>5. VersionWhole'
        BY <3>4, <4>1, <4>4 DEF VersionWhole
      <4> QED
        BY <1>t, <3>5, <4>1, <4>4, <4>5 DEF Versioned
    <3> QED
      BY <3>6, <3>7, <3>8
  <2> QED
    BY <2>2, <2>3
<1>4. ASSUME NEW w \in Writers, NEW q, Asks(w, q), AskedOf(w, q) PROVE Versioned'
  <2>1. flash' = flash /\ torn' = torn /\ pend[w] = << >> /\ pend'[w] = q /\ \A v \in Writers \ {w} : pend'[v] = pend[v]
    BY <1>4 DEF Asks
  <2>2. CASE w # "main"
    <3>1. ram'.version = ram.version /\ pend'["main"] = pend["main"]
      BY <1>4, <1>w, <2>1, <2>2 DEF AskedOf
    <3> QED
      BY <1>0, <2>1, <3>1, VersionedKept
  <2>3. CASE w = "main" /\ ram'.version = ram.version /\ \A k \in DOMAIN q : DOMAIN q[k] \cap Parts = {}
    <3>1. WeekLast'
      BY <1>k, <2>1, <2>3 DEF WeekLast
    <3>2. NoVersion => NoVersion'
      BY <1>k, <2>1, <2>3 DEF NoVersion, Own
    <3>3. \A u : Wholly(u) => Wholly(u)'
      BY <1>k, <2>1, <2>3 DEF Wholly
    <3>4. VersionWhole'
      BY <1>0, <2>1, <2>3 DEF Versioned, VersionWhole
    <3> QED
      BY <1>0, <1>t, <2>1, <3>1, <3>2, <3>3, <3>4 DEF Versioned
  <2>4. CASE w = "main" /\ ram'.version = Upgrade /\ q = VersionWrites(Upgrade)
    <3>1. Upgrade \in [1..7 -> Texts] /\ \A k \in 1..7 : Upgrade[k] = "upgrade"
      BY <1>t DEF Upgrade
    <3>2. WeekLast' /\ Wholly("upgrade")'
      BY <2>1, <2>4, <3>1, SevenWrites
    <3>3. VersionWhole'
      BY <1>t, <2>4, <3>1 DEF VersionWhole
    <3> QED
      BY <1>t, <3>2, <3>3 DEF Versioned
  <2> QED
    BY <1>4, <2>2, <2>3, <2>4 DEF AskedOf
<1>5. ASSUME NEW w \in Writers, WrittenBy(w, Head(pend[w])) PROVE Versioned'
  <2> DEFINE h == Head(pend[w])
             q == pend["main"]
             r == pend'["main"]
  <2>1. /\ h \in Writes /\ 1 \in DOMAIN pend[w] /\ h = pend[w][1] /\ pend[w] # << >>
        /\ \A v \in Writers \ {w} : pend'[v] = pend[v]
        /\ \A k \in DOMAIN pend'[w] : pend'[w][k] = pend[w][k + 1] /\ k + 1 \in DOMAIN pend[w]
        /\ DOMAIN pend'[w] = 1..Len(pend[w]) - 1 /\ DOMAIN pend[w] = 1..Len(pend[w])
        /\ Len(pend[w]) \in Nat /\ ram' = ram
    BY <1>5 DEF WrittenBy
  <2>2. \/ torn' = torn /\ \A x \in Items : flash'[x] = IF x \in DOMAIN h THEN h[x] ELSE flash[x]
        \/ torn' = torn \cup Unstored(h) /\ flash' = flash
    BY <1>5 DEF WrittenBy
  <2>t. torn \subseteq torn'
    BY <2>2
  <2> HIDE DEF h
  <2>3. CASE w # "main"
    <3>1. Parts \cap DOMAIN h = {}
      <4>1. CASE w = "smt"
        <5>1. PICK n \in Networks : InPairs(pend["smt"], n)
          BY <1>0, <2>1, <4>1 DEF Apart
        <5>2. h \in {SetSsid(n), SetPsk(n), SetWep(n)}
          BY <2>1, <4>1, <5>1 DEF InPairs
        <5> QED
          BY <1>k, <5>2, SmtWrites
      <4>2. CASE w = "cli"
        <5>1. {Own("cloudDomainAddr"), Port} \cap Parts = {}
          BY OwnNames DEF Port
        <5> QED
          BY <1>0, <2>1, <4>2, <5>1 DEF Apart
      <4> QED
        BY <1>w, <2>3, <4>1, <4>2
    <3>2. (\A x \in Parts : flash'[x] = flash[x]) /\ pend'["main"] = pend["main"]
      BY <1>k, <1>w, <2>1, <2>2, <2>3, <3>1
    <3> QED
      BY <1>0, <2>1, <2>t, <3>2, VersionedKept
  <2>4. CASE w = "main"
    <3>1. /\ 1 \in DOMAIN q /\ h = q[1] /\ \A k \in DOMAIN r : r[k] = q[k + 1] /\ k + 1 \in DOMAIN q
          /\ DOMAIN r = 1..Len(q) - 1 /\ DOMAIN q = 1..Len(q) /\ Len(q) \in Nat
      BY <2>1, <2>4
    <3>2. \A k \in DOMAIN q : k = 1 \/ \E j \in DOMAIN r : k = j + 1
      <4> SUFFICES ASSUME NEW k \in DOMAIN q, k # 1 PROVE \E j \in DOMAIN r : k = j + 1
        OBVIOUS
      <4>1. k - 1 \in 1..Len(q) - 1 /\ k = (k - 1) + 1
        BY <3>1
      <4> QED
        BY <3>1, <4>1
    <3>3. WeekLast'
      <4>1. ASSUME NEW k \in DOMAIN r, pw \in DOMAIN r[k], NEW j \in DOMAIN r, k < j
            PROVE  DOMAIN r[j] \cap Parts = {}
        <5>1. k + 1 \in DOMAIN q /\ j + 1 \in DOMAIN q /\ k + 1 < j + 1 /\ r[k] = q[k + 1] /\ r[j] = q[j + 1]
          BY <3>1, <4>1
        <5> QED
          BY <1>0, <4>1, <5>1 DEF Versioned, WeekLast, pw
      <4> QED
        BY <1>k, <4>1 DEF WeekLast, pw, Own
    <3>4. VersionWhole'
      BY <1>0, <2>1, <2>t DEF Versioned, VersionWhole
    <3>5. CASE "version" \in torn'
      BY <3>3, <3>4, <3>5 DEF Versioned
    <3>6. CASE "version" \notin torn' /\ NoVersion
      <4>1. DOMAIN h \cap Parts = {} /\ \A k \in DOMAIN r : DOMAIN r[k] \cap Parts = {}
        BY <3>1, <3>6 DEF NoVersion
      <4>2. flash'[pw] = flash[pw]
        BY <1>k, <2>2, <4>1
      <4>3. NoVersion'
        BY <1>k, <3>6, <4>1, <4>2 DEF NoVersion, pw, Own
      <4> QED
        BY <3>3, <3>4, <4>3 DEF Versioned
    <3>7. CASE "version" \notin torn' /\ \E u \in Texts \ {GARBAGE} : Wholly(u)
      <4>1. PICK u \in Texts \ {GARBAGE} : Wholly(u)
        BY <3>7
      <4>2. \A x \in Parts : /\ \A k \in DOMAIN q : x \in DOMAIN q[k] => q[k][x] = u
                             /\ (\A k \in DOMAIN q : x \notin DOMAIN q[k]) => flash[x] = u
        BY <4>1 DEF Wholly
      <4>3. \A x \in Parts : \A k \in DOMAIN r : x \in DOMAIN r[k] => r[k][x] = u
        BY <3>1, <4>2
      <4>4. \A x \in Parts : (\A k \in DOMAIN r : x \notin DOMAIN r[k]) /\ x \notin DOMAIN h => flash[x] = u
        <5> SUFFICES ASSUME NEW x \in Parts, \A k \in DOMAIN r : x \notin DOMAIN r[k], x \notin DOMAIN h
                     PROVE  \A k \in DOMAIN q : x \notin DOMAIN q[k]
          BY <4>2
        <5>1. \A j \in DOMAIN r : q[j + 1] = r[j]
          BY <3>1
        <5> QED
          BY <3>1, <3>2, <5>1
      <4>5. \A x \in Parts : x \in DOMAIN h => h[x] = u
        BY <3>1, <4>2
      <4>6. ASSUME \A x \in Parts : x \in DOMAIN h => flash'[x] = h[x]
            PROVE  Versioned'
        <5>1. \A x \in Parts : (\A k \in DOMAIN r : x \notin DOMAIN r[k]) => flash'[x] = u
          BY <1>k, <2>2, <4>4, <4>5, <4>6
        <5>2. Wholly(u)'
          BY <1>k, <4>3, <5>1 DEF Wholly
        <5> QED
          BY <1>t, <3>3, <3>4, <4>1, <5>2 DEF Versioned
      <4>7. CASE \A x \in Items : flash'[x] = IF x \in DOMAIN h THEN h[x] ELSE flash[x]
        BY <1>k, <4>6, <4>7
      <4>8. CASE torn' = torn \cup Unstored(h) /\ flash' = flash /\ ~ Changes(h)
        BY <4>6, <4>8 DEF Changes
      <4>9. CASE torn' = torn \cup Unstored(h) /\ flash' = flash /\ Changes(h)
        <5>1. "version" \notin Unstored(h)
          BY <3>7, <4>9
        <5>2. VersionAt(h) <=> DOMAIN h \cap Parts # {}
          BY DEF VersionAt, Parts
        <5>3. CASE DOMAIN h \cap Parts = {}
          BY <4>6, <5>3
        <5>4. CASE DOMAIN h \cap Parts # {}
          <6>1. pw \in DOMAIN h
            BY <4>9, <5>1, <5>2, <5>4 DEF Unstored, pw
          <6>2. "version" \notin Lost(<<h>>)
            BY <5>1 DEF Unstored
          <6>3. <<h>> # << >> /\ 1 \in DOMAIN <<h>> /\ <<h>>[1] = h
            OBVIOUS
          <6>4. flash[pw] = ABSENT
            BY <4>9, <5>2, <5>4, <6>2, <6>3 DEF Lost, Has, pw
          <6>5. \A k \in DOMAIN r : DOMAIN r[k] \cap Parts = {}
            <7> SUFFICES ASSUME NEW k \in DOMAIN r PROVE DOMAIN r[k] \cap Parts = {}
              OBVIOUS
            <7>1. k + 1 \in DOMAIN q /\ r[k] = q[k + 1] /\ 1 < k + 1
              BY <3>1
            <7> QED
              BY <1>0, <3>1, <6>1, <7>1 DEF Versioned, WeekLast, pw
          <6>6. NoVersion'
            BY <1>k, <4>9, <6>4, <6>5 DEF NoVersion, pw, Own
          <6> QED
            BY <3>3, <3>4, <6>6 DEF Versioned
        <5> QED
          BY <5>3, <5>4
      <4> QED
        BY <2>2, <4>7, <4>8, <4>9
    <3> QED
      BY <1>0, <2>t, <3>5, <3>6, <3>7 DEF Versioned
  <2> QED
    BY <2>3, <2>4
<1>6. ASSUME Begun PROVE Versioned'
  <2> DEFINE q == pend["main"]
  <2>1. flash' = flash /\ pend'["main"] = << >> /\ Lost(q) \subseteq torn' /\ torn \subseteq torn' /\ ram' = NoRam
    BY <1>6, <1>w DEF Begun
  <2>2. WeekLast'
    BY <2>1 DEF WeekLast
  <2>3. VersionWhole'
    BY <1>t, <2>1 DEF VersionWhole, NoRam
  <2>4. CASE "version" \in torn'
    BY <2>2, <2>3, <2>4 DEF Versioned
  <2>5. CASE flash[pw] = ABSENT
    <3>1. NoVersion'
      BY <1>k, <2>1, <2>5 DEF NoVersion, pw, Own
    <3> QED
      BY <2>2, <2>3, <3>1 DEF Versioned
  <2>6. CASE "version" \notin torn' /\ flash[pw] # ABSENT
    <3>1. PICK u \in Texts \ {GARBAGE} : Wholly(u)
      BY <1>0, <2>1, <2>6 DEF Versioned, NoVersion, pw
    <3>2. ASSUME NEW k \in DOMAIN q, DOMAIN q[k] \cap Parts # {} PROVE ~ Changes(q[k])
      <4>1. q # << >>
        BY <3>2
      <4>2. "version" \notin Lost(q)
        BY <2>1, <2>6
      <4>3. VersionAt(q[k])
        BY <3>2 DEF VersionAt, Parts
      <4>4. Has("publishWeek")
        BY <2>6 DEF Has, pw
      <4> HIDE DEF q
      <4> QED
        BY <4>1, <4>2, <4>3, <4>4 DEF Lost
    <3>3. ASSUME NEW x \in Parts PROVE flash[x] = u
      <4>1. CASE \A k \in DOMAIN q : x \notin DOMAIN q[k]
        BY <3>1, <4>1 DEF Wholly
      <4>2. CASE \E k \in DOMAIN q : x \in DOMAIN q[k]
        <5>1. PICK k \in DOMAIN q : x \in DOMAIN q[k]
          BY <4>2
        <5>2. ~ Changes(q[k]) /\ q[k][x] = u
          BY <3>1, <3>2, <5>1 DEF Wholly
        <5> QED
          BY <5>1, <5>2 DEF Changes
      <4> QED
        BY <4>1, <4>2
    <3>4. Wholly(u)'
      BY <1>k, <2>1, <3>3 DEF Wholly
    <3> QED
      BY <1>t, <2>2, <2>3, <3>1, <3>4 DEF Versioned
  <2> QED
    BY <2>4, <2>5, <2>6
<1> QED
  BY <1>1, <1>2, <1>3, <1>4, <1>5, <1>6, Steps DEF Stepped

(* What the flash and mainLoop's writes say of the server, and what the    *)
(* load does.                                                              *)
Announced == AddrFirst /\ (flash[Addr] # ABSENT => flash[Port] # ABSENT \/ "server" \in torn \/ PortNext)
Loading ==
  /\ (phase = "load" /\ at <= 4 /\ ram.addr # ABSENT) => flash[Addr] # ABSENT
  /\ (phase = "load" /\ at > 4 /\ PortDue) => ram.port # ABSENT
  /\ (phase = "load" /\ at > 4 /\ ram.addr # ABSENT) => ram.port # ABSENT \/ "server" \in torn
  /\ (phase = "load" /\ at > 10) => ram.addr # ABSENT
  /\ phase = "load" => at \in 1..13
  /\ ServerKnown

(* The two halves of Served are all of it.                                 *)
LEMMA ServedParts == (Served <=> Announced /\ Loading) /\ (Announced' /\ Loading' => Served')
BY DEF Served, Announced, Loading

(* Steps that leave mainLoop's writes and the address alone.               *)
LEMMA AnnouncedKept ==
  ASSUME Announced, flash'[Addr] = flash[Addr], flash[Port] # ABSENT => flash'[Port] # ABSENT,
         pend'["main"] = pend["main"], torn \subseteq torn'
  PROVE  Announced'
<1>1. Addr' = Addr /\ Port' = Port
  BY DEF Addr, Port, Own
<1>2. AddrFirst'
  BY <1>1 DEF Announced, AddrFirst
<1>3. PortNext' <=> PortNext
  BY <1>1 DEF PortNext
<1> QED
  BY <1>1, <1>2, <1>3 DEF Announced

(* A step of the load.                                                     *)
LEMMA ServedLoad ==
  ASSUME Typed, Served, at \in 1..13, LoadedBy(Loaded(at).ram, Loaded(at).writes)
  PROVE  Served'
<1> DEFINE r == Loaded(at).ram
           q == Loaded(at).writes
<1>1. /\ phase = "load" /\ pend["main"] = << >> /\ at' = at + 1
      /\ phase' = IF at = 13 THEN "run" ELSE "load"
      /\ flash' = flash /\ torn' = torn /\ ram' = r /\ pend'["main"] = q /\ q \in Seq(Writes)
  BY DEF LoadedBy
<1>2. Addr' = Addr /\ Port' = Port /\ Addr # Port /\ Addr \in Items /\ Port \in Items
  BY OwnNames DEF Addr, Port, Own
<1>3. ~ PortNext
  BY <1>1 DEF PortNext
<1>4. flash[Addr] # ABSENT => flash[Port] # ABSENT \/ "server" \in torn
  BY <1>3 DEF Served
<1>5. /\ (at <= 4 /\ ram.addr # ABSENT) => flash[Addr] # ABSENT
      /\ (at > 4 /\ flash[Port] # ABSENT) => ram.port # ABSENT
      /\ (at > 4 /\ ram.addr # ABSENT) => ram.port # ABSENT \/ "server" \in torn
      /\ at > 10 => ram.addr # ABSENT
  BY <1>1 DEF Served, PortDue
<1> HIDE DEF r, q
\* What has to be said of a step of the load.
<1> DEFINE First == \A k \in DOMAIN q : Addr \in DOMAIN q[k] =>
                      flash[Addr] # ABSENT \/ (k + 1 \in DOMAIN q /\ DOMAIN q[k + 1] = {Port})
           Due == flash[Port] # ABSENT \/ \E k \in DOMAIN q : Port \in DOMAIN q[k]
           Good == /\ First
                   /\ (at < 4 /\ r.addr # ABSENT) => flash[Addr] # ABSENT
                   /\ (at >= 4 /\ Due) => r.port # ABSENT
                   /\ (at >= 4 /\ r.addr # ABSENT) => r.port # ABSENT \/ "server" \in torn
                   /\ at >= 10 => r.addr # ABSENT
<1>g. ASSUME Good PROVE Served'
  <2>1. AddrFirst'
    BY <1>1, <1>2, <1>g DEF AddrFirst
  <2>2. PortDue' <=> Due
    BY <1>1, <1>2 DEF PortDue
  <2>3. at' > 4 <=> at >= 4
    BY <1>1
  <2>4. at' > 10 <=> at >= 10
    BY <1>1
  <2>5. at' <= 4 <=> at < 4
    BY <1>1
  <2>6. at # 13 => at' \in 1..13
    BY <1>1
  <2> HIDE DEF Due, First
  <2>7. ServerKnown'
    BY <1>1, <1>g DEF ServerKnown
  <2>8. Announced'
    BY <1>1, <1>2, <1>4, <2>1 DEF Announced
  <2>9. Loading'
    BY <1>1, <1>2, <1>g, <2>2, <2>3, <2>4, <2>5, <2>6, <2>7 DEF Loading
  <2> QED
    BY <2>8, <2>9, ServedParts
<1>6. ASSUME at \in {1, 2, 5, 9, 11, 12} PROVE Good
  <2>1. /\ r.addr = ram.addr /\ r.port = ram.port
        /\ \A k \in DOMAIN q : Addr \notin DOMAIN q[k] /\ Port \notin DOMAIN q[k]
    BY <1>6, Plains DEF Plain, r, q
  <2>2. First /\ (Due => flash[Port] # ABSENT)
    BY <2>1
  <2> HIDE DEF First, Due
  <2> QED
    BY <1>5, <1>6, <2>1, <2>2
<1>7. ASSUME at \in {3, 7} PROVE Good
  <2>1. /\ r.port = ram.port /\ r.addr = IF flash[Addr] = ABSENT THEN ram.addr ELSE flash[Addr]
        /\ \A k \in DOMAIN q : DOMAIN q[k] = {Addr} /\ flash[Addr] # ABSENT
    BY <1>7, AddrSteps DEF r, q
  <2>2. First /\ (Due => flash[Port] # ABSENT)
    BY <1>2, <2>1
  <2> HIDE DEF First, Due
  <2> QED
    BY <1>4, <1>5, <1>7, <2>1, <2>2
<1>8. ASSUME at \in {4, 6, 8} PROVE Good
  <2>1. /\ r.addr = ram.addr
        /\ \A k \in DOMAIN q : DOMAIN q[k] = {Port}
        /\ r.port # ABSENT \/ (r.port = ram.port /\ q = << >>)
        /\ (at = 4 /\ flash[Port] # ABSENT) => r.port # ABSENT
    BY <1>8, PortSteps DEF r, q
  <2>2. First /\ (r.port = ABSENT => (Due => flash[Port] # ABSENT))
    BY <1>2, <2>1
  <2> HIDE DEF First, Due
  <2>3. at < 10
    BY <1>8
  <2>4. CASE at = 4
    BY <1>4, <1>5, <2>1, <2>2, <2>4
  <2>5. CASE at \in {6, 8}
    BY <1>5, <2>1, <2>2, <2>5
  <2> QED
    BY <1>8, <2>4, <2>5
<1>9. ASSUME at = 10 PROVE Good
  <2>1. Loaded(at) = DefaultServer
    BY <1>9, LoadSteps
  <2>2. /\ ram.addr # ABSENT => r = ram /\ q = << >>
        /\ ram.addr = ABSENT => /\ r.addr # ABSENT /\ r.port # ABSENT
                                /\ DOMAIN q = 1..2 /\ DOMAIN q[1] = {Addr} /\ DOMAIN q[2] = {Port}
    BY <2>1, DefaultStep DEF r, q
  <2>3. CASE ram.addr # ABSENT
    <3>1. First /\ (Due => flash[Port] # ABSENT)
      BY <2>2, <2>3
    <3> HIDE DEF First, Due
    <3> QED
      BY <1>5, <1>9, <2>2, <2>3, <3>1
  <2>4. CASE ram.addr = ABSENT
    <3>1. First
      <4>1. \A k \in DOMAIN q : k = 1 \/ k = 2
        BY <2>2, <2>4
      <4>2. 1 + 1 \in DOMAIN q /\ DOMAIN q[1 + 1] = {Port} /\ Addr \notin DOMAIN q[2]
        BY <1>2, <2>2, <2>4
      <4> QED
        BY <4>1, <4>2
    <3> HIDE DEF First, Due
    <3> QED
      BY <1>9, <2>2, <2>4, <3>1
  <2> QED
    BY <2>3, <2>4
<1>10. ASSUME at = 13 PROVE Good
  <2>1. PICK v \in [1..7 -> Texts] : Loaded(at) = Done([ram EXCEPT !.version = v], VersionWrites(v))
    BY <1>10, LoadSteps, VersionStep
  <2>2. r = [ram EXCEPT !.version = v] /\ q = VersionWrites(v)
    BY <2>1 DEF Done, r, q
  <2>3. r.addr = ram.addr /\ r.port = ram.port
    BY <2>2 DEF Typed, Rams
  <2>4. \A k \in DOMAIN q : DOMAIN q[k] \subseteq Parts
    <3> DEFINE s == VersionWrites(v)
    <3>1. DOMAIN s = 1..7 /\ \A k \in 1..7 : DOMAIN s[k] = {Own(VersionFields[k])} /\ Own(VersionFields[k]) \in Parts
      BY VersionWritten
    <3> HIDE DEF s
    <3>2. \A k \in DOMAIN s : DOMAIN s[k] \subseteq Parts
      BY <3>1
    <3> QED
      BY <2>2, <3>2 DEF s
  <2>5. Addr \notin Parts /\ Port \notin Parts
    BY OwnNames DEF Addr, Port
  <2>6. First /\ (Due => flash[Port] # ABSENT)
    BY <2>4, <2>5
  <2> HIDE DEF First, Due
  <2> QED
    BY <1>5, <1>10, <2>3, <2>6
<1>11. at \in {1, 2, 5, 9, 11, 12} \/ at \in {3, 7} \/ at \in {4, 6, 8} \/ at = 10 \/ at = 13
  OBVIOUS
<1> HIDE DEF Good
<1> QED
  BY <1>6, <1>7, <1>8, <1>9, <1>10, <1>11, <1>g

(* The server.                                                             *)
LEMMA ServedNext ==
  ASSUME IInv, Next
  PROVE  Served'
<1>0. Typed /\ Apart /\ Served /\ Announced /\ Loading
  BY ServedParts DEF IInv
<1>k. /\ Addr' = Addr /\ Port' = Port /\ Addr # Port /\ Addr \in Items /\ Port \in Items
      /\ Addr \in OwnItems /\ Port \in OwnItems /\ Addr \notin Known /\ Port \notin Known
  BY OwnNames, Defaulting DEF Addr, Port, Own, Known
<1>w. Writers = {"main", "smt", "cli"}
  BY DEF Writers
<1>f. /\ flash[Port] # ABSENT => flash'[Port] # ABSENT
      /\ flash[Addr] # ABSENT => flash'[Addr] # ABSENT
  BY <1>k, NeverForgotten
<1>1. ASSUME CheckDefaultValue \/ DefaultsChecked PROVE Served'
  <2>1. flash'[Addr] = flash[Addr]
    <3>1. ASSUME CheckDefaultValue PROVE flash'[Addr] = flash[Addr]
      <4>1. PICK i \in DOMAIN Defaults :
               flash' = [flash EXCEPT ![ItemAt(i)] = DefaultAt(i)] \/ flash' = flash
        BY <1>0, <3>1, CheckStep
      <4>2. ItemAt(i) # Addr
        BY <1>k, Defaulting
      <4> QED
        BY <1>0, <1>k, <4>1, <4>2 DEF Typed
    <3> QED
      BY <1>1, <3>1 DEF DefaultsChecked
  <2>2. pend' = pend /\ torn' = torn /\ phase' \in {"defaults", "profile"}
    BY <1>1 DEF CheckDefaultValue, DefaultsChecked
  <2>3. Announced'
    BY <1>0, <1>f, <2>1, <2>2, AnnouncedKept
  <2>4. Loading'
    BY <2>2 DEF Loading, ServerKnown
  <2> QED
    BY <2>3, <2>4, ServedParts
<1>2. ASSUME ReadProfile PROVE Served'
  <2>1. /\ flash' = flash /\ pend' = pend /\ torn' = torn /\ phase' = "load" /\ at' = 1 /\ ram' = ram
        /\ phase = "profile"
    BY <1>2 DEF ReadProfile
  <2>2. ram.addr = ABSENT
    BY <1>0, <2>1 DEF Apart, NoRam
  <2>3. Announced'
    BY <1>0, <2>1, AnnouncedKept
  <2>4. Loading'
    BY <2>1, <2>2 DEF Loading, ServerKnown
  <2> QED
    BY <2>3, <2>4, ServedParts
<1>3. ASSUME LoadedBy(Loaded(at).ram, Loaded(at).writes) PROVE Served'
  <2>1. at \in 1..13
    BY <1>0, <1>3 DEF LoadedBy, Served
  <2> QED
    BY <1>0, <1>3, <2>1, ServedLoad
<1>4. ASSUME NEW w \in Writers, NEW q, Asks(w, q), AskedOf(w, q) PROVE Served'
  <2>1. /\ flash' = flash /\ torn' = torn /\ pend[w] = << >> /\ pend'[w] = q
        /\ \A v \in Writers \ {w} : pend'[v] = pend[v]
        /\ phase = "run" /\ phase' = "run" /\ ram'.addr = ram.addr /\ ram'.port \in {ram.port, "cli"}
    BY <1>4 DEF Asks
  <2>2. Loading'
    <3>1. "cli" # ABSENT
      BY BootAssumption DEF BuiltIn
    <3> QED
      BY <1>0, <2>1, <3>1 DEF Loading, ServerKnown
  <2>3. CASE w # "main"
    <3>1. Announced'
      BY <1>0, <1>w, <2>1, <2>3, AnnouncedKept
    <3> QED
      BY <2>2, <3>1, ServedParts
  <2>4. CASE w = "main"
    <3>1. \A k \in DOMAIN q : Addr \notin DOMAIN q[k]
      BY <1>4, <2>4 DEF AskedOf
    <3>2. AddrFirst'
      BY <1>k, <2>1, <2>4, <3>1 DEF AddrFirst
    <3>3. ~ PortNext
      BY <2>1, <2>4 DEF PortNext
    <3>4. Announced'
      BY <1>0, <1>k, <2>1, <3>2, <3>3 DEF Announced
    <3> QED
      BY <2>2, <3>4, ServedParts
  <2> QED
    BY <2>3, <2>4
<1>5. ASSUME NEW w \in Writers, WrittenBy(w, Head(pend[w])) PROVE Served'
  <2> DEFINE h == Head(pend[w])
             q == pend["main"]
             r == pend'["main"]
  <2>1. /\ h \in Writes /\ 1 \in DOMAIN pend[w] /\ h = pend[w][1] /\ pend[w] # << >>
        /\ \A v \in Writers \ {w} : pend'[v] = pend[v]
        /\ \A k \in DOMAIN pend'[w] : pend'[w][k] = pend[w][k + 1] /\ k + 1 \in DOMAIN pend[w]
        /\ DOMAIN pend'[w] = 1..Len(pend[w]) - 1 /\ DOMAIN pend[w] = 1..Len(pend[w])
        /\ Len(pend[w]) \in Nat /\ ram' = ram /\ phase' = phase /\ at' = at
    BY <1>5 DEF WrittenBy
  <2>2. \/ torn' = torn /\ \A x \in Items : flash'[x] = IF x \in DOMAIN h THEN h[x] ELSE flash[x]
        \/ torn' = torn \cup Unstored(h) /\ flash' = flash
    BY <1>5 DEF WrittenBy
  <2>t. torn \subseteq torn'
    BY <2>2
  <2>h. h = Head(pend[w])
    OBVIOUS
  <2> HIDE DEF h
  <2>3. CASE w # "main"
    <3>1. Addr \notin DOMAIN h
      <4>1. CASE w = "smt"
        <5>1. PICK n \in Networks : InPairs(pend["smt"], n)
          BY <1>0, <2>1, <4>1 DEF Apart
        <5>2. h \in {SetSsid(n), SetPsk(n), SetWep(n)}
          BY <2>1, <4>1, <5>1 DEF InPairs
        <5> QED
          BY <1>k, <5>2, SmtWrites
      <4>2. CASE w = "cli"
        <5>1. Addr \notin {Own("cloudDomainAddr"), Port}
          BY DEF Addr, Port, Own
        <5> QED
          BY <1>0, <2>1, <4>2, <5>1 DEF Apart
      <4> QED
        BY <1>w, <2>3, <4>1, <4>2
    <3>2. flash'[Addr] = flash[Addr] /\ pend'["main"] = pend["main"]
      BY <1>k, <1>w, <2>1, <2>2, <2>3, <3>1
    <3>3. phase = "run"
      BY <1>0, <1>w, <2>1, <2>3 DEF Apart
    <3>4. Announced'
      BY <1>0, <1>f, <2>t, <3>2, AnnouncedKept
    <3>5. Loading'
      BY <1>0, <2>1, <2>t, <3>3 DEF Loading, ServerKnown
    <3> QED
      BY <3>4, <3>5, ServedParts
  <2>4. CASE w = "main"
    <3>1. /\ 1 \in DOMAIN q /\ h = q[1] /\ \A k \in DOMAIN r : r[k] = q[k + 1] /\ k + 1 \in DOMAIN q
          /\ DOMAIN r = 1..Len(q) - 1 /\ DOMAIN q = 1..Len(q) /\ Len(q) \in Nat
      BY <2>1, <2>4
    <3>2. AddrFirst'
      <4> SUFFICES ASSUME NEW k \in DOMAIN r, Addr \in DOMAIN r[k], flash'[Addr] = ABSENT
                   PROVE  k + 1 \in DOMAIN r /\ DOMAIN r[k + 1] = {Port}
        BY <1>k DEF AddrFirst
      <4>1. k + 1 \in DOMAIN q /\ Addr \in DOMAIN q[k + 1] /\ flash[Addr] = ABSENT /\ k \in Nat
        BY <1>f, <3>1
      <4>2. k + 1 + 1 \in DOMAIN q /\ DOMAIN q[k + 1 + 1] = {Port}
        BY <1>0, <4>1 DEF Announced, AddrFirst
      <4>3. k + 1 \in DOMAIN r
        BY <3>1, <4>1, <4>2
      <4> QED
        BY <3>1, <4>2, <4>3
    <3>3. Announced'
      <4> SUFFICES ASSUME flash'[Addr] # ABSENT, flash'[Port] = ABSENT, "server" \notin torn'
                   PROVE  PortNext'
        BY <1>k, <3>2 DEF Announced
      <4>1. flash[Port] = ABSENT /\ "server" \notin torn
        BY <1>f, <2>t
      <4>2. CASE flash[Addr] # ABSENT
        \* The port was next: it is written, or its loss was noted.
        <5>1. DOMAIN h = {Port}
          BY <1>0, <2>4, <2>h, <4>1, <4>2 DEF Announced, PortNext
        <5>2. CASE \A x \in Items : flash'[x] = IF x \in DOMAIN h THEN h[x] ELSE flash[x]
          <6>1. flash'[Port] \in Texts
            BY <1>k, <2>1, <5>1, <5>2, WriteType
          <6> QED
            BY <6>1, BootAssumption DEF Texts
        <5>3. CASE torn' = torn \cup Unstored(h)
          <6>1. "server" \notin Lost(<<h>>)
            BY <5>3 DEF Unstored
          <6>2. <<h>> # << >> /\ <<h>>[1] = h
            OBVIOUS
          <6> QED
            BY <4>1, <5>1, <6>1, <6>2 DEF Lost, Has, Port
        <5> QED
          BY <2>2, <5>2, <5>3
      <4>3. CASE flash[Addr] = ABSENT
        <5>1. Addr \in DOMAIN h
          BY <1>k, <2>2, <4>3
        <5>2. 1 + 1 \in DOMAIN q /\ DOMAIN q[1 + 1] = {Port}
          BY <1>0, <3>1, <4>3, <5>1 DEF Announced, AddrFirst
        <5>3. 1 \in DOMAIN r /\ r[1] = q[1 + 1]
          BY <3>1, <5>2
        <5>4. r # << >> /\ Head(r) = r[1]
          BY <5>3
        <5> QED
          BY <1>k, <5>2, <5>3, <5>4 DEF PortNext
      <4> QED
        BY <4>2, <4>3
    <3>4. PortDue' => PortDue
      <4>1. (\E k \in DOMAIN r : Port \in DOMAIN r[k]) => \E k \in DOMAIN q : Port \in DOMAIN q[k]
        BY <3>1
      <4>2. flash'[Port] # ABSENT => flash[Port] # ABSENT \/ Port \in DOMAIN h
        BY <1>k, <2>2
      <4> QED
        BY <1>k, <3>1, <4>1, <4>2 DEF PortDue
    <3>5. Loading'
      <4> HIDE DEF q, r
      <4> QED
        BY <1>0, <1>f, <1>k, <2>1, <2>t, <3>4 DEF Loading, ServerKnown
    <3> QED
      BY <3>3, <3>5, ServedParts
  <2> QED
    BY <2>3, <2>4
<1>6. ASSUME Begun PROVE Served'
  <2> DEFINE q == pend["main"]
  <2>1. flash' = flash /\ pend'["main"] = << >> /\ Lost(q) \subseteq torn' /\ torn \subseteq torn' /\ phase' = "defaults"
    BY <1>6, <1>w DEF Begun
  <2>2. AddrFirst'
    BY <2>1 DEF AddrFirst
  <2>3. PortNext => flash[Port] # ABSENT \/ "server" \in Lost(q)
    <3> SUFFICES ASSUME q # << >>, DOMAIN Head(q) = {Port}, flash[Port] = ABSENT
                 PROVE  "server" \in Lost(q)
      BY DEF PortNext
    <3>1. Head(q) = q[1]
      OBVIOUS
    <3> HIDE DEF q
    <3> QED
      BY <3>1 DEF Lost, Has, Port
  <2>4. Announced'
    BY <1>0, <1>k, <2>1, <2>2, <2>3 DEF Announced
  <2>5. Loading'
    BY <2>1 DEF Loading, ServerKnown
  <2> QED
    BY <2>4, <2>5, ServedParts
<1> QED
  BY <1>1, <1>2, <1>3, <1>4, <1>5, <1>6, Steps DEF Stepped

-----------------------------------------------------------------------------
(* The theorems. *)

LEMMA Initially == Init => IInv
<1> SUFFICES ASSUME Init PROVE IInv
  OBVIOUS
<1>1. /\ \A x \in Items : flash[x] = ABSENT
      /\ \A w \in Writers : pend[w] = << >>
      /\ phase = "defaults" /\ at = 1 /\ ram = NoRam /\ failed = FALSE /\ reboots = FALSE /\ torn = {}
  BY DEF Init
<1>w. Writers = {"main", "smt", "cli"}
  BY DEF Writers
<1>2. Typed
  <2>1. flash \in [Items -> Stored] /\ pend \in [Writers -> Seq(Writes)]
    BY DEF Init, Stored
  <2>2. [i \in 1..7 |-> "build"] \in [1..7 -> Texts] /\ "NULL" \in Stored /\ ABSENT \in Stored
    BY DEF Texts, BuiltIn, Stored
  <2>3. ram \in Rams
    BY <1>1, <2>2 DEF NoRam, Rams
  <2>4. failed \in BOOLEAN /\ reboots \in BOOLEAN
    BY <1>1, Zenon
  <2> QED
    BY <1>1, <2>1, <2>3, <2>4 DEF Typed
<1>3. Apart
  BY <1>1, <1>w DEF Apart
<1>4. Defaulted
  <2>1. \A i \in DOMAIN Defaults : ~ i < 1
    BY KnownItem
  <2> QED
    BY <1>1, <2>1 DEF Defaulted
<1>5. Profiled
  BY <1>1 DEF Profiled, ProfileRead
<1>6. Pairing
  <2>1. Ssid \in Items /\ Psk \in Items
    BY KnownNames DEF Known, Items, Ssid, Psk
  <2> QED
    BY <1>1, <1>w, <2>1 DEF Pairing, KeyNext, Agree
<1>7. Versioned
  <2>1. Own("publishWeek") \in Items
    BY OwnNames
  <2>2. WeekLast /\ NoVersion
    BY <1>1, <1>w, <2>1 DEF WeekLast, NoVersion
  <2>3. VersionWhole
    BY <1>1, BootAssumption DEF VersionWhole, NoRam, BuiltIn
  <2> QED
    BY <2>2, <2>3 DEF Versioned
<1>8. Served
  <2>1. Addr \in Items
    BY OwnNames DEF Addr
  <2>2. Announced /\ Loading
    BY <1>1, <1>w, <2>1 DEF Announced, AddrFirst, Loading, ServerKnown
  <2> QED
    BY <2>2, ServedParts
<1> QED
  BY <1>2, <1>3, <1>4, <1>5, <1>6, <1>7, <1>8 DEF IInv

(* A step that changes nothing.                                            *)
LEMMA Stutters ==
  ASSUME IInv, UNCHANGED vars
  PROVE  IInv'
<1>1. /\ flash' = flash /\ phase' = phase /\ at' = at /\ profile' = profile /\ ram' = ram /\ pend' = pend
      /\ reboots' = reboots /\ failed' = failed /\ torn' = torn
  BY DEF vars
<1>2. Typed'
  BY <1>1 DEF IInv, Typed
<1>3. Apart'
  BY <1>1 DEF IInv, Apart
<1>4. Defaulted' /\ Profiled'
  BY <1>1 DEF IInv, Defaulted, Profiled, ProfileRead
<1>5. Pairing'
  BY <1>1 DEF IInv, Pairing, KeyNext, Agree
<1>6. Versioned'
  <2>1. \A x \in Parts : flash'[x] = flash[x]
    BY <1>1
  <2> QED
    BY <1>1, <2>1, VersionedKept DEF IInv
<1>7. Served'
  BY <1>1 DEF IInv, Served, AddrFirst, PortNext, PortDue, ServerKnown
<1> QED
  BY <1>2, <1>3, <1>4, <1>5, <1>6, <1>7 DEF IInv

(* The invariant is one.                                                   *)
LEMMA Invariance == Spec => []IInv
<1>1. IInv /\ [Next]_vars => IInv'
  <2>1. IInv /\ Next => IInv'
    BY TypedNext, ApartNext, DefaultedNext, ProfiledNext, PairingNext, VersionedNext, ServedNext DEF IInv
  <2> QED
    BY <2>1, Stutters
<1> QED
  BY <1>1, Initially, PTL DEF Spec

(* What the radio and TCP/IP are started with is what the flash holds for  *)
(* each of them, unless a default could not be written in this very start  *)
(* (wifi_config_init, user_check_default_value).                           *)
THEOREM ProfileIsRead == Spec => []ProfileRead
<1>1. IInv => ProfileRead
  BY DEF IInv, Profiled
<1> QED
  BY <1>1, Invariance, PTL

(* The name and the key the radio is started with are of one network,      *)
(* unless a write of the pair was lost (smt_evt_handler).                  *)
THEOREM KeyFitsName == Spec => []Paired
<1>1. IInv => Paired
  <2> SUFFICES ASSUME IInv, phase = "load", ~ failed, Psk \in DOMAIN profile, "credentials" \notin torn
               PROVE  profile[Psk] = KeyOf(profile[Ssid])
    BY DEF Paired, Ssid, Psk
  <2>1. Apart /\ Profiled /\ Pairing
    BY DEF IInv
  <2>2. ~ KeyNext
    BY <2>1 DEF Apart, KeyNext
  <2>3. Agree
    BY <2>1, <2>2 DEF Pairing
  <2>4. Ssid \in Known /\ Psk \in Known /\ Ssid \in DOMAIN profile
    BY <2>1 DEF Profiled
  <2>5. flash[Ssid] # ABSENT /\ flash[Psk] # ABSENT
    BY <2>1, <2>4 DEF Profiled
  <2>6. profile[Ssid] = flash[Ssid] /\ profile[Psk] = flash[Psk]
    BY <2>1, <2>4 DEF Profiled, ProfileRead
  <2> QED
    BY <2>3, <2>5, <2>6, BootAssumption DEF Agree, KeyOf
<1> QED
  BY <1>1, Invariance, PTL

(* The version is that of the build or of an upgrade, as a whole, unless a *)
(* write of it was lost (loadWifiModuleInfoVersion).                       *)
THEOREM VersionIsWhole == Spec => []VersionWhole
<1>1. IInv => VersionWhole
  BY DEF IInv, Versioned
<1> QED
  BY <1>1, Invariance, PTL

(* A module that runs has the address of its server and the port, unless   *)
(* the port's write was lost (loadInfoFromFlash).                          *)
THEOREM ServerIsKnown == Spec => []ServerKnown
<1>1. IInv => ServerKnown
  BY DEF IInv, Served
<1> QED
  BY <1>1, Invariance, PTL
=============================================================================
