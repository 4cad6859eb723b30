-------------------------------- MODULE Boot --------------------------------
(***************************************************************************)
(* What the module knows after a start.  main and system_init fill the     *)
(* missing items of the flash with defaults (src/src/wifi_nvdm_config.c),  *)
(* read the profile of the radio and of TCP/IP from them, and then the     *)
(* application loads its own items, and stores again what it loads         *)
(* (WifiModuleStatus.c).  While it runs, the appliance, the cloud, the     *)
(* smart connection and the command line store more.  Each item is written *)
(* by itself: power may be cut, or the module restarted, between any two   *)
(* writes, and a write may fail, which nobody looks at.                    *)
(***************************************************************************)
EXTENDS Naturals, Sequences, SequencesExt

CONSTANTS ABSENT,    \* an item that was never written
          GARBAGE,   \* a variable nobody gave a value
          EfuseMac,  \* TRUE: the MAC address can be read from the efuse
          Networks,  \* networks the phone may name: texts that start with a letter
          WepKeyed,  \* those whose key has 5, 10, 13 or 26 characters
          MaxCuts,   \* bound: power cuts
          Fragile,   \* bound: names of the items whose write may fail, once
          Requests   \* bound: times something is stored while the module runs

-----------------------------------------------------------------------------
(* The tables of defaults, in their order: <<name, text>>.                 *)
CommonDefaults == <<
  <<"OpMode", "1">>, <<"CountryRegion", "5">>, <<"CountryCode", "TW">>,
  <<"CountryRegionABand", "3">>, <<"IpAddr", "192.168.1.1">>,
  <<"IpNetmask", "255.255.255.0">>, <<"IpGateway", "192.168.1.254">>, <<"RadioOff", "0">>,
  <<"DbgLevel", "3">>, <<"RTSThreshold", "2347">>, <<"FragThreshold", "2346">>,
  <<"BGChannelTable", "1,14,0|">>, <<"AChannelTable", "52,3,1|149,4,0|">>,
  <<"syslog_filters", "">>, <<"Manufacturer", "MTK">>, <<"ModelName", "MTK Wireless Device">>,
  <<"ModelNumber", "MT7687">>, <<"SerialNumber", "12345678">>, <<"DeviceName", "MTK IoT">>,
  <<"ConfigFree_Ready", "0">>, <<"ConfigFree_Enable", "0">>, <<"StaFastLink", "0">>,
  <<"WiFiPrivilegeEnable", "0">> >>

StaRadioDefaults == <<
  <<"LocalAdminMAC", "1">>, <<"MacAddr", "00:0c:43:76:87:22">>, <<"Ssid", "MTK_SOFT_AP">>,
  <<"SsidLen", "11">>, <<"BssType", "1">>, <<"Channel", "1">>, <<"BW", "0">>,
  <<"WirelessMode", "9">>, <<"BADecline", "0">>, <<"AutoBA", "1">>, <<"HT_MCS", "33">>,
  <<"HT_BAWinSize", "64">>, <<"HT_GI", "1">>, <<"HT_PROTECT", "1">>, <<"HT_EXTCHA", "1">>,
  <<"WmmCapable", "1">>, <<"ListenInterval", "1">> >>

StaSecurityDefaults == <<
  <<"AuthMode", "0">>, <<"EncrypType", "1">>, <<"WpaPsk", "12345678">>, <<"WpaPskLen", "8">>,
  <<"Password", "wifi123456">>, <<"PMK", "0">>, <<"PMK_INFO", "0">>, <<"PairCipher", "0">>,
  <<"GroupCipher", "0">>, <<"DefaultKeyId", "0">>,
  <<"SharedKey", "aaaaaaaaaaaaa,bbbbbbbbbbbbb,ccccccccccccc,ddddddddddddd">>,
  <<"SharedKeyLen", "0,0,0,0">>, <<"PSMode", "0">>, <<"KeepAlivePeriod", "10">>,
  <<"IpMode", "dhcp">>, <<"BeaconLostTime", "2">>, <<"ApcliBWAutoUpBelow", "1">> >>

ApRadioDefaults == <<
  <<"LocalAdminMAC", "1">>, <<"MacAddr", "00:0c:43:76:62:12">>, <<"Ssid", "MTK_SOFT_AP">>,
  <<"SsidLen", "11">>, <<"Channel", "1">>, <<"BW", "0">>, <<"WirelessMode", "9">>,
  <<"AutoBA", "1">>, <<"HT_MCS", "33">>, <<"HT_BAWinSize", "64">>, <<"HT_GI", "1">>,
  <<"HT_PROTECT", "1">>, <<"HT_EXTCHA", "1">>, <<"WmmCapable", "1">>, <<"DtimPeriod", "1">> >>

ApSecurityDefaults == <<
  <<"AuthMode", "0">>, <<"EncrypType", "1">>, <<"WpaPsk", "12345678">>, <<"WpaPskLen", "8">>,
  <<"Password", "12345678">>, <<"PMK", "0">>, <<"PairCipher", "0">>, <<"GroupCipher", "0">>,
  <<"DefaultKeyId", "1">>, <<"SharedKey", "11111,22222,33333,44444">>,
  <<"SharedKeyLen", "0,0,0,0">>, <<"HideSSID", "0">>, <<"RekeyInterval", "3600">>,
  <<"BcnDisEn", "0">> >>

(* user_check_default_value: the groups in their order.                    *)
Group(name, defaults) == [i \in DOMAIN defaults |-> <<name, defaults[i][1], defaults[i][2]>>]
Defaults == Group("common", CommonDefaults)
            \o Group("STA", StaRadioDefaults \o StaSecurityDefaults)
            \o Group("AP", ApRadioDefaults \o ApSecurityDefaults)
ItemAt(i) == <<Defaults[i][1], Defaults[i][2]>>
DefaultAt(i) == IF Defaults[i][2] = "MacAddr" /\ EfuseMac THEN "efuse" ELSE Defaults[i][3]

Own(name) == <<"EJCLOUD", name>>
VersionFields == <<"versionRule", "functionCode", "hardwareVersion", "softwareVersionMsb",
                   "softwareVersionLsb", "publishYear", "publishWeek">>
OwnItems == {Own(name) : name \in
               {"configMode", "renameSSID", "masterServerAddr", "masterServerPort",
                "backupServer1Addr", "backupServer1Port", "backupServer2Port",
                "defaultConnectServer", "cloudDomainAddr"} \cup ToSet(VersionFields)}
Items == {ItemAt(i) : i \in DOMAIN Defaults} \cup OwnItems \cup {<<"STA", "SmartConfig">>}

(* What an item may hold that was written, but for what the phone names; a *)
(* network stands for its name and its key.                                *)
BuiltIn == {Defaults[i][3] : i \in DOMAIN Defaults}
           \cup {"efuse", "120.24.170.30", "1883", "ej-test.com", "NULL", "EZ", "0", "name",
                 "build", "upgrade", "cli"}

ASSUME BootAssumption ==
  /\ EfuseMac \in BOOLEAN /\ WepKeyed \subseteq Networks
  /\ "MTK_SOFT_AP" \notin Networks
  /\ ABSENT \notin BuiltIn \cup Networks \cup {GARBAGE} /\ GARBAGE \notin BuiltIn \cup Networks
  /\ MaxCuts \in Nat /\ Requests \in Nat

VARIABLES flash,    \* the text of every item
          phase,    \* "defaults", "profile", "load" or "run"
          at,       \* where check_default_value, or loadInfoFromFlash, is
          profile,  \* wifi_cfg_t and lwip_tcpip_config_t: the text each item's field got
          ram,      \* h_InfoManagement
          pend,     \* for every task that writes: the writes it has still to do
          reboots,  \* mainLoop restarts the module after its writes
          failed,   \* a default could not be written in this start
          cuts, fails, asked, \* bounded counters
          torn      \* history, see Lost

vars == <<flash, phase, at, profile, ram, pend, reboots, failed, cuts, fails, asked, torn>>
Writers == {"main", "smt", "cli"}
Nothing == [i \in {} |-> ABSENT]
(* f where it is defined, and g elsewhere.                                 *)
Over(f, g) == [i \in DOMAIN f \cup DOMAIN g |-> IF i \in DOMAIN f THEN f[i] ELSE g[i]]

NoRam == [mode |-> "NULL", rename |-> ABSENT, addr |-> ABSENT, port |-> ABSENT, backup |-> ABSENT,
          server |-> ABSENT, domain |-> ABSENT, version |-> [i \in 1..7 |-> "build"]]

(* Init_InfoManagement clears everything, and sets the version to the one  *)
(* that was built; the items are read after that.                          *)
Start == /\ phase' = "defaults" /\ at' = 1 /\ profile' = Nothing /\ ram' = NoRam
         /\ pend' = [w \in Writers |-> << >>] /\ reboots' = FALSE /\ failed' = FALSE

Init == /\ flash = [i \in Items |-> ABSENT]
        /\ phase = "defaults" /\ at = 1 /\ profile = Nothing /\ ram = NoRam
        /\ pend = [w \in Writers |-> << >>] /\ reboots = FALSE /\ failed = FALSE
        /\ cuts = 0 /\ fails = 0 /\ asked = 0 /\ torn = {}

-----------------------------------------------------------------------------
(* check_default_value writes what cannot be read, and goes on when that   *)
(* fails.                                                                  *)
(* A mistake: it stops at the first item that is there.                    *)
MissingAtStart(from) == {i \in from..Len(Defaults) : \A j \in from..i : flash[ItemAt(j)] = ABSENT}
Missing(from) == {i \in from..Len(Defaults) : flash[ItemAt(i)] = ABSENT}
Least(S) == CHOOSE i \in S : \A j \in S : i <= j

MayFail(item) == item[2] \in Fragile /\ fails = 0

CheckDefaultValue ==
  /\ phase = "defaults" /\ Missing(at) # {}
  /\ LET i == Least(Missing(at)) IN
       /\ at' = i + 1
       /\ \/ flash' = [flash EXCEPT ![ItemAt(i)] = DefaultAt(i)] /\ UNCHANGED <<fails, failed>>
          \/ MayFail(ItemAt(i)) /\ fails' = 1 /\ failed' = TRUE /\ UNCHANGED flash
  /\ UNCHANGED <<phase, profile, ram, pend, reboots, cuts, asked, torn>>

DefaultsChecked ==
  /\ phase = "defaults" /\ Missing(at) = {}
  /\ phase' = "profile" /\ UNCHANGED <<flash, at, profile, ram, pend, reboots, failed, cuts, fails, asked, torn>>

-----------------------------------------------------------------------------
(* wifi_config_init reads the items in this order to one buffer, and does  *)
(* not look whether it could: an item that is missing gives its field the  *)
(* text of the last one that was there.                                    *)
Of(group, names) == [i \in DOMAIN names |-> <<group, names[i]>>]
StaReads == Of("common", <<"OpMode", "CountryCode">>)
            \o Of("STA", <<"SsidLen", "Ssid", "EncrypType">>)
ApReads == Of("STA", <<"BW", "WirelessMode", "ListenInterval", "PSMode">>)
           \o Of("AP", <<"Channel", "BW", "SsidLen", "Ssid", "HideSSID", "AuthMode", "EncrypType">>)
LastReads == Of("AP", <<"WirelessMode", "DtimPeriod">>)

(* atoi gives 0, WIFI_ENCRYPT_TYPE_WEP_ENABLED, of "0" and of a name.      *)
Wep(text) == text # "1"
KeyReads(group, text) ==
  Of(group, IF Wep(text) THEN <<"DefaultKeyId", "SharedKeyLen", "SharedKey">>
                         ELSE <<"WpaPskLen", "WpaPsk">>)

(* What the buffer, which held buff, holds after the k-th of the reads, and*)
(* the text every field gets; no item is read twice.                       *)
TextAt(items, buff, k) ==
  LET found == {j \in 1..k : flash[items[j]] # ABSENT}
  IN IF found = {} THEN buff ELSE flash[items[CHOOSE j \in found : \A i \in found : i <= j]]
Reads(items, buff) ==
  [x \in ToSet(items) |-> TextAt(items, buff, CHOOSE k \in DOMAIN items : items[k] = x)]

WifiReads ==
  LET sta == StaReads \o KeyReads("STA", TextAt(StaReads, GARBAGE, Len(StaReads))) \o ApReads
  IN sta \o KeyReads("AP", TextAt(sta, GARBAGE, Len(sta))) \o LastReads
WifiConfigInit == Reads(WifiReads, GARBAGE)

(* tcpip_config_init and dhcp_config_init: the same with a cleared buffer. *)
TcpipConfigInit == Reads(Of("common", <<"IpAddr", "IpNetmask", "IpGateway">>), "")
DhcpConfigInit == Reads(Of("STA", <<"IpMode">>), "")

(* main, before the scheduler starts.                                      *)
ReadProfile ==
  /\ phase = "profile" /\ phase' = "load" /\ at' = 1
  /\ profile' = Over(WifiConfigInit, Over(TcpipConfigInit, DhcpConfigInit))
  /\ UNCHANGED <<flash, ram, pend, reboots, failed, cuts, fails, asked, torn>>

-----------------------------------------------------------------------------
(* The items of the application: what a load reads, the field it sets, and *)
(* the item the setter stores to: not always the same.                     *)
Field(reads, sets, stores) == [reads |-> reads, sets |-> sets, stores |-> stores]
RenameSSID == Field("renameSSID", "rename", "renameSSID")
MasterServerAddr == Field("masterServerAddr", "addr", "masterServerAddr")
MasterServerPort == Field("masterServerPort", "port", "masterServerPort")
BackupServer1Addr == Field("backupServer1Addr", "backup", "backupServer1Addr")
BackupServer1Port == Field("backupServer1Port", "port", "masterServerPort")
BackupServer2Addr == Field("masterServerAddr", "addr", "masterServerAddr")
BackupServer2Port == Field("backupServer2Port", "port", "masterServerPort")
DefaultConnectServer == Field("defaultConnectServer", "server", "defaultConnectServer")
CloudDomainAddr == Field("cloudDomainAddr", "domain", "cloudDomainAddr")

Write(item, text) == [i \in {item} |-> text]
Has(name) == flash[Own(name)] # ABSENT

(* Every result is what RAM holds afterwards and the writes to be done.    *)
Done(r, writes) == [ram |-> r, writes |-> writes]
Set(f, text) == Done([ram EXCEPT ![f.sets] = text], <<Write(Own(f.stores), text)>>)
Load(f) == IF Has(f.reads) THEN Set(f, flash[Own(f.reads)]) ELSE Done(ram, << >>)

(* storeWifiConfigConfigMode has no text for the NULL mode, which the load *)
(* writes in the end.                                                      *)
ModeWrites(mode) == IF mode = "NULL" THEN << >> ELSE <<Write(Own("configMode"), mode)>>
LoadConfigMode ==
  LET mode == flash[Own("configMode")]
      null == <<Write(Own("configMode"), "NULL")>>
  IN IF mode = ABSENT THEN Done(ram, null)
                      ELSE Done([ram EXCEPT !.mode = mode], ModeWrites(mode) \o null)

(* A start without an address takes the one that was built in, and the     *)
(* port with it.                                                           *)
(* A mistake: the port is not stored.                                      *)
DefaultServerNoPort ==
  IF ram.addr # ABSENT THEN Done(ram, << >>)
  ELSE Done([ram EXCEPT !.addr = "120.24.170.30", !.port = "1883"],
            <<Write(Own("masterServerAddr"), "120.24.170.30")>>)
DefaultServer ==
  IF ram.addr # ABSENT THEN Done(ram, << >>)
  ELSE Done([ram EXCEPT !.addr = "120.24.170.30", !.port = "1883"],
            <<Write(Own("masterServerAddr"), "120.24.170.30"),
              Write(Own("masterServerPort"), "1883")>>)
DefaultDomain == IF ram.domain = ABSENT THEN Set(CloudDomainAddr, "ej-test.com")
                                        ELSE Done(ram, << >>)

(* storeWifiModuleInfoVersion: seven writes.                               *)
VersionWrites(v) == [i \in 1..7 |-> Write(Own(VersionFields[i]), v[i])]
SetVersion(v) == Done([ram EXCEPT !.version = v], VersionWrites(v))

(* loadWifiModuleInfoVersion keeps the status of the last read only, and a *)
(* part that could not be read is a local variable nobody set.             *)
(* A mistake: the first read decides.                                      *)
VersionFoundFirst == Has("versionRule")
VersionFound == Has("publishWeek")
Part(name) == IF Has(name) THEN flash[Own(name)] ELSE GARBAGE
LoadVersion == SetVersion(IF VersionFound THEN [i \in 1..7 |-> Part(VersionFields[i])]
                                          ELSE [i \in 1..7 |-> "build"])

(* loadInfoFromFlash, in its order.                                        *)
Loaded(i) ==
  CASE i = 1 -> LoadConfigMode
    [] i = 2 -> Load(RenameSSID)
    [] i = 3 -> Load(MasterServerAddr)
    [] i = 4 -> Load(MasterServerPort)
    [] i = 5 -> Load(BackupServer1Addr)
    [] i = 6 -> Load(BackupServer1Port)
    [] i = 7 -> Load(BackupServer2Addr)
    [] i = 8 -> Load(BackupServer2Port)
    [] i = 9 -> Load(DefaultConnectServer)
    [] i = 10 -> DefaultServer
    [] i = 11 -> Load(CloudDomainAddr)
    [] i = 12 -> DefaultDomain
    [] i = 13 -> LoadVersion

LoadInfoFromFlash ==
  /\ phase = "load" /\ pend["main"] = << >>
  /\ ram' = Loaded(at).ram /\ pend' = [pend EXCEPT !["main"] = Loaded(at).writes]
  /\ at' = at + 1 /\ phase' = IF at = 13 THEN "run" ELSE "load"
  /\ UNCHANGED <<flash, profile, reboots, failed, cuts, fails, asked, torn>>

-----------------------------------------------------------------------------
(* While the module runs.  mainLoop renames, stores the mode and restarts, *)
(* or stores the version of an upgrade; each is done before the next.      *)
Idle(w) == phase = "run" /\ pend[w] = << >> /\ ~ reboots /\ asked < Requests
Stores(w, result) == /\ ram' = result.ram /\ pend' = [pend EXCEPT ![w] = result.writes]
                     /\ asked' = asked + 1
                     /\ UNCHANGED <<flash, phase, at, profile, failed, cuts, fails, torn>>

RenameWifiSSID == /\ Idle("main") /\ Stores("main", Set(RenameSSID, "name"))
                  /\ UNCHANGED reboots
EasylinkRequest ==
  /\ Idle("main") /\ reboots' = TRUE
  /\ Stores("main", Done([ram EXCEPT !.mode = "EZ"],
                         ModeWrites("EZ") \o <<Write(<<"STA", "SmartConfig">>, "0")>>))
Upgraded == /\ Idle("main") /\ Stores("main", SetVersion([i \in 1..7 |-> "upgrade"]))
            /\ UNCHANGED reboots

(* ej_cli_modify_server, on the task of the command line.                  *)
ModifyServer ==
  /\ Idle("cli") /\ UNCHANGED reboots
  /\ Stores("cli", Done([ram EXCEPT !.domain = "cli", !.port = "cli"],
                        <<Write(Own("cloudDomainAddr"), "cli"), Write(Own("masterServerPort"), "cli")>>))

(* smt_evt_handler, on the task of the smart connection: it stores the     *)
(* name and the key as wifi_smart_connect_get_result has done before, and  *)
(* a key that may be one of WEP once more.  The type of encryption is not  *)
(* stored.                                                                 *)
SetSsid(n) == [i \in {<<"STA", "Ssid">>, <<"STA", "SsidLen">>} |-> n]
SetPsk(n) == [i \in {<<"STA", "WpaPsk">>, <<"STA", "WpaPskLen">>} |-> n]
SetWep(n) == Over(Write(<<"STA", "DefaultKeyId">>, "0"),
                  [i \in {<<"STA", "SharedKey">>, <<"STA", "SharedKeyLen">>} |-> n])
(* A mistake: the key first.                                               *)
GetResultKeyFirst(n) == <<SetPsk(n), SetSsid(n)>>
GetResult(n) == <<SetSsid(n), SetPsk(n)>>
InfoCollected(n) == GetResult(n) \o <<SetSsid(n), SetPsk(n)>>
                    \o (IF n \in WepKeyed THEN <<SetWep(n)>> ELSE << >>)
Configured == /\ Idle("smt") /\ UNCHANGED reboots
              /\ \E n \in Networks : Stores("smt", Done(ram, InfoCollected(n)))

-----------------------------------------------------------------------------
(* What a write that is not done, or that fails, leaves behind: a stored   *)
(* version that is overwritten in part; an address whose port is missing;  *)
(* a name whose key is still that of the network before.                   *)
VersionAt(w) == DOMAIN w \cap {Own(VersionFields[i]) : i \in 1..7} # {}
Changes(w) == \E i \in DOMAIN w : flash[i] # w[i]
Lost(writes) ==
  LET next == writes[1] IN
  IF writes = << >> THEN {} ELSE
    (IF \E k \in DOMAIN writes : VersionAt(writes[k]) /\ Changes(writes[k]) /\ Has("publishWeek")
     THEN {"version"} ELSE {})
    \cup (IF DOMAIN next = {Own("masterServerPort")} /\ ~ Has("masterServerPort")
          THEN {"server"} ELSE {})
    \cup (IF <<"STA", "WpaPsk">> \in DOMAIN next /\ Changes(next) THEN {"credentials"} ELSE {})

(* A part of a version that is not stored, but for the last, is not missed.*)
Unstored(w) == Lost(<<w>>)
               \cup (IF VersionAt(w) /\ Own("publishWeek") \notin DOMAIN w /\ Changes(w)
                     THEN {"version"} ELSE {})
               \cup (IF <<"STA", "Ssid">> \in DOMAIN w /\ Changes(w) THEN {"credentials"} ELSE {})

WriteItem(w) ==
  /\ pend[w] # << >>
  /\ LET next == Head(pend[w]) IN
       \/ flash' = Over(next, flash) /\ UNCHANGED <<fails, torn>>
       \/ /\ \E i \in DOMAIN next : MayFail(i)
          /\ fails' = 1 /\ torn' = torn \cup Unstored(next) /\ UNCHANGED flash
  /\ pend' = [pend EXCEPT ![w] = Tail(@)]
  /\ UNCHANGED <<phase, at, profile, ram, reboots, failed, cuts, asked>>

Interrupted == torn' = torn \cup UNION {Lost(pend[w]) : w \in Writers}

EJ_App_reboot == /\ reboots /\ pend["main"] = << >>
                 /\ Start /\ Interrupted /\ UNCHANGED <<flash, cuts, fails, asked>>

PowerCut == /\ cuts < MaxCuts /\ cuts' = cuts + 1
            /\ Start /\ Interrupted /\ UNCHANGED <<flash, fails, asked>>

Next == \/ CheckDefaultValue \/ DefaultsChecked \/ ReadProfile \/ LoadInfoFromFlash
        \/ RenameWifiSSID \/ EasylinkRequest \/ Upgraded \/ ModifyServer \/ Configured
        \/ \E w \in Writers : WriteItem(w)
        \/ EJ_App_reboot \/ PowerCut

Spec == Init /\ [][Next]_vars

-----------------------------------------------------------------------------
(* What the radio and TCP/IP are started with is what the flash holds for  *)
(* each of them, however often the power was cut while the defaults were   *)
(* written: unless a default could not be written in this very start, for  *)
(* then a field has the text of another item (wifi_config_init ignores the *)
(* status of every read).                                                  *)
ProfileRead ==
  (phase = "load" /\ ~ failed) => \A i \in DOMAIN profile : profile[i] = flash[i]

(* The name and the key the radio is started with are of one network,      *)
(* unless the power failed, or the module was restarted, between the first *)
(* two writes of smt_evt_handler, or one of them failed.                   *)
KeyOf(name) == IF name = "MTK_SOFT_AP" THEN "12345678" ELSE name
Paired ==
  (phase = "load" /\ ~ failed /\ <<"STA", "WpaPsk">> \in DOMAIN profile) =>
     profile[<<"STA", "WpaPsk">>] = KeyOf(profile[<<"STA", "Ssid">>]) \/ "credentials" \in torn

(* The version the module reports, and compares an upgrade with, is the one*)
(* that was built or that of an upgrade, as a whole, over power cuts in the*)
(* first start: only a cut in the store of an upgrade, or a write that     *)
(* failed, mixes them (loadWifiModuleInfoVersion).                         *)
VersionWhole ==
  \/ "version" \in torn
  \/ ram.version[1] # GARBAGE /\ \A i \in 1..7 : ram.version[i] = ram.version[1]

(* A module that runs has the address and the port of its server, unless   *)
(* the first start was cut between the two writes, or the second failed:   *)
(* no later start finds the port missing (loadInfoFromFlash asks for the   *)
(* address only).                                                          *)
ServerKnown == phase = "run" => ram.addr # ABSENT /\ (ram.port # ABSENT \/ "server" \in torn)
=============================================================================
