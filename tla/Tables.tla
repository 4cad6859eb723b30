-------------------------------- MODULE Tables --------------------------------
(***************************************************************************)
(* The tables of src/ejcloud: the registries of the callbacks of commands  *)
(* (ej_packet.c) and the maps from the IDs of the serial line to those of  *)
(* the network (ej_cmd_map.c).  A table is a sequence of entries.          *)
(***************************************************************************)
EXTENDS Integers, Sequences, SequencesExt

First(table, Fits(_)) == SelectInSeq(table, Fits)   \* 0 when there is none

(* initCommandsCallbackManager; the entry of no command has the number 0.  *)
NoCommand == [id |-> 0, callback |-> "NULL"]
InitCommands(size) == [i \in 1..size |-> NoCommand]

(* registerUartCommandCallback: the first free entry, but never the last   *)
(* one.                                                                    *)
RegisterUart(table, id, callback) ==
  LET i == First(table, LAMBDA e : e.id = 0) IN
  IF i \in 1..Len(table) - 1 THEN [table EXCEPT ![i] = [id |-> id, callback |-> callback]] ELSE table
RegisterMqtt(table, id, callback) ==
  LET i == First(table, LAMBDA e : e.id = 0) IN
  IF i \in 1..Len(table) - 1 THEN [table EXCEPT ![i] = [id |-> id, callback |-> callback]] ELSE table

CallbackByUartID(table, id) ==
  LET i == First(table, LAMBDA e : e.id = id) IN IF i = 0 THEN "NULL" ELSE table[i].callback
CallbackByMqttID(table, id) ==
  LET i == First(table, LAMBDA e : e.id = id) IN IF i = 0 THEN "NULL" ELSE table[i].callback

-----------------------------------------------------------------------------
(* InitUARTCommandDataID2NetCommandDataIDMaps.                             *)
Unused == [used |-> FALSE, type |-> "none", socket |-> 0, ether |-> 0, uart |-> 0]
InitMap(size) == [i \in 1..size |-> Unused]

(* Each look-up gives the number it finds, or -1, and what it leaves.  The *)
(* entry of a command of the cloud is freed by its look-up.                *)
SetEtherID(map, uart, ether, type) ==
  LET i == First(map, LAMBDA e : ~ e.used) IN
  IF i = 0 THEN map
  ELSE [map EXCEPT ![i].used = TRUE, ![i].ether = ether, ![i].uart = uart, ![i].type = type]
GetEtherID(map, uart, type) ==
  LET i == First(map, LAMBDA e : e.used /\ e.uart = uart /\ e.type = type) IN
  IF i = 0 THEN [id |-> -1, map |-> map]
  ELSE [id |-> map[i].ether, map |-> IF type = "mqtt" THEN [map EXCEPT ![i].used = FALSE] ELSE map]

(* The map of the local network: the socket of a command, then the ID of   *)
(* the serial line it was given.                                           *)
SetLanSocket(map, ether, socket) ==
  LET i == First(map, LAMBDA e : ~ e.used) IN
  IF i = 0 THEN map ELSE [map EXCEPT ![i].used = TRUE, ![i].ether = ether, ![i].socket = socket]
GetLanSocket(map, ether) ==
  LET i == First(map, LAMBDA e : e.used /\ e.ether = ether) IN
  IF i = 0 THEN [id |-> -1, map |-> map]
  ELSE [id |-> map[i].socket, map |-> [map EXCEPT ![i].used = FALSE]]
SetLanUartID(map, ether, uart) ==
  LET i == First(map, LAMBDA e : e.used /\ e.ether = ether) IN
  IF i = 0 THEN map ELSE [map EXCEPT ![i].uart = uart]
GetLanID(map, uart) ==
  LET i == First(map, LAMBDA e : e.used /\ e.uart = uart) IN IF i = 0 THEN -1 ELSE map[i].ether
=============================================================================
