------------------------------- MODULE EjTime -------------------------------
(***************************************************************************)
(* Dates and times (src/ejcloud/ej_user_time.c), and the timers of the     *)
(* MQTT client (mqtt/ej_port_mqtt.c).  A time is a record with             *)
(* year (since 1900), mon (0..11), mday, hour, min, sec and wday; a date   *)
(* of HTTP is what its fields say, and whether everything else of its text *)
(* is as its form wants it.                                                *)
(***************************************************************************)
EXTENDS Integers, Sequences, FiniteSets, FiniteSetsExt

YEAR0 == 1900
EPOCH_YR == 1970
LastYear == 2037    \* bound: seconds do not fit in a number of TLC after it

SecPerDay == 86400
IsLeap(y) == IF y % 100 = 0 THEN y % 400 = 0 ELSE y % 4 = 0
SecPerYear(y) == IF IsLeap(y) THEN 31622400 ELSE 31536000
SecPerMonth(y) ==
  [m \in 0..11 |-> CASE m = 1 -> (IF IsLeap(y) THEN 2505600 ELSE 2419200)
                     [] m \in {3, 5, 8, 10} -> 2592000
                     [] OTHER -> 2678400]
YearsBefore(y) == MapThenSumSet(SecPerYear, EPOCH_YR..(y - 1))
MonthsBefore(y, m) == MapThenSumSet(LAMBDA i : SecPerMonth(y)[i], 0..(m - 1))

(* month_from_string_short: 12 when it is none of them.                    *)
MonthNames == <<"Jan", "Feb", "Mar", "Apr", "May", "Jun", "Jul", "Aug", "Sep", "Oct", "Nov", "Dec">>
MonthFromString(s) ==
  IF \E i \in DOMAIN MonthNames : MonthNames[i] = s
  THEN (CHOOSE i \in DOMAIN MonthNames : MonthNames[i] = s) - 1 ELSE 12

(* day_of_week_get, with the month from 1 on.                              *)
DayOfWeek(month, day, y) ==
  LET t == <<0, 3, 2, 5, 0, 3, 5, 1, 4, 6, 2, 4>>
      year == IF month < 3 THEN y - 1 ELSE y
  IN (year + (year \div 4) - (year \div 100) + (year \div 400) + t[month] + day) % 7

(* A mistake: the days of a month count from 0.                            *)
MktimeFromZero(tm) ==
  YearsBefore(tm.year + YEAR0) + MonthsBefore(tm.year + YEAR0, tm.mon)
    + tm.mday * SecPerDay + tm.hour * 3600 + tm.min * 60 + tm.sec
Mktime(tm) ==
  YearsBefore(tm.year + YEAR0) + MonthsBefore(tm.year + YEAR0, tm.mon)
    + (tm.mday - 1) * SecPerDay + tm.hour * 3600 + tm.min * 60 + tm.sec

Gmtime(time) ==
  LET y == EPOCH_YR + Cardinality({i \in EPOCH_YR..LastYear : YearsBefore(i + 1) <= time})
      inYear == time - YearsBefore(y)
      m == Cardinality({i \in 0..10 : MonthsBefore(y, i + 1) <= inYear})
      inMonth == inYear - MonthsBefore(y, m)
      inDay == inMonth % SecPerDay
  IN [year |-> y - YEAR0, mon |-> m, mday |-> inMonth \div SecPerDay + 1,
      hour |-> inDay \div 3600, min |-> (inDay % 3600) \div 60, sec |-> inDay % 60,
      wday |-> DayOfWeek(m + 1, inMonth \div SecPerDay + 1, y)]

(* validate_date_time.                                                     *)
Validate(tm) ==
  /\ tm.sec <= 59 /\ tm.min <= 59 /\ tm.hour <= 23
  /\ tm.year + YEAR0 \in EPOCH_YR..2111
  /\ tm.mon < 12
  /\ tm.mon = 1 => tm.mday <= (IF IsLeap(tm.year + YEAR0) THEN 29 ELSE 28)
  /\ tm.mon \in {3, 5, 8, 10} => tm.mday <= 30
  /\ tm.mday \in 1..31

(* EJ_http_date_to_time: d has form, legal, day, month, year (two digits   *)
(* of it in the form of RFC 1036), hour, min and sec.  There the century   *)
(* is this one before 20 and the last from then on.                        *)
HttpDateToTime(d) ==
  LET mon == MonthFromString(d.month)
      year == IF d.form # "rfc1036" THEN d.year - YEAR0
              ELSE IF d.year < 20 THEN d.year + 100 ELSE d.year
  IN IF ~ d.legal \/ mon >= 12 THEN 0
     ELSE Mktime([year |-> year, mon |-> mon, mday |-> d.day, hour |-> d.hour,
                  min |-> d.min, sec |-> d.sec])

(* EJ_time_set and EJ_time_get: the clock of the board counts the months   *)
(* from 1.  Nothing in the clock changes when the date is no date.         *)
EJ_time_set(clock, tm) ==
  IF Validate(tm)
  THEN [sec |-> tm.sec, min |-> tm.min, hour |-> tm.hour, day |-> tm.mday, mon |-> tm.mon + 1,
        week |-> tm.wday, year |-> tm.year]
  ELSE clock
EJ_time_get(clock) ==
  [sec |-> clock.sec, min |-> clock.min, hour |-> clock.hour, mday |-> clock.day,
   mon |-> clock.mon - 1, wday |-> clock.week, year |-> clock.year]

(* EJ_Wlan_set_time and EJ_Wlan_get_time: the same as seven bytes.         *)
EJ_Wlan_set_time(clock, a) ==
  EJ_time_set(clock, [sec |-> a[1], min |-> a[2], hour |-> a[3], wday |-> a[4], mday |-> a[5],
                      mon |-> a[6], year |-> a[7]])
EJ_Wlan_get_time(clock) ==
  LET tm == EJ_time_get(clock) IN <<tm.sec, tm.min, tm.hour, tm.wday, tm.mday, tm.mon, tm.year>>

-----------------------------------------------------------------------------
(* The timers of the MQTT client: the counter of the board has 32 bits and *)
(* counts 32 in a millisecond, and a timer is the time of its end.         *)
Lap == 2 ^ 27
Now(elapsed) == elapsed % Lap      \* mqtt_current_time_ms, so long after the start
CountdownMs(now, timeout) == now + timeout
Expired(end, now) == end <= now
LeftMs(end, now) == IF end <= now THEN 0 ELSE end - now
=============================================================================
