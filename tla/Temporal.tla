------------------------------ MODULE Temporal ------------------------------
(***************************************************************************)
(* Dates, times and durations: the calendar, the constructors that take a  *)
(* map of components or a text, time zones, arithmetic with durations,     *)
(* the duration between two values and truncation.                         *)
(*                                                                         *)
(* A date is <<year, month, day>>, a time of day <<hour, minute, second,   *)
(* nanosecond>>, a duration <<months, days, seconds, nanoseconds>>.  <<>>  *)
(* stands for the exception InvalidTemporal inside a computation, Bad for  *)
(* an invalid number, Invalid for the result of a call that throws.        *)
(* A text is represented by the fields its format separates, never by its  *)
(* characters; a time zone is NoZone, [off |-> seconds] ("Z", "+01:00") or *)
(* [zone |-> name], and a number with a fraction is counted in halves.     *)
(* An instant is <<day, second of the day>>.                               *)
(***************************************************************************)
EXTENDS Values

CONSTANTS NanosPerMilli, NanosPerMicro,
          MaximumYear,  \* 999999999 in the code
          Zones,  \* the time zone database: name -> <<[from |-> instant, off |-> seconds], ...>>
          NamesWithSign  \* zone names with one of the characters Z z + -

Invalid == [error |-> 0]
MinimumYear == -MaximumYear
Bad == -1000000000
SecondsPerDay == 86400
NanosPerDay == SecondsPerDay * NanosPerSecond
TruncMod(a, b) == a - b * TruncDiv(a, b)
FloorDivide(a, b) == a \div b
NoZone == [none |-> 0]
Midnight == <<0, 0, 0, 0>>

\* Whether numbers are all valid, and a value built of a valid tuple.
AllGood(s) == \A i \in DOMAIN s : s[i] # Bad
DateValue(d) == IF d = <<>> THEN Invalid ELSE [date |-> d]
LocalTimeValue(t) == IF t = <<>> THEN Invalid ELSE [ltime |-> t]
LocalDateTimeValue(d, t) == IF d = <<>> \/ t = <<>> THEN Invalid ELSE [ldt |-> d \o t]
TimeValue(t, off) == IF t = <<>> \/ off = Bad THEN Invalid ELSE [time |-> [local |-> t, off |-> off]]
DateTimeValue(d, t, off, zone) ==
  IF d = <<>> \/ t = <<>> \/ off = Bad THEN Invalid
  ELSE [dt |-> [date |-> d, local |-> t, off |-> off, zone |-> zone]]

-----------------------------------------------------------------------------
(* The calendar.                                                           *)

CheckedInt(v, lo, hi) == IF v >= lo /\ v <= hi THEN v ELSE Bad

LeapYear(y) == y % 4 = 0 /\ (y % 100 # 0 \/ y % 400 = 0)

DaysInMonth(y, m) ==
  IF m = 2 /\ LeapYear(y) THEN 29 ELSE <<31, 28, 31, 30, 31, 30, 31, 31, 30, 31, 30, 31>>[m]

ValidateDate(d) ==
  /\ d[1] >= MinimumYear /\ d[1] <= MaximumYear
  /\ d[2] >= 1 /\ d[2] <= 12
  /\ d[3] >= 1 /\ d[3] <= DaysInMonth(d[1], d[2])

\* A calendar date, checked as ToSysDays checks it.
CheckedDate(y, m, d) == IF AllGood(<<y, m, d>>) /\ ValidateDate(<<y, m, d>>) THEN <<y, m, d>> ELSE <<>>

FromSysDays(n) ==
  LET days == n + 719468
      era  == TruncDiv(IF days >= 0 THEN days ELSE days - 146096, 146097)
      doe  == days - era * 146097
      yoe  == (doe - doe \div 1460 + doe \div 36524 - doe \div 146096) \div 365
      doy  == doe - (365 * yoe + yoe \div 4 - yoe \div 100)
      mp   == (5 * doy + 2) \div 153
      m    == IF mp < 10 THEN mp + 3 ELSE mp - 9
      y    == yoe + era * 400 + (IF m <= 2 THEN 1 ELSE 0)
  IN  IF y < MinimumYear \/ y > MaximumYear THEN <<>>
      ELSE <<y, m, doy - (153 * mp + 2) \div 5 + 1>>

\* 1970-01-01, day 0, was a Thursday.
IsoWeekday(n) == ((n + 3) % 7) + 1

FirstIsoWeek(y) == LET j == DaysFromCivil(<<y, 1, 4>>) IN j - (IsoWeekday(j) - 1)

\* A week counts for the year of its Thursday, which may be out of range.
IsoWeekComponents(d) ==
  LET n        == DaysFromCivil(d)
      thursday == FromSysDays(n + 4 - IsoWeekday(n))
  IN  IF thursday = <<>> THEN [year |-> Bad, week |-> Bad, weekday |-> Bad]
      ELSE [year |-> thursday[1], week |-> TruncDiv(n - FirstIsoWeek(thursday[1]), 7) + 1, weekday |-> IsoWeekday(n)]

DateFromIsoWeek(y, w, wd) ==
  IF ~AllGood(<<y, w, wd>>) THEN <<>>
  ELSE LET d == FromSysDays(FirstIsoWeek(y) + (w - 1) * 7 + wd - 1)
       IN  IF d = <<>> THEN <<>>
           ELSE IF IsoWeekComponents(d) = [year |-> y, week |-> w, weekday |-> wd] THEN d ELSE <<>>

DateFromOrdinal(y, o) ==
  IF ~AllGood(<<y, o>>) \/ o > (IF LeapYear(y) THEN 366 ELSE 365) THEN <<>>
  ELSE FromSysDays(DaysFromCivil(<<y, 1, 1>>) + o - 1)

OrdinalDay(d) == DaysFromCivil(d) - DaysFromCivil(<<d[1], 1, 1>>) + 1

Quarter(d) == (d[2] - 1) \div 3 + 1
\* The end of a year's last quarter is a day of the next year, which has to be in range.
QuarterStart(y, q) == IF q = 5 THEN DaysFromCivil(<<y + 1, 1, 1>>) ELSE DaysFromCivil(<<y, q * 3 - 2, 1>>)

DateFromQuarter(y, q, doq) ==
  IF \/ ~AllGood(<<y, q, doq>>) \/ (q = 4 /\ y = MaximumYear)
     \/ doq > QuarterStart(y, q + 1) - QuarterStart(y, q)
  THEN <<>> ELSE FromSysDays(QuarterStart(y, q) + doq - 1)

DayOfQuarter(d) == DaysFromCivil(d) - QuarterStart(d[1], Quarter(d)) + 1

-----------------------------------------------------------------------------
(* Maps of components.                                                     *)

MapIntOr(m, k, fallback, lo, hi) ==
  IF k \notin DOMAIN m THEN fallback
  ELSE IF Is(m[k], "int") THEN CheckedInt(m[k].int, lo, hi) ELSE Bad

MapInteger(m, k) == MapIntOr(m, k, 0, -IntLimit, IntLimit - 1)

FractionKeys == {"millisecond", "microsecond", "nanosecond"}
MapFractionNanoseconds(m) ==
  LET f == <<MapInteger(m, "millisecond"), MapInteger(m, "microsecond"), MapInteger(m, "nanosecond")>>
  IN  IF AllGood(f) THEN f[1] * NanosPerMilli + f[2] * NanosPerMicro + f[3] ELSE Bad

DateFromTemporal(v) ==
  CASE Is(v, "date") -> v.date
    [] Is(v, "ldt")  -> SubSeq(v.ldt, 1, 3)
    [] Is(v, "dt")   -> v.dt.date
    [] OTHER         -> <<>>

TimeFromTemporal(v) ==
  CASE Is(v, "ltime") -> v.ltime
    [] Is(v, "time")  -> v.time.local
    [] Is(v, "ldt")   -> SubSeq(v.ldt, 4, 7)
    [] Is(v, "dt")    -> v.dt.local
    [] OTHER          -> <<>>

\* Where the base of the components comes from: the map's "date" ("time"),
\* else its "datetime", else nothing.
BaseKey(m, k) == IF k \in DOMAIN m THEN k ELSE IF "datetime" \in DOMAIN m THEN "datetime" ELSE ""
BaseDateFromMap(m) == DateFromTemporal(m[BaseKey(m, "date")])
BaseTimeFromMap(m) == TimeFromTemporal(m[BaseKey(m, "time")])

\* The year defaults to the base's, and year 0 counts as no year.
ComponentYear(m, base) == LET y == MapIntOr(m, "year", base, MinimumYear, MaximumYear)
                          IN  IF y = 0 THEN Bad ELSE y

ApplyDateComponents(m, base) ==
  LET Base(f(_), default) == IF base = <<>> THEN default ELSE f(base)
      isoYear(d) == IsoWeekComponents(d).year
      isoDay(d)  == IsoWeekComponents(d).weekday
      first(d)   == d[1]
      second(d)  == d[2]
      third(d)   == d[3]
      year       == ComponentYear(m, Base(first, 0))
  IN  CASE "week" \in DOMAIN m ->
             DateFromIsoWeek(ComponentYear(m, Base(isoYear, 0)), MapIntOr(m, "week", 1, 1, 53),
                             MapIntOr(m, "dayOfWeek", Base(isoDay, 1), 1, 7))
        [] "week" \notin DOMAIN m /\ "ordinalDay" \in DOMAIN m ->
             DateFromOrdinal(year, MapIntOr(m, "ordinalDay", 1, 1, 366))
        [] {"week", "ordinalDay"} \cap DOMAIN m = {} /\ "quarter" \in DOMAIN m ->
             DateFromQuarter(year, MapIntOr(m, "quarter", 1, 1, 4),
                             MapIntOr(m, "dayOfQuarter", Base(DayOfQuarter, 1), 1, 92))
        [] OTHER -> CheckedDate(year, MapIntOr(m, "month", Base(second, 1), 1, 12),
                                MapIntOr(m, "day", Base(third, 1), 1, 31))

CheckedTime(h, mi, s, n) ==
  IF AllGood(<<h, mi, s, n>>) /\ n >= 0 /\ n < NanosPerSecond THEN <<h, mi, s, n>> ELSE <<>>

ApplyTimeComponents(m, base) ==
  LET b == IF base = <<>> THEN Midnight ELSE base
  IN  CheckedTime(MapIntOr(m, "hour", b[1], 0, 23), MapIntOr(m, "minute", b[2], 0, 59),
                  MapIntOr(m, "second", b[3], 0, 59),
                  IF DOMAIN m \cap FractionKeys # {} THEN MapFractionNanoseconds(m) ELSE b[4])

\* A base that is given but has no date (time) throws before the components
\* are read.
DateFromMap(m) ==
  IF BaseKey(m, "date") = "" THEN ApplyDateComponents(m, <<>>)
  ELSE IF BaseDateFromMap(m) = <<>> THEN <<>> ELSE ApplyDateComponents(m, BaseDateFromMap(m))
LocalTimeFromMap(m) ==
  IF BaseKey(m, "time") = "" THEN ApplyTimeComponents(m, <<>>)
  ELSE IF BaseTimeFromMap(m) = <<>> THEN <<>> ELSE ApplyTimeComponents(m, BaseTimeFromMap(m))

-----------------------------------------------------------------------------
(* Texts.                                                                  *)

\* The formats of a date: ISO week, ordinal, calendar, and the basic forms
\* without separators, whose year has four digits and cannot be 0.
ParseDate(x) ==
  CASE "week" \in DOMAIN x -> DateFromIsoWeek(x.week[1], CheckedInt(x.week[2], 1, 53), CheckedInt(x.week[3], 1, 7))
    [] "ordinal" \in DOMAIN x -> DateFromOrdinal(x.ordinal[1], CheckedInt(x.ordinal[2], 1, 366))
    [] "calendar" \in DOMAIN x ->
         CheckedDate(x.calendar[1], CheckedInt(x.calendar[2], 1, 12), CheckedInt(x.calendar[3], 1, 31))
    [] "basic" \in DOMAIN x ->
         LET y == CheckedInt(x.basic[2], 1, 9999)
         IN  IF y = Bad THEN <<>>
             ELSE CheckedDate(x.basic[1] * y, CheckedInt(x.basic[3], 1, 12), CheckedInt(x.basic[4], 1, 31))
    [] OTHER ->
         LET y == CheckedInt(x.basicOrdinal[2], 1, 9999)
         IN  IF y = Bad THEN <<>>
             ELSE DateFromOrdinal(x.basicOrdinal[1] * y, CheckedInt(x.basicOrdinal[3], 1, 366))

ParseLocalTime(t) ==
  CheckedTime(CheckedInt(t[1], 0, 23), CheckedInt(t[2], 0, 59), CheckedInt(t[3], 0, 59), t[4])

\* An offset's text is <<sign, hours, minutes, seconds>>; "Z" is an offset of 0.
FormatOffset(off) ==
  LET a == IF off < 0 THEN -off ELSE off
  IN  <<IF off < 0 THEN -1 ELSE 1, a \div 3600, (a % 3600) \div 60, a % 60>>

ParseOffset(x) ==
  IF \/ ~AllGood(<<CheckedInt(x[2], 0, 18), CheckedInt(x[3], 0, 59), CheckedInt(x[4], 0, 59)>>)
     \/ x[2] = 18 /\ (x[3] # 0 \/ x[4] # 0)
  THEN Bad ELSE x[1] * (x[2] * 3600 + x[3] * 60 + x[4])

-----------------------------------------------------------------------------
(* Time zones.                                                             *)

\* std::chrono::year keeps 16 bits of a year.
ChronoYear(y) == ((y + 32768) % 65536) - 32768
ToLocalSeconds(d, t) == <<DaysFromCivil(<<ChronoYear(d[1]), d[2], d[3]>>), t[1] * 3600 + t[2] * 60 + t[3]>>
Later(instant, seconds) ==
  LET s == instant[2] + seconds IN <<instant[1] + s \div SecondsPerDay, s % SecondsPerDay>>

InPeriod(z, i, instant) ==
  /\ i = 1 \/ ~LexLess(instant, Zones[z][i].from)
  /\ i = Len(Zones[z]) \/ LexLess(instant, Zones[z][i + 1].from)

\* zone->get_info(local): the periods in which that local time occurs; of two
\* (the clock went back) the first is taken, none (it went forward) throws.
\* One zone has an offset of its own before 1879.
ZoneOffset(z, d, t) ==
  IF z = "Europe/Stockholm" /\ DaysFromCivil(d) < DaysFromCivil(<<1879, 1, 1>>) THEN 53 * 60 + 28
  ELSE IF z \notin DOMAIN Zones THEN Bad
  ELSE LET at == {i \in DOMAIN Zones[z] : InPeriod(z, i, Later(ToLocalSeconds(d, t), -Zones[z][i].off))}
       IN  IF at = {} THEN Bad ELSE Zones[z][CHOOSE i \in at : \A j \in at : i <= j].off

NumericTimezone(zone) == "zone" \notin DOMAIN zone
StoredTimezone(zone) == IF NumericTimezone(zone) THEN NoZone ELSE zone

OffsetForTimezone(zone, d, t) ==
  CASE zone = NoZone         -> 0
    [] "off" \in DOMAIN zone -> zone.off
    [] OTHER                 -> ZoneOffset(zone.zone, d, t)

TargetOffsetForConversion(zone, d, t, source) ==
  IF NumericTimezone(zone) THEN OffsetForTimezone(zone, d, t)
  ELSE IF zone.zone \notin DOMAIN Zones THEN Bad
  ELSE LET z == zone.zone
       IN  Zones[z][CHOOSE i \in DOMAIN Zones[z] :
                      InPeriod(z, i, Later(ToLocalSeconds(d, t), -source))].off

ConvertOffset(d, t, source, target) ==
  LET adjusted == Later(ToLocalSeconds(d, t), target - source)
      s        == adjusted[2]
  IN  [date |-> FromSysDays(adjusted[1]),
       time |-> <<s \div 3600, (s % 3600) \div 60, s % 60, t[4]>>]

\* The offset that a map inherits from its "datetime", else from its "time".
SourceOffsetFromMap(m) ==
  LET k == IF "datetime" \in DOMAIN m THEN "datetime" ELSE IF "time" \in DOMAIN m THEN "time" ELSE ""
  IN  CASE k # "" /\ Is(m[k], "dt")   -> [has |-> TRUE, off |-> m[k].dt.off, zone |-> m[k].dt.zone]
        [] k # "" /\ Is(m[k], "time") -> [has |-> TRUE, off |-> m[k].time.off, zone |-> NoZone]
        [] OTHER                      -> [has |-> FALSE, off |-> 0, zone |-> NoZone]

-----------------------------------------------------------------------------
(* Constructors.  now is an instant <<seconds, nanoseconds>>; an argument  *)
(* is a sequence with the argument, or empty.                              *)

UtcDateTimeFromEpoch(seconds, nanos) ==
  LET s == seconds % SecondsPerDay
  IN  [date |-> FromSysDays(seconds \div SecondsPerDay),
       time |-> <<s \div 3600, (s % 3600) \div 60, s % 60, nanos>>]
UtcDateTime(now) == UtcDateTimeFromEpoch(now[1], now[2])

ConstructDate(arg, now) ==
  IF arg = <<>> THEN DateValue(UtcDateTime(now).date)
  ELSE LET a == arg[1]
       IN  CASE Is(a, "date")    -> a
             [] Is(a, "str")     -> DateValue(ParseDate(a.str))
             [] Is(a, "map")     -> DateValue(DateFromMap(a.map))
             [] Type(a) \in {"ldt", "dt"} -> DateValue(DateFromTemporal(a))
             [] OTHER                               -> Null

ConstructLocalTime(arg, now) ==
  IF arg = <<>> THEN LocalTimeValue(UtcDateTime(now).time)
  ELSE LET a == arg[1]
       IN  CASE Is(a, "ltime")    -> a
             [] Is(a, "str")      -> LocalTimeValue(ParseLocalTime(a.str))
             [] Is(a, "map")      -> LocalTimeValue(LocalTimeFromMap(a.map))
             [] Type(a) \in {"time", "ldt", "dt"} -> LocalTimeValue(TimeFromTemporal(a))
             [] OTHER                                -> Null

\* A zone that a map names, or the default; a named zone needs a date.
MapZone(m, default) ==
  IF "timezone" \notin DOMAIN m THEN default
  ELSE IF Is(m.timezone, "str") THEN m.timezone.str ELSE [zone |-> "not a string"]

TimeFromMap(m) ==
  LET source == SourceOffsetFromMap(m)
      zone   == MapZone(m, [off |-> IF source.has THEN source.off ELSE 0])
      base   == IF BaseKey(m, "time") = "" THEN Midnight ELSE BaseTimeFromMap(m)
  IN  IF base = <<>> \/ "off" \notin DOMAIN zone THEN Invalid
      ELSE TimeValue(ApplyTimeComponents(m,
             IF source.has /\ source.off # zone.off
             THEN ConvertOffset(<<1970, 1, 1>>, base, source.off, zone.off).time ELSE base),
             zone.off)

ConstructTime(arg, now) ==
  IF arg = <<>> THEN TimeValue(UtcDateTime(now).time, 0)
  ELSE LET a == arg[1]
       IN  CASE Is(a, "time")  -> a
             [] Is(a, "str")   ->
                  IF a.str.zone # NoZone THEN Invalid
                  ELSE TimeValue(ParseLocalTime(a.str.time),
                                 IF a.str.off = <<>> THEN 0 ELSE ParseOffset(a.str.off))
             [] Is(a, "map")   -> TimeFromMap(a.map)
             [] Type(a) \in {"ltime", "ldt"} -> TimeValue(TimeFromTemporal(a), 0)
             [] Is(a, "dt")    -> TimeValue(a.dt.local, a.dt.off)
             [] OTHER                             -> Null

ConstructLocalDateTime(arg, now) ==
  IF arg = <<>> THEN LocalDateTimeValue(UtcDateTime(now).date, UtcDateTime(now).time)
  ELSE LET a == arg[1]
       IN  CASE Is(a, "ldt")  -> a
             [] Is(a, "str")  ->
                  LocalDateTimeValue(ParseDate(a.str.date),
                                     IF a.str.time = <<>> THEN Midnight ELSE ParseLocalTime(a.str.time))
             [] Is(a, "map")  -> LocalDateTimeValue(DateFromMap(a.map), LocalTimeFromMap(a.map))
             [] Is(a, "dt")   -> LocalDateTimeValue(a.dt.date, a.dt.local)
             [] OTHER                            -> Null

\* A zone name with one of the characters "Zz+-" counts as a given offset: the
\* offset then stays 0.
ParseDateTime(x) ==
  LET d == ParseDate(x.date)
      t == ParseLocalTime(x.time)
      off == IF x.off = <<>> THEN 0 ELSE ParseOffset(x.off)
  IN  IF d = <<>> \/ t = <<>> \/ (x.off = <<>> /\ x.zone = NoZone) THEN Invalid
      ELSE DateTimeValue(d, t,
             IF x.zone # NoZone /\ x.off = <<>> /\ x.zone.zone \notin NamesWithSign
             THEN ZoneOffset(x.zone.zone, d, t) ELSE off, x.zone)

DateTimeFromMap(m) ==
  LET source == SourceOffsetFromMap(m)
      d      == DateFromMap(m)
      t      == LocalTimeFromMap(m)
      zone   == MapZone(m, source.zone)
      from   == IF NumericTimezone(source.zone) THEN source.off ELSE ZoneOffset(source.zone.zone, d, t)
      target == IF source.has THEN TargetOffsetForConversion(zone, d, t, from)
                ELSE OffsetForTimezone(zone, d, t)
  IN  IF d = <<>> \/ t = <<>> THEN Invalid
      ELSE IF source.has /\ from = Bad THEN Invalid
      ELSE IF "timezone" \notin DOMAIN m
           THEN DateTimeValue(d, t, IF source.has THEN from ELSE OffsetForTimezone(zone, d, t), StoredTimezone(zone))
      ELSE IF target = Bad THEN Invalid
      ELSE LET c == IF source.has THEN ConvertOffset(d, t, from, target) ELSE [date |-> d, time |-> t]
           IN  DateTimeValue(c.date, c.time, target, StoredTimezone(zone))

ConstructDateTime(arg, now) ==
  IF arg = <<>> THEN DateTimeValue(UtcDateTime(now).date, UtcDateTime(now).time, 0, NoZone)
  ELSE LET a == arg[1]
       IN  CASE Is(a, "dt")   -> a
             [] Is(a, "str")  -> ParseDateTime(a.str)
             [] Is(a, "map")  -> DateTimeFromMap(a.map)
             [] Is(a, "ldt")  -> DateTimeValue(DateFromTemporal(a), TimeFromTemporal(a), 0, NoZone)
             [] OTHER                            -> Null

ConstructDateTimeFromEpoch(s, n) ==
  IF Is(s, "null") \/ Is(n, "null") THEN Null
  ELSE IF ~Is(s, "int") \/ ~Is(n, "int") THEN Invalid
  ELSE IF n.int < 0 \/ n.int >= NanosPerSecond THEN Invalid
  ELSE LET u == UtcDateTimeFromEpoch(s.int, n.int) IN DateTimeValue(u.date, u.time, 0, NoZone)

MillisPerSecond == NanosPerSecond \div NanosPerMilli
ConstructDateTimeFromEpochMillis(ms) ==
  CASE Is(ms, "null") -> Null
    [] Is(ms, "int")  -> LET u == UtcDateTimeFromEpoch(ms.int \div MillisPerSecond, (ms.int % MillisPerSecond) * NanosPerMilli)
                         IN  DateTimeValue(u.date, u.time, 0, NoZone)
    [] OTHER          -> Invalid

\* The current instant on the clock of a zone ("Z" without an argument).
DateTimeAtInstant(now, zone) ==
  LET u == UtcDateTime(now)
      off == TargetOffsetForConversion(zone, u.date, u.time, 0)
  IN  IF off = Bad THEN Invalid
      ELSE LET c == ConvertOffset(u.date, u.time, 0, off)
           IN  DateTimeValue(c.date, c.time, off, StoredTimezone(zone))

\* date.statement(), localtime.realtime(), ...: that instant, as one type.
Current(type, arg, now) ==
  LET at == DateTimeAtInstant(now, IF arg = <<>> THEN [off |-> 0] ELSE arg[1].str)
  IN  IF arg # <<>> /\ Is(arg[1], "null") THEN Null
      ELSE IF (arg # <<>> /\ ~Is(arg[1], "str")) \/ at = Invalid THEN Invalid
      ELSE CASE type = "date"  -> DateValue(at.dt.date)
             [] type = "ltime" -> LocalTimeValue(at.dt.local)
             [] type = "time"  -> TimeValue(at.dt.local, at.dt.off)
             [] type = "ldt"   -> LocalDateTimeValue(at.dt.date, at.dt.local)
             [] type = "dt"    -> at
=============================================================================
