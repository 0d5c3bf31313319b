----------------------------- MODULE Durations -----------------------------
(***************************************************************************)
(* Arithmetic with durations, the duration between two temporal values,    *)
(* truncation and the properties of temporal values.  The conventions are  *)
(* those of Temporal: numbers with a fraction are counted in halves.       *)
(***************************************************************************)
EXTENDS Temporal

CONSTANT DurationLimit   \* 2^63 for the numbers of durations, scaled down with NanosPerSecond
ASSUME DurationAssumption == DurationLimit \in Nat \ {0} /\ MaximumYear \in Nat /\ MaximumYear >= 1970

\* CheckedWideInteger: <<>> stands for the exception, as in Temporal.
WideInRange(n) == n >= -DurationLimit /\ n < DurationLimit
DurationValue(d) == IF d = <<>> THEN Invalid ELSE [dur |-> d]
DurationNanoseconds(d) == d[3] * NanosPerSecond + d[4]

\* A number of half nanoseconds, rounded away from zero and to even.
RoundAway(h) == IF h >= 0 THEN (h + 1) \div 2 ELSE -((1 - h) \div 2)
RoundEven(h) == IF h % 2 = 0 THEN h \div 2 ELSE LET f == h \div 2 IN IF f % 2 = 0 THEN f ELSE f + 1

NormalizeDurationNanoseconds(months, days, nanos) ==
  IF WideInRange(nanos \div NanosPerSecond) THEN <<months, days, nanos \div NanosPerSecond, nanos % NanosPerSecond>> ELSE <<>>
\* From a number of seconds: the nanoseconds have to be in range.
NormalizeDuration(months, days, halves) ==
  LET nanos == RoundAway(halves) IN IF WideInRange(nanos) THEN NormalizeDurationNanoseconds(months, days, nanos) ELSE <<>>

\* Half a month, in the seconds of an average month: whole days and the rest.
MonthFraction(halves) ==
  LET seconds == (halves - 2 * TruncDiv(halves, 2)) * (AverageMonthSeconds \div 2)
      days    == TruncDiv(seconds, SecondsPerDay)
  IN  [days |-> days, seconds |-> seconds - days * SecondsPerDay]

\* The fields of a duration, in halves, that a map or a text gives.
DurationKeys == {"years", "months", "weeks", "days", "hours", "minutes", "seconds",
                 "milliseconds", "microseconds", "nanoseconds"}
MapNumber(m, k) ==
  IF k \notin DOMAIN m THEN 0
  ELSE IF Is(m[k], "int") THEN 2 * m[k].int ELSE IF Is(m[k], "dbl") THEN m[k].dbl ELSE Bad

\* The months and days are cast to integers unchecked; here they are in range.
DurationFromFields(F(_)) ==
  LET months == F("years") * 12 + F("months")
      days   == F("days") + F("weeks") * 7
      month  == MonthFraction(months)
      whole  == TruncDiv(days, 2)
      halves == 2 * NanosPerSecond * (month.seconds + (days - 2 * whole) * (SecondsPerDay \div 2)
                                        + F("hours") * 1800 + F("minutes") * 30)
                + F("seconds") * NanosPerSecond + F("milliseconds") * NanosPerMilli
                + F("microseconds") * NanosPerMicro + F("nanoseconds")
  IN  NormalizeDuration(TruncDiv(months, 2), whole + month.days, halves)

DurationFromMap(m) ==
  LET Field(k) == MapNumber(m, k)
  IN  IF \E k \in DurationKeys : Field(k) = Bad THEN Invalid ELSE DurationValue(DurationFromFields(Field))

\* A duration's text: the fields printed.  Seconds are printed with their
\* fraction, as nanoseconds here; one sign goes before hours, minutes and
\* seconds.  A text without any field ("P", "PT") is refused.
ParseDuration(x) ==
  LET Field(k) == IF k \notin DOMAIN x THEN 0 ELSE 2 * x[k]
  IN  IF DOMAIN x = {} THEN Invalid ELSE DurationValue(DurationFromFields(Field))

FormatDuration(d) ==
  LET negative == d[3] < 0
      sign     == IF negative THEN -1 ELSE 1
      seconds  == IF negative THEN -(d[3] + (IF d[4] > 0 THEN 1 ELSE 0)) ELSE d[3]
      nanos    == IF negative /\ d[4] > 0 THEN NanosPerSecond - d[4] ELSE d[4]
      hours    == seconds \div 3600
      minutes  == (seconds % 3600) \div 60
      rest     == seconds % 60
      all == [years |-> TruncDiv(d[1], 12), months |-> TruncMod(d[1], 12), days |-> d[2],
              hours |-> sign * hours, minutes |-> sign * minutes,
              nanoseconds |-> sign * (rest * NanosPerSecond + nanos)]
      time == \/ hours # 0 \/ minutes # 0 \/ rest # 0 \/ d[4] # 0
              \/ d[1] = 0 /\ d[2] = 0
  IN  [k \in {f \in DOMAIN all : all[f] # 0}
               \cup (IF time /\ hours = 0 /\ minutes = 0 THEN {"nanoseconds"} ELSE {}) |-> all[k]]

ConstructDuration(v) ==
  CASE Is(v, "dur") -> v
    [] Is(v, "str") -> ParseDuration(v.str)
    [] Is(v, "map") -> DurationFromMap(v.map)
    [] OTHER        -> Null

-----------------------------------------------------------------------------
(* Arithmetic.                                                             *)

AddMonthsClamped(d, months) ==
  LET i     == d[1] * 12 + d[2] - 1 + months
      carry == TruncMod(i, 12) < 0
      year  == TruncDiv(i, 12) - (IF carry THEN 1 ELSE 0)
      month == TruncMod(i, 12) + 1 + (IF carry THEN 12 ELSE 0)
      last  == DaysInMonth(year, month)
  IN  IF year < MinimumYear \/ year > MaximumYear THEN <<>>
      ELSE <<year, month, IF d[3] < last THEN d[3] ELSE last>>

AddDays(d, n) == IF WideInRange(n) THEN FromSysDays(DaysFromCivil(d) + n) ELSE <<>>
\* Months and then days are added, each unless its sum is out of range.
AddMonthsAndDays(d, months, days) ==
  LET shifted == IF WideInRange(months) THEN AddMonthsClamped(d, months) ELSE <<>>
  IN  IF shifted = <<>> THEN <<>> ELSE AddDays(shifted, days)

LocalTimeFromNanoseconds(n) ==
  LET s == n \div NanosPerSecond
  IN  <<s \div 3600, (s % 3600) \div 60, s % 60, n % NanosPerSecond>>

AddDurationToLocalTime(t, dur, sign) ==
  LocalTimeFromNanoseconds((LocalNanoseconds(t) + sign * DurationNanoseconds(dur)) % NanosPerDay)

AddDurationToLocalDateTime(d, t, dur, sign) ==
  LET total == LocalNanoseconds(t) + sign * DurationNanoseconds(dur)
  IN  [date |-> AddMonthsAndDays(d, sign * dur[1], sign * dur[2] + FloorDivide(total, NanosPerDay)),
       time |-> LocalTimeFromNanoseconds(total % NanosPerDay)]

AddDurationToTemporal(v, dur, sign) ==
  LET local == AddDurationToLocalDateTime(DateFromTemporal(v), TimeFromTemporal(v), dur, sign)
  IN  CASE Is(v, "date") ->
             DateValue(AddMonthsAndDays(v.date, sign * dur[1],
                                        sign * dur[2] + TruncDiv(sign * DurationNanoseconds(dur), NanosPerDay)))
        [] Is(v, "ltime") -> LocalTimeValue(AddDurationToLocalTime(v.ltime, dur, sign))
        [] Is(v, "time")  -> TimeValue(AddDurationToLocalTime(v.time.local, dur, sign), v.time.off)
        [] Is(v, "ldt")   -> LocalDateTimeValue(local.date, local.time)
        [] Is(v, "dt")    ->
             DateTimeValue(local.date, local.time,
               IF v.dt.zone = NoZone \/ local.date = <<>> THEN v.dt.off ELSE ZoneOffset(v.dt.zone.zone, local.date, local.time),
               v.dt.zone)

AddDurations(l, r, sign) ==
  LET months == l[1] + sign * r[1]
      days   == l[2] + sign * r[2]
  IN  DurationValue(IF ~WideInRange(months) \/ ~WideInRange(days) THEN <<>>
                    ELSE NormalizeDurationNanoseconds(months, days, DurationNanoseconds(l) + sign * DurationNanoseconds(r)))

\* A product, in halves, against the limits of the integers.
ProductInRange(halves) == halves >= -2 * DurationLimit /\ halves <= 2 * (DurationLimit - 1)
ScaleDuration(d, factor) ==
  LET month == MonthFraction(d[1] * factor.dbl)
      days  == d[2] * factor.dbl
      whole == TruncDiv(days, 2)
      nanos == RoundEven(2 * NanosPerSecond * (month.seconds + (days - 2 * whole) * (SecondsPerDay \div 2))
                         + DurationNanoseconds(d) * factor.dbl)
  IN  DurationValue(
        IF ~IsFinite(factor) THEN <<>>
        ELSE IF ~ProductInRange(d[1] * factor.dbl) \/ ~ProductInRange(days) \/ ~WideInRange(month.days + whole) \/ ~WideInRange(nanos) THEN <<>>
        ELSE NormalizeDurationNanoseconds(TruncDiv(d[1] * factor.dbl, 2), month.days + whole, nanos))

-----------------------------------------------------------------------------
(* The duration between two values.                                        *)

Operand(v) ==
  [shape |-> CASE Is(v, "date") -> "date" [] Type(v) \in {"ltime", "time"} -> "time" [] OTHER -> "datetime",
   hasDate |-> Type(v) \in {"date", "ldt", "dt"},
   date |-> IF Type(v) \in {"date", "ldt", "dt"} THEN DateFromTemporal(v) ELSE <<1970, 1, 1>>,
   time |-> IF Is(v, "date") THEN Midnight ELSE TimeFromTemporal(v),
   hasOff |-> Type(v) \in {"time", "dt"},
   off |-> CASE Is(v, "time") -> v.time.off [] Is(v, "dt") -> v.dt.off [] OTHER -> 0,
   zone |-> IF Is(v, "dt") THEN v.dt.zone ELSE NoZone]

LocalSecondsSinceEpoch(x, withDate) ==
  <<IF withDate THEN DaysFromCivil(x.date) ELSE 0, x.time[1] * 3600 + x.time[2] * 60 + x.time[3]>>

EffectiveOffset(x, zone, anchor, bothOffsets) ==
  IF zone # NoZone
  THEN IF x.hasOff THEN x.off ELSE ZoneOffset(zone.zone, IF x.hasDate THEN x.date ELSE anchor, x.time)
  ELSE IF bothOffsets THEN x.off ELSE 0

DifferenceInSeconds(l, r) ==
  LET zone     == IF l.zone # NoZone THEN l.zone ELSE r.zone
      withDate == l.hasDate /\ r.hasDate
      anchor   == IF l.hasDate THEN l.date ELSE r.date
      Offset(x) == EffectiveOffset(x, zone, anchor, l.hasOff /\ r.hasOff)
      from     == LocalSecondsSinceEpoch(l, withDate)
      to       == LocalSecondsSinceEpoch(r, withDate)
      seconds  == (to[1] - from[1]) * SecondsPerDay + to[2] - from[2]
                    + (IF l.shape = "date" /\ r.shape = "date" THEN 0 ELSE Offset(l) - Offset(r))
      nanos    == r.time[4] - l.time[4]
  IN  IF nanos < 0 THEN <<seconds - 1, nanos + NanosPerSecond>> ELSE <<seconds, nanos>>

\* Mutant: the month that is not complete yet is counted.
MutDifferenceInMonths(l, r) ==
  IF ~(l.hasDate /\ r.hasDate) THEN 0 ELSE (r.date[1] - l.date[1]) * 12 + r.date[2] - l.date[2]

\* Whole months, an incomplete last one (in either direction) not counted.
DifferenceInMonths(l, r) ==
  IF ~(l.hasDate /\ r.hasDate) THEN 0
  ELSE LET months == (r.date[1] - l.date[1]) * 12 + r.date[2] - l.date[2]
           rest   == DifferenceInSeconds([l EXCEPT !.date = AddMonthsClamped(@, months)], r)
       IN  CASE months > 0 /\ rest[1] < 0 -> months - 1
             [] months < 0 /\ (rest[1] > 0 \/ (rest[1] = 0 /\ rest[2] > 0)) -> months + 1
             [] OTHER -> months

\* Seconds with a borrowed nanosecond part, truncated towards zero to days.
WholeDays(rest) == TruncDiv(IF rest[1] < 0 /\ rest[2] > 0 THEN rest[1] + 1 ELSE rest[1], SecondsPerDay)

CalendarDuration(l, r) ==
  IF ~(l.hasDate /\ r.hasDate) THEN <<0, 0>> \o DifferenceInSeconds(l, r)
  ELSE LET months == DifferenceInMonths(l, r)
           rest   == DifferenceInSeconds([l EXCEPT !.date = AddMonthsClamped(@, months)], r)
           days   == WholeDays(rest)
       IN  <<months, days, rest[1] - days * SecondsPerDay, rest[2]>>

\* An endpoint that is not temporal throws; null gives null.
OfEndpoints(l, r, F(_, _)) ==
  IF Is(l, "null") \/ Is(r, "null") THEN Null
  ELSE IF {Type(l), Type(r)} \subseteq {"date", "ltime", "time", "ldt", "dt"}
       THEN [dur |-> F(Operand(l), Operand(r))] ELSE Invalid

DurationBetween(l, r) == OfEndpoints(l, r, CalendarDuration)
DurationInMonths(l, r) == LET F(x, y) == <<DifferenceInMonths(x, y), 0, 0, 0>> IN OfEndpoints(l, r, F)
DurationInDays(l, r) ==
  LET F(x, y) == IF x.hasDate /\ y.hasDate THEN <<0, WholeDays(DifferenceInSeconds(x, y)), 0, 0>> ELSE <<0, 0, 0, 0>>
  IN  OfEndpoints(l, r, F)
DurationInSeconds(l, r) == LET F(x, y) == <<0, 0>> \o DifferenceInSeconds(x, y) IN OfEndpoints(l, r, F)

-----------------------------------------------------------------------------
(* Truncation.                                                             *)

DateUnits == {"millennium", "century", "decade", "year", "weekYear", "quarter", "month", "week", "day"}
TimeUnits == {"day", "hour", "minute", "second", "millisecond", "microsecond"}

TruncatedYear(y, width) == y - (y % width)

TruncateDateValue(unit, d) ==
  CASE unit = "millennium" -> <<TruncatedYear(d[1], 1000), 1, 1>>
    [] unit = "century"    -> <<TruncatedYear(d[1], 100), 1, 1>>
    [] unit = "decade"     -> <<TruncatedYear(d[1], 10), 1, 1>>
    [] unit = "year"       -> <<d[1], 1, 1>>
    [] unit = "weekYear"   -> DateFromIsoWeek(IsoWeekComponents(d).year, 1, 1)
    [] unit = "quarter"    -> <<d[1], Quarter(d) * 3 - 2, 1>>
    [] unit = "month"      -> <<d[1], d[2], 1>>
    [] unit = "week"       -> FromSysDays(DaysFromCivil(d) - (IsoWeekday(DaysFromCivil(d)) - 1))
    [] unit = "day"        -> d
    [] OTHER               -> <<>>

\* The fields then replace components; a week's day counts from its Monday.
ApplyTruncationDateFields(unit, d, fields) ==
  LET day == MapIntOr(fields, "dayOfWeek", 1, 1, 7)
  IN  IF d = <<>> \/ (unit = "week" /\ day = Bad) THEN <<>>
      ELSE ApplyDateComponents(fields, IF unit = "week" THEN AddDays(d, day - 1) ELSE d)

TruncateTimeValue(unit, t) ==
  CASE unit = "day"         -> Midnight
    [] unit = "hour"        -> <<t[1], 0, 0, 0>>
    [] unit = "minute"      -> <<t[1], t[2], 0, 0>>
    [] unit = "second"      -> <<t[1], t[2], t[3], 0>>
    [] unit = "millisecond" -> <<t[1], t[2], t[3], t[4] - (t[4] % NanosPerMilli)>>
    [] unit = "microsecond" -> <<t[1], t[2], t[3], t[4] - (t[4] % NanosPerMicro)>>
    [] OTHER                -> <<>>

\* A given fraction is added to the truncated one.
ApplyTruncationTimeFields(t, fields) ==
  IF t = <<>> THEN <<>>
  ELSE LET base  == ApplyTimeComponents([k \in DOMAIN fields \ FractionKeys |-> fields[k]], t)
           extra == MapFractionNanoseconds(fields)
       IN  IF base = <<>> \/ extra = Bad THEN <<>>
           ELSE CheckedTime(base[1], base[2], base[3], base[4] + extra)

\* The date and time of a date-time; a date is at midnight.
TruncateDateTimeParts(unit, v, fields) ==
  LET d == DateFromTemporal(v)
      t == IF Is(v, "date") THEN Midnight ELSE TimeFromTemporal(v)
      asDate == unit \in DateUnits
  IN  [date |-> ApplyTruncationDateFields(unit, IF asDate THEN TruncateDateValue(unit, d) ELSE d, fields),
       time |-> ApplyTruncationTimeFields(IF asDate THEN Midnight ELSE TruncateTimeValue(unit, t), fields)]

\* The offset: of a named zone, recomputed for the truncated time.
TruncatedTimezone(v, fields, d, t) ==
  LET zone == MapZone(fields, IF Is(v, "dt") THEN v.dt.zone ELSE NoZone)
  IN  IF "timezone" \in DOMAIN fields \/ zone # NoZone
      THEN [off |-> OffsetForTimezone(zone, d, t), zone |-> StoredTimezone(zone)]
      ELSE [off |-> IF Is(v, "dt") THEN v.dt.off ELSE 0, zone |-> NoZone]

Truncate(type, unit, v, fields) ==
  LET parts == TruncateDateTimeParts(unit, v, fields)
      time  == ApplyTruncationTimeFields(TruncateTimeValue(unit, TimeFromTemporal(v)), fields)
      zone  == TruncatedTimezone(v, fields, parts.date, parts.time)
      given == MapZone(fields, [off |-> Operand(v).off])
      Dated == Type(v) \in {"date", "ldt", "dt"}
      Timed == Type(v) \in {"ltime", "time", "ldt", "dt"}
  IN  IF Is(v, "null") THEN Null
      ELSE CASE type = "date" ->
                  IF unit \notin DateUnits \/ ~Dated THEN Invalid
                  ELSE DateValue(ApplyTruncationDateFields(unit, TruncateDateValue(unit, DateFromTemporal(v)), fields))
             [] type = "ltime" -> IF ~Timed THEN Invalid ELSE LocalTimeValue(time)
             [] type = "time"  -> IF ~Timed \/ ~NumericTimezone(given) THEN Invalid
                                  ELSE TimeValue(time, OffsetForTimezone(given, <<1970, 1, 1>>, time))
             [] type = "ldt"   -> IF ~Dated THEN Invalid ELSE LocalDateTimeValue(parts.date, parts.time)
             [] type = "dt"    -> IF ~Dated \/ parts.date = <<>> \/ parts.time = <<>> THEN Invalid
                                  ELSE DateTimeValue(parts.date, parts.time, zone.off, zone.zone)

-----------------------------------------------------------------------------
(* Properties of temporal values.                                          *)

DateProperty(d) ==
  LET iso == IsoWeekComponents(d)
  IN  [year |-> d[1], quarter |-> Quarter(d), month |-> d[2], week |-> iso.week, weekYear |-> iso.year,
       day |-> d[3], ordinalDay |-> OrdinalDay(d), weekDay |-> iso.weekday, dayOfWeek |-> iso.weekday,
       dayOfQuarter |-> DayOfQuarter(d)]

TimeProperty(t) ==
  [hour |-> t[1], minute |-> t[2], second |-> t[3], millisecond |-> t[4] \div NanosPerMilli,
   microsecond |-> t[4] \div NanosPerMicro, nanosecond |-> t[4]]

OffsetProperty(off) == [offsetMinutes |-> TruncDiv(off, 60), offsetSeconds |-> off]

CheckedNumber(n) == IF WideInRange(n) THEN n ELSE Bad
DurationProperty(d) ==
  [years |-> TruncDiv(d[1], 12), quarters |-> TruncDiv(d[1], 3), months |-> d[1],
   weeks |-> TruncDiv(d[2], 7), days |-> d[2], hours |-> TruncDiv(d[3], 3600),
   minutes |-> TruncDiv(d[3], 60), seconds |-> d[3],
   milliseconds |-> CheckedNumber(d[3] * MillisPerSecond + d[4] \div NanosPerMilli),
   microseconds |-> CheckedNumber(d[3] * (NanosPerSecond \div NanosPerMicro) + d[4] \div NanosPerMicro),
   nanoseconds |-> CheckedNumber(DurationNanoseconds(d)),
   quartersOfYear |-> TruncDiv(TruncMod(d[1], 12), 3), monthsOfQuarter |-> TruncMod(d[1], 3),
   monthsOfYear |-> TruncMod(d[1], 12), daysOfWeek |-> TruncMod(d[2], 7),
   minutesOfHour |-> TruncMod(TruncDiv(d[3], 60), 60), secondsOfMinute |-> TruncMod(d[3], 60),
   millisecondsOfSecond |-> d[4] \div NanosPerMilli, microsecondsOfSecond |-> d[4] \div NanosPerMicro,
   nanosecondsOfSecond |-> d[4]]

\* (Milliseconds leave the range only beyond the year 292 million.)
EpochProperty(x) ==
  LET s == DateTimeKey(x)[1] * SecondsPerDay + DateTimeKey(x)[2]
  IN  [epochSeconds |-> s, epochMillis |-> s * MillisPerSecond + x.local[4] \div NanosPerMilli]

\* The number that a property of a temporal value has; its texts (the offset
\* and the time zone) are left out.
TemporalProperty(v, k) ==
  LET of == CASE Is(v, "date")  -> {DateProperty(v.date)}
              [] Is(v, "ltime") -> {TimeProperty(v.ltime)}
              [] Is(v, "time")  -> {TimeProperty(v.time.local), OffsetProperty(v.time.off)}
              [] Is(v, "ldt")   -> {DateProperty(DateFromTemporal(v)), TimeProperty(TimeFromTemporal(v))}
              [] Is(v, "dt")    -> {DateProperty(v.dt.date), TimeProperty(v.dt.local),
                                    OffsetProperty(v.dt.off), EpochProperty(v.dt)}
              [] Is(v, "dur")   -> {DurationProperty(v.dur)}
              [] OTHER          -> {}
      Found(n) == IF n = Bad THEN Invalid ELSE Int_(n)
  IN  IF \E p \in of : k \in DOMAIN p THEN Found((CHOOSE p \in of : k \in DOMAIN p)[k]) ELSE Null
=============================================================================
