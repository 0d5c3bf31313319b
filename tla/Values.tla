------------------------------- MODULE Values -------------------------------
(***************************************************************************)
(* The values a query computes with and the relations on them: the sort    *)
(* order of ORDER BY (ValueLess), the equality of '=' and of property      *)
(* indexes (ValuesEqual), and the grouping equality and hash of DISTINCT,  *)
(* aggregation and hash joins (ValueEqual, ValueHash).                     *)
(*                                                                         *)
(* A value is a record with one field that names its type.  A double is    *)
(* counted in halves; NaN is a value of its own, Infinity a double far     *)
(* beyond the integers, and zero has no sign.  Strings are sequences of    *)
(* character codes, keys of maps the numbers 1, 2, ... for a, b, ...       *)
(* Times are tuples of their fields; a second has NanosPerSecond parts.    *)
(***************************************************************************)
EXTENDS Integers, Sequences, FiniteSets

CONSTANTS IntLimit,        \* 64-bit integers are -IntLimit .. IntLimit - 1
          NanosPerSecond,  \* 10^9 in the code
          Precision        \* significant digits of a printed double, 6 in the code

ASSUME ValuesAssumption == IntLimit \in Nat \ {0} /\ NanosPerSecond \in Nat \ {0} /\ Precision \in Nat \ {0, 1}

Null == [null |-> 0]
NaN == [nan |-> 0]
Bool(b) == [bool |-> b]
Int_(i) == [int |-> i]
Str(s) == [str |-> s]
List(s) == [list |-> s]

\* Value::Type; both doubles and NaN are kDouble.
Type(v) == LET f == CHOOSE x \in DOMAIN v : TRUE IN IF f = "nan" THEN "dbl" ELSE f

Is(v, t) == Type(v) = t
IsNumber(v) == Type(v) \in {"int", "dbl"}
IsNaN(v) == "nan" \in DOMAIN v
Infinity == [dbl |-> 4 * IntLimit]
IsFinite(v) == ~IsNaN(v) /\ v.dbl < Infinity.dbl /\ v.dbl > -Infinity.dbl

ValueOrderRank ==
  [map |-> 0, node |-> 1, rel |-> 2, list |-> 3, path |-> 4, str |-> 5, bool |-> 6,
   int |-> 7, dbl |-> 7, date |-> 8, ltime |-> 9, time |-> 10, ldt |-> 11,
   dt |-> 12, dur |-> 13, point |-> 14, null |-> 15]

\* std::tie and std::string comparison: lexicographic.
LexLess(s, t) ==
  \E k \in 1 .. Len(t) :
     /\ \A i \in 1 .. k - 1 : i <= Len(s) /\ s[i] = t[i]
     /\ IF k <= Len(s) THEN s[k] < t[k] ELSE k = Len(s) + 1

-----------------------------------------------------------------------------
(* Instants.                                                               *)

\* C++ division truncates towards zero.
TruncDiv(a, b) == IF a >= 0 THEN a \div b ELSE -((-a) \div b)

DaysFromCivil(d) ==
  LET year == IF d[2] <= 2 THEN d[1] - 1 ELSE d[1]
      era  == TruncDiv(IF year >= 0 THEN year ELSE year - 399, 400)
      yoe  == year - era * 400
      doy  == (153 * (IF d[2] > 2 THEN d[2] - 3 ELSE d[2] + 9) + 2) \div 5 + d[3] - 1
  IN  era * 146097 + yoe * 365 + yoe \div 4 - yoe \div 100 + doy - 719468

LocalNanoseconds(t) == ((t[1] * 60 + t[2]) * 60 + t[3]) * NanosPerSecond + t[4]

\* A time of day with an offset is ordered by its instant.
TimeKey(t) == LocalNanoseconds(t.local) - t.off * NanosPerSecond

\* The seconds of an instant are kept as days and seconds of the day.
DateTimeKey(t) ==
  LET seconds == t.local[1] * 3600 + t.local[2] * 60 + t.local[3] - t.off
  IN  <<DaysFromCivil(t.date) + seconds \div 86400, seconds % 86400, t.local[4]>>

AverageMonthSeconds == 2629746
\* A duration is <<months, days, seconds, nanoseconds>>.
EstimatedDurationNanoseconds(d) ==
  (d[1] * AverageMonthSeconds + d[2] * 86400 + d[3]) * NanosPerSecond + d[4]

-----------------------------------------------------------------------------
(* Equality.                                                               *)

\* Whether a double (in halves) is a whole number in the integers' range.
DoubleAsInteger(v) ==
  /\ ~IsNaN(v) /\ v.dbl % 2 = 0
  /\ v.dbl >= -2 * IntLimit /\ v.dbl < 2 * IntLimit

NumericEqual(l, r, nanEqual) ==
  CASE Is(l, "int") /\ Is(r, "int") -> l.int = r.int
    [] Is(l, "dbl") /\ Is(r, "dbl") ->
         IF IsNaN(l) \/ IsNaN(r) THEN nanEqual /\ IsNaN(l) /\ IsNaN(r) ELSE l.dbl = r.dbl
    [] OTHER -> LET i == IF Is(l, "int") THEN l ELSE r
                    d == IF Is(l, "dbl") THEN l ELSE r
                IN  DoubleAsInteger(d) /\ i.int * 2 = d.dbl

\* operator== of two values of one type: fields are compared one by one, NaN
\* differs from itself, and 1 differs from 1.0 (also inside lists and maps).
RECURSIVE SameValue(_, _)
SameValue(l, r) ==
  /\ Type(l) = Type(r)
  /\ CASE Is(l, "dbl")   -> NumericEqual(l, r, FALSE)
       [] Is(l, "list")  -> /\ Len(l.list) = Len(r.list)
                            /\ \A i \in DOMAIN l.list : SameValue(l.list[i], r.list[i])
       [] Is(l, "map")   -> /\ DOMAIN l.map = DOMAIN r.map
                            /\ \A k \in DOMAIN l.map : SameValue(l.map[k], r.map[k])
       [] Is(l, "point") -> /\ l.point.srid = r.point.srid
                            /\ Len(l.point.at) = Len(r.point.at)
                            /\ \A i \in DOMAIN l.point.at :
                                  NumericEqual(l.point.at[i], r.point.at[i], FALSE)
       [] OTHER          -> l = r

RECURSIVE ValuesEqual(_, _)
ValuesEqual(l, r) ==
  IF IsNumber(l) /\ IsNumber(r) THEN NumericEqual(l, r, FALSE)
  ELSE /\ Type(l) = Type(r)
       /\ CASE Is(l, "list") -> /\ Len(l.list) = Len(r.list)
                                /\ \A i \in DOMAIN l.list : ValuesEqual(l.list[i], r.list[i])
            [] Is(l, "map")  -> /\ DOMAIN l.map = DOMAIN r.map
                                /\ \A k \in DOMAIN l.map : ValuesEqual(l.map[k], r.map[k])
            [] OTHER         -> SameValue(l, r)

\* The grouping equality: as ValuesEqual, but NaN equals itself.
RECURSIVE ValueEqual(_, _)
ValueEqual(l, r) ==
  IF IsNumber(l) /\ IsNumber(r) THEN NumericEqual(l, r, TRUE)
  ELSE /\ Type(l) = Type(r)
       /\ CASE Is(l, "list")  -> /\ Len(l.list) = Len(r.list)
                                 /\ \A i \in DOMAIN l.list : ValueEqual(l.list[i], r.list[i])
            [] Is(l, "map")   -> /\ DOMAIN l.map = DOMAIN r.map
                                 /\ \A k \in DOMAIN l.map : ValueEqual(l.map[k], r.map[k])
            [] Is(l, "point") -> /\ l.point.srid = r.point.srid
                                 /\ Len(l.point.at) = Len(r.point.at)
                                 /\ \A i \in DOMAIN l.point.at :
                                       NumericEqual(l.point.at[i], r.point.at[i], TRUE)
            [] OTHER          -> l = r

\* A whole double hashes as the integer, every NaN alike.
HashNumber(v) ==
  CASE Is(v, "int")        -> [int |-> v.int]
    [] IsNaN(v)            -> [nan |-> 0]
    [] DoubleAsInteger(v)  -> [int |-> v.dbl \div 2]
    [] OTHER               -> v

\* The data that ValueHash combines; std::hash is taken to be injective.
RECURSIVE ValueHash(_)
ValueHash(v) ==
  CASE IsNumber(v)     -> HashNumber(v)
    [] Is(v, "list")   -> [list |-> [i \in DOMAIN v.list |-> ValueHash(v.list[i])]]
    [] Is(v, "map")    -> [map |-> [k \in DOMAIN v.map |-> ValueHash(v.map[k])]]
    [] Is(v, "point")  -> [point |-> [srid |-> v.point.srid,
                                      at |-> [i \in DOMAIN v.point.at |->
                                                IF IsNaN(v.point.at[i]) THEN NaN ELSE v.point.at[i]]]]
    [] OTHER           -> v

-----------------------------------------------------------------------------
(* Order.                                                                  *)

\* Mutant: the truncated double stands for the double.
MutIntegerLess(i, d) == i < TruncDiv(d, 2)

\* An integer against a double: the double is truncated, and a double outside
\* the integers' range is decided before the conversion.
IntegerLess(i, d) ==
  LET truncated == TruncDiv(d, 2)
  IN  CASE d >= 2 * IntLimit  -> TRUE
        [] d >= -2 * IntLimit -> i < truncated \/ (i = truncated /\ 2 * truncated < d)
        [] OTHER              -> FALSE

NumberLess(l, r) ==
  CASE IsNaN(l) \/ IsNaN(r)              -> ~IsNaN(l) /\ IsNaN(r)
    [] Is(l, "int") /\ Is(r, "int")      -> l.int < r.int
    [] Is(l, "dbl") /\ Is(r, "dbl")      -> l.dbl < r.dbl
    [] Is(l, "int")                      -> IntegerLess(l.int, r.dbl)
    [] OTHER -> ~ValuesEqual(l, r) /\ ~IntegerLess(r.int, l.dbl)

PointLess(p, q) ==
  IF p.srid # q.srid THEN p.srid < q.srid
  ELSE LET n == IF Len(p.at) < Len(q.at) THEN Len(p.at) ELSE Len(q.at)
           Differs(i) == NumberLess(p.at[i], q.at[i]) \/ NumberLess(q.at[i], p.at[i])
       IN  IF \E i \in 1 .. n : Differs(i)
           THEN LET i == CHOOSE j \in 1 .. n : Differs(j) /\ \A k \in 1 .. j - 1 : ~Differs(k)
                IN  NumberLess(p.at[i], q.at[i])
           ELSE Len(p.at) < Len(q.at)

\* Texts, as a stream prints them: numbers first.
Digits(n, width) == [i \in 1 .. width |-> 48 + ((n \div 10^(width - i)) % 10)]
Width(n) == CHOOSE w \in 1 .. 10 : n < 10^w /\ (w = 1 \/ n >= 10^(w - 1))
Decimal(n) == IF n < 0 THEN <<45>> \o Digits(-n, Width(-n)) ELSE Digits(n, Width(n))
WithoutZeros(s) == SubSeq(s, 1, CHOOSE i \in 0 .. Len(s) : /\ i = 0 \/ s[i] # 48
                                                          /\ \A j \in i + 1 .. Len(s) : s[j] = 48)
\* A stream prints a double with Precision significant digits, a tie going to
\* the even one, zeros at the end of a fraction left out; with more digits
\* before the point than Precision it prints an exponent.
RoundedTo(halves, unit) ==
  LET n == halves \div (2 * unit)
      rest == halves % (2 * unit)
  IN  IF rest > unit \/ (rest = unit /\ n % 2 = 1) THEN n + 1 ELSE n
PrintedDouble(halves) ==
  LET width == Width(halves \div 2)
      unit  == IF width > Precision THEN 10^(width - Precision) ELSE 1
      n     == RoundedTo(halves, unit)
      large == width > Precision \/ (width = Precision /\ n = 10^Precision)
      exponent == IF n = 10^Precision THEN width ELSE width - 1
      digits == Decimal(n)
      fraction == WithoutZeros(Tail(digits))
  IN  IF large THEN <<digits[1]>> \o (IF fraction = <<>> THEN <<>> ELSE <<46>> \o fraction) \o <<101, 43>> \o Digits(exponent, 2)
      ELSE IF width = Precision THEN digits
      ELSE Decimal(halves \div 2) \o (IF halves % 2 = 0 THEN <<>> ELSE <<46, 53>>)

\* Items between brackets, or keys and items between braces.
Separated(ts) ==
  LET T[i \in 0 .. Len(ts)] == IF i = 0 THEN <<>> ELSE T[i - 1] \o (IF i = 1 THEN <<>> ELSE <<44, 32>>) \o ts[i]
  IN  T[Len(ts)]
KeysInOrder(m) == [i \in 1 .. Cardinality(DOMAIN m) |-> CHOOSE k \in DOMAIN m : Cardinality({j \in DOMAIN m : j < k}) = i - 1]
\* A node or relationship by its id; the rest of its text depends on the id.
AppendEntities(ids) == <<91>> \o Separated([i \in DOMAIN ids |-> Decimal(ids[i]) \o <<44>>]) \o <<93>>
AppendPath(p) == AppendEntities(p.nodes) \o AppendEntities(p.rels)

RECURSIVE AppendValue(_)
AppendValueList(s) == <<91>> \o Separated([i \in DOMAIN s |-> AppendValue(s[i])]) \o <<93>>
AppendValueMap(m) ==
  LET ks == KeysInOrder(m)
  IN  <<123>> \o Separated([i \in DOMAIN ks |-> <<96 + ks[i], 58, 32>> \o AppendValue(m[ks[i]])]) \o <<125>>
AppendValue(v) ==
  CASE Is(v, "null") -> <<110, 117, 108, 108>>
    [] Is(v, "bool") -> IF v.bool THEN <<116, 114, 117, 101>> ELSE <<102, 97, 108, 115, 101>>
    [] Is(v, "int")  -> Decimal(v.int)
    [] IsNaN(v)      -> <<110, 97, 110>>
    [] Is(v, "dbl")  -> (IF v.dbl < 0 THEN <<45>> ELSE <<>>)
                          \o (IF IsFinite(v) THEN PrintedDouble(IF v.dbl < 0 THEN -v.dbl ELSE v.dbl) ELSE <<105, 110, 102>>)
    [] Is(v, "str")  -> <<34>> \o v.str \o <<34>>
    [] Is(v, "list") -> AppendValueList(v.list)
    [] Is(v, "map")  -> AppendValueMap(v.map)
    [] Is(v, "path") -> AppendPath(v.path)
    [] Is(v, "node") -> <<78>> \o Decimal(v.node) \o <<44>>
    [] Is(v, "rel")  -> <<82>> \o Decimal(v.rel) \o <<44>>

RECURSIVE ValueLess(_, _)
ListLess(l, r) ==
  LET n == IF Len(l) < Len(r) THEN Len(l) ELSE Len(r)
      Decides(i) == /\ ~ValuesEqual(l[i], r[i])
                    /\ ValueLess(l[i], r[i]) \/ ValueLess(r[i], l[i])
  IN  IF \E i \in 1 .. n : Decides(i)
      THEN LET i == CHOOSE j \in 1 .. n : Decides(j) /\ \A k \in 1 .. j - 1 : ~Decides(k)
           IN  ValueLess(l[i], r[i])
      ELSE Len(l) < Len(r)

DurationLess(l, r) ==
  LET m == EstimatedDurationNanoseconds(l)
      n == EstimatedDurationNanoseconds(r)
  IN  m < n \/ (m = n /\ LexLess(l, r))

ValueLess(l, r) ==
  CASE Is(l, "null") \/ Is(r, "null")  -> ~Is(l, "null") /\ Is(r, "null")
    [] ~(Is(l, "null") \/ Is(r, "null")) /\ IsNumber(l) /\ IsNumber(r) -> NumberLess(l, r)
    [] OTHER ->
       IF Type(l) # Type(r) THEN ValueOrderRank[Type(l)] < ValueOrderRank[Type(r)]
       ELSE CASE Is(l, "str")   -> LexLess(l.str, r.str)
              [] Is(l, "bool")  -> ~l.bool /\ r.bool
              [] Is(l, "node")  -> l.node < r.node
              [] Is(l, "rel")   -> l.rel < r.rel
              [] Is(l, "list")  -> ListLess(l.list, r.list)
              [] Is(l, "date")  -> LexLess(l.date, r.date)
              [] Is(l, "ltime") -> LexLess(l.ltime, r.ltime)
              [] Is(l, "time")  -> TimeKey(l.time) < TimeKey(r.time)
              [] Is(l, "ldt")   -> LexLess(l.ldt, r.ldt)
              [] Is(l, "dt")    -> LexLess(DateTimeKey(l.dt), DateTimeKey(r.dt))
              [] Is(l, "dur")   -> DurationLess(l.dur, r.dur)
              [] Is(l, "point") -> PointLess(l.point, r.point)
              [] Type(l) \in {"map", "path"} -> LexLess(AppendValue(l), AppendValue(r))
=============================================================================
