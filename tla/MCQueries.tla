----------------------------- MODULE MCQueries -----------------------------
(***************************************************************************)
(* Statements compiled in every way the planner can choose and executed on *)
(* a small graph, against what they mean; and, instead of a statement, the *)
(* cases of what expressions compute.                                      *)
(***************************************************************************)
EXTENDS CypherReference

(***************************************************************************)
(* Bounded inputs for Values, Temporal and Durations.  A state is one      *)
(* case: a kind and the inputs of that kind.                               *)
(***************************************************************************)
VARIABLE case

Start == [kind |-> "start"]

\* Integers at the limits, doubles around them and beyond, strings that are
\* prefixes of each other, nested lists, maps whose numbers are printed with
\* all their digits or not, paths, and times equal as instants.
Dbl(h) == [dbl |-> h]
Map_(v) == [map |-> [k \in {1} |-> v]]
Universe ==
  {Null, NaN, Bool(FALSE), Bool(TRUE)}
  \cup {Int_(i) : i \in {-IntLimit, -1, 0, 1, IntLimit - 1}}
  \cup {Dbl(h) : h \in {-2 * IntLimit - 2, -2 * IntLimit, -1, 0, 1, 2, 3, 2 * IntLimit - 2, 2 * IntLimit}}
  \cup {Str(<<>>), Str(<<97>>), Str(<<97, 98>>), Str(<<98>>)}
  \cup {List(<<>>), List(<<Int_(1)>>), List(<<Dbl(2)>>), List(<<Null>>), List(<<NaN>>), List(<<Dbl(1)>>),
        List(<<Int_(1), Null>>), List(<<NaN, Int_(0)>>), List(<<Null, Int_(0)>>), List(<<List(<<>>)>>)}
  \cup {[map |-> <<>>], [map |-> [k \in {2} |-> Int_(1)]]}
  \cup {Map_(v) : v \in {Int_(1), Dbl(2), Dbl(3), Int_(IntLimit - 1), Dbl(2 * IntLimit - 2), Dbl(2 * IntLimit - 1)}}
  \cup {List(<<Map_(Dbl(2 * IntLimit - 2)), Int_(2)>>), List(<<Map_(Dbl(3)), Int_(0)>>), List(<<Map_(Int_(IntLimit - 1)), Int_(1)>>)}
  \cup {Path(<<1>>, <<>>), Path(<<2, 10>>, <<1>>), Path(<<2, 2>>, <<2>>), Path(<<10>>, <<>>)}
  \cup {[node |-> 1], [node |-> 2], [rel |-> 1]}
  \cup {[date |-> <<2020, 2, 29>>], [date |-> <<-1, 1, 1>>], [ltime |-> <<1, 0, 0, 0>>], [ldt |-> <<2020, 2, 29, 1, 0, 0, 0>>]}
  \cup {[time |-> [local |-> <<1, 0, 0, 0>>, off |-> 0]], [time |-> [local |-> <<2, 0, 0, 0>>, off |-> 3600]],
        [dt |-> [date |-> <<2020, 2, 29>>, local |-> <<1, 0, 0, 0>>, off |-> 0, zone |-> NoZone]],
        [dt |-> [date |-> <<2020, 3, 1>>, local |-> <<0, 0, 0, 0>>, off |-> 82800, zone |-> NoZone]]}
  \cup {[dur |-> <<1, 0, 0, 0>>], [dur |-> <<0, 30, 37746, 0>>], [dur |-> <<0, 30, 37746, 1>>]}
  \cup {[point |-> [srid |-> 1, at |-> <<Dbl(2), NaN>>]], [point |-> [srid |-> 1, at |-> <<Dbl(2), Dbl(0)>>]],
        [point |-> [srid |-> 2, at |-> <<Dbl(0), Dbl(0)>>]]}

\* Days around the ends of the 400-year eras and around leap days.
DayNumbers == UNION {(c - 370) .. (c + 370) : c \in {-719468 - 146097, -719468, 11016, 47541}}

\* The first and the last days among them.
Dates == {<<MinimumYear, 1, 1>>, <<MinimumYear, 3, 1>>, <<MaximumYear, 2, 29>>, <<MaximumYear, 12, 31>>, <<2019, 12, 30>>, <<2019, 12, 31>>, <<2020, 1, 31>>, <<2020, 2, 28>>, <<2020, 2, 29>>,
          <<2020, 3, 1>>, <<2020, 3, 31>>, <<2021, 1, 1>>, <<2021, 1, 3>>, <<2021, 2, 28>>}
Times == {<<0, 0, 0, 0>>, <<12, 30, 15, 3>>, <<23, 59, 59, 7>>}
DateTimeValues == {LocalDateTimeValue(d, t) : d \in Dates, t \in Times}
Offsets == {-64800, -1800, 0, 1, 5 * 3600}
ZonedValues == {DateTimeValue(d, t, off, NoZone) : d \in {<<2019, 12, 31>>, <<2020, 1, 31>>, <<2020, 3, 1>>}, t \in Times, off \in Offsets}

DurationCases == {<<m, d, s, n>> : m \in {-25, -12, -1, 0, 1, 12, 13}, d \in {-8, 0, 1},
                                   s \in {-3661, -3600, -61, -1, 0, 1, 60, 3661}, n \in {0, 1, NanosPerSecond - 1}}
\* The longest durations of which the nanoseconds can be counted, and sums of them.
LongDurations ==
  LET most == DurationLimit \div NanosPerSecond
  IN  {<<0, d, s, n>> : d \in {0, 1}, s \in {-most, -most + 1, most - 1}, n \in {0, NanosPerSecond - 1}}
Sums == {v.dur : v \in {AddDurations(l, r, sign) : l, r \in LongDurations, sign \in {-1, 1}} \ {Invalid}}

ZoneDates == {<<1878, 12, 31>>, <<1879, 1, 1>>, <<1970, 1, 1>>, <<1970, 1, 2>>, <<1970, 1, 3>>,
              <<-32768, 1, 1>>, <<32767, 12, 31>>, <<32768, 1, 1>>}
ZoneTimes == {<<h, m, 0, 0>> : h \in {0, 1, 2, 3, 23}, m \in {0, 30}}
ZoneNames == DOMAIN Zones

Compare == \E a, b \in Universe : case' = [kind |-> "compare", a |-> a, b |-> b]
CountDay == \E n \in DayNumbers : case' = [kind |-> "day", n |-> n]
Between ==
  \E vs \in {{DateValue(d) : d \in Dates}, DateTimeValues, ZonedValues} :
     \E l, r \in vs : case' = [kind |-> "between", l |-> l, r |-> r]
Truncating ==
  \E u \in DateUnits, n \in DayNumbers : case' = [kind |-> "truncate", unit |-> u, n |-> n]
Printing == \E d \in DurationCases \cup LongDurations \cup Sums : case' = [kind |-> "duration", d |-> d]
Zoning ==
  \E z \in ZoneNames, w \in ZoneNames, d \in ZoneDates, t \in ZoneTimes :
     case' = [kind |-> "zone", from |-> z, to |-> w, d |-> d, t |-> t]

Case == case = Start /\ (Compare \/ CountDay \/ Between \/ Truncating \/ Printing \/ Zoning)

-----------------------------------------------------------------------------
Incomparable(a, b) == ~ValueLess(a, b) /\ ~ValueLess(b, a)

\* Maps are ordered by their texts, in which a double has only Precision
\* digits: a double that is printed otherwise than the integer it equals, in a
\* map, also one in a list.  (Negative zero is another.)
RECURSIVE Misprinted(_)
Misprinted(v) ==
  CASE Is(v, "dbl")  -> ~IsNaN(v) /\ DoubleAsInteger(v) /\ AppendValue(v) # Decimal(v.dbl \div 2)
    [] Is(v, "list") -> \E i \in DOMAIN v.list : Misprinted(v.list[i])
    [] Is(v, "map")  -> \E k \in DOMAIN v.map : Misprinted(v.map[k])
    [] OTHER         -> FALSE
RECURSIVE MapMisprinted(_)
MapMisprinted(v) ==
  IF Is(v, "list") THEN \E i \in DOMAIN v.list : MapMisprinted(v.list[i]) ELSE Is(v, "map") /\ Misprinted(v)

\* The comparison that std::sort, the top-n heap and the ordered indexes use
\* is a strict weak order over values of all types, numbers at the limit of
\* the integers, NaN, null, paths, maps and nested lists included; without
\* that, sorting rows is undefined behaviour.  Excepted are lists with a map
\* in which a double is misprinted: a list goes past maps that are equal, and
\* a third map may come between their texts.
SortOrder(k) ==
  k.kind = "compare" =>
    /\ ~ValueLess(k.a, k.a)
    /\ ~(ValueLess(k.a, k.b) /\ ValueLess(k.b, k.a))
    /\ \A c \in {c \in Universe : \A v \in {k.a, k.b, c} : Is(v, "list") => ~MapMisprinted(v)} :
         /\ ValueLess(k.a, k.b) /\ ValueLess(k.b, c) => ValueLess(k.a, c)
         /\ Incomparable(k.a, k.b) /\ Incomparable(k.b, c) => Incomparable(k.a, c)

\* DISTINCT, grouping and hash joins look a value up by ValueHash and compare
\* with ValueEqual: equality is an equivalence, equal values hash alike, and
\* values that '=' calls equal fall into one group, and sort together unless
\* they hold a map in which a double is misprinted.
GroupingEquality(k) ==
  k.kind = "compare" =>
    /\ ValueEqual(k.a, k.a)
    /\ ValueEqual(k.a, k.b) => ValueEqual(k.b, k.a) /\ ValueHash(k.a) = ValueHash(k.b)
    /\ ValuesEqual(k.a, k.b) => /\ ValueEqual(k.a, k.b)
                                /\ MapMisprinted(k.a) \/ MapMisprinted(k.b) \/ Incomparable(k.a, k.b)
    /\ \A c \in Universe : ValueEqual(k.a, k.b) /\ ValueEqual(k.b, c) => ValueEqual(k.a, c)

\* What sorting, DISTINCT, grouping and hash joins require of values.
ValuesOrdered == [][SortOrder(case') /\ GroupingEquality(case')]_case

\* The day after d, by the lengths of the months.
NextDay(d) ==
  IF d[3] < DaysInMonth(d[1], d[2]) THEN <<d[1], d[2], d[3] + 1>>
  ELSE IF d[2] < 12 THEN <<d[1], d[2] + 1, 1>> ELSE <<d[1] + 1, 1, 1>>

\* Day numbers and calendar dates convert into each other through the ends of
\* the eras and before year 1, days follow one another as the calendar says,
\* and a date is found again from its ISO week, ordinal day and quarter.
Calendar(k) ==
  k.kind = "day" =>
    LET d   == FromSysDays(k.n)
        iso == IsoWeekComponents(d)
    IN  /\ ValidateDate(d)
        /\ DaysFromCivil(d) = k.n
        /\ FromSysDays(k.n + 1) = NextDay(d)
        /\ DateFromIsoWeek(iso.year, iso.week, iso.weekday) = d
        /\ DateFromOrdinal(d[1], OrdinalDay(d)) = d
        /\ DateFromQuarter(d[1], Quarter(d), DayOfQuarter(d)) = d

Signum(n) == IF n < 0 THEN -1 ELSE IF n > 0 THEN 1 ELSE 0

\* duration.between(l, r), added to l, gives r (as an instant when there are
\* offsets), and between values of the same offset its months, days and
\* seconds all go in the direction from l to r, across month ends, leap days
\* and borrowed seconds.  (With different offsets the local months may
\* overshoot, and the rest then points back.)
BetweenAddsUp(k) ==
  k.kind = "between" =>
    LET dur == DurationBetween(k.l, k.r).dur
        sum == AddDurationToTemporal(k.l, dur, 1)
        way == IF ValueLess(k.l, k.r) THEN 1 ELSE IF ValueLess(k.r, k.l) THEN -1 ELSE 0
        time == DurationNanoseconds(dur)
    IN  /\ IF Is(k.l, "dt") THEN DateTimeKey(sum.dt) = DateTimeKey(k.r.dt) ELSE sum = k.r
        /\ Operand(k.l).off = Operand(k.r).off =>
             \A n \in {dur[1], dur[2], time} : Signum(n) \in {0, way}
        /\ time < NanosPerDay /\ time > -NanosPerDay

\* Truncation to a unit is a floor: never later than the date, a boundary is
\* its own floor, and the next day either keeps the floor or is a boundary.
\* Only a floor in year 0 is refused, since a year of 0 counts as missing.
TruncationFloors(k) ==
  k.kind = "truncate" =>
    LET FloorOf(n) == Truncate("date", k.unit, DateValue(FromSysDays(n)), <<>>)
        f == FloorOf(k.n)
    IN  IF f = Invalid THEN TruncateDateValue(k.unit, FromSysDays(k.n))[1] = 0
        ELSE LET n == DaysFromCivil(f.date)
                 g == FloorOf(k.n + 1)
             IN  /\ n <= k.n
                 /\ FloorOf(n) = f
                 /\ g # Invalid => DaysFromCivil(g.date) \in {n, k.n + 1}

\* A duration printed and parsed again is the same duration, for every mix of
\* signs of its parts, if its nanoseconds are in range; a longer one, which a
\* sum can be, is refused by the parser.  Twice a duration is the duration
\* added to itself, or refused as well if it is that long.  (The seconds are
\* exact here; a long double rounds them from about 2^33 seconds on.)
DurationText(k) ==
  k.kind = "duration" =>
    /\ ParseDuration(FormatDuration(k.d)) = IF WideInRange(DurationNanoseconds(k.d)) THEN [dur |-> k.d] ELSE Invalid
    /\ ScaleDuration(k.d, Dbl(4)) = IF WideInRange(2 * DurationNanoseconds(k.d)) THEN AddDurations(k.d, k.d, 1) ELSE Invalid

\* Converting a date-time to another zone keeps the instant, across the days
\* on which either zone changes its offset, and the new offset prints as it
\* parses; in years that std::chrono::year can hold.
ConversionKeepsInstant(k) ==
  k.kind = "zone" =>
    LET off == ZoneOffset(k.from, k.d, k.t)
        source == DateTimeValue(k.d, k.t, off, [zone |-> k.from])
    IN  off # Bad /\ ChronoYear(k.d[1]) = k.d[1] =>
          LET v == ConstructDateTime(<<[map |-> [datetime |-> source, timezone |-> [str |-> [zone |-> k.to]]]]>>, <<0, 0>>)
          IN  /\ v # Invalid
              /\ DateTimeKey(v.dt) = DateTimeKey(source.dt)
              /\ ParseOffset(FormatOffset(v.dt.off)) = v.dt.off
              /\ v.dt.off \in {Zones[k.to][i].off : i \in DOMAIN Zones[k.to]}

\* Calendar, differences, truncation, texts and zones of temporal values agree
\* with one another.
TemporalConsistent ==
  [][/\ Calendar(case') /\ BetweenAddsUp(case') /\ TruncationFloors(case')
     /\ DurationText(case') /\ ConversionKeepsInstant(case')]_case

-----------------------------------------------------------------------------
(* One zone goes back an hour at the end of day 0, one goes forward, one   *)
(* has the local time of the database before 1879.                         *)
Periods(before, from, after) == <<[from |-> <<-100000, 0>>, off |-> before], [from |-> from, off |-> after]>>
MCZones ==
  [z \in {"back", "forward", "fixed", "Europe/Stockholm"} |->
     CASE z = "back"    -> Periods(7200, <<0, 82800>>, 3600)
       [] z = "forward" -> Periods(-3600, <<1, 3600>>, 0)
       [] z = "fixed"   -> Periods(0, <<0, 0>>, 0)
       [] OTHER         -> Periods(4332, <<DaysFromCivil(<<1879, 1, 1>>), 0>>, 3600)]

-----------------------------------------------------------------------------
(* Statements.                                                             *)

VARIABLES
  statement,    \* the statement, as an index into MCStatements; 0: cases of values
  database,     \* where it runs: "graph" or "system"
  asked         \* whether it has been asked
vars == <<statement, database, asked>>

-----------------------------------------------------------------------------
(* Statements as the parser delivers them.                                 *)

I(n) == Literal(Int_(n))
Prop(v, k) == [e |-> "prop", k |-> k, a |-> <<Var(v)>>]
Cmp(op, l, r) == [e |-> "cmp", op |-> op, a |-> <<l, r>>]
Arith(op, l, r) == [e |-> "arith", op |-> op, a |-> <<l, r>>]
Call(f, xs) == [e |-> "call", f |-> f, distinct |-> FALSE, a |-> xs]
Distinct(x) == [x EXCEPT !.distinct = TRUE]
Bin(kind, l, r) == [e |-> kind, a |-> <<l, r>>]
ListOf(xs) == [e |-> "list", a |-> xs]
Param(n) == [e |-> "param", n |-> n, a |-> <<>>]
Map1(k, x) == [e |-> "map", ks |-> <<k>>, a |-> <<x>>]

N(v) == [var |-> v, labels |-> {}, props |-> None]
NL(v, ls) == [N(v) EXCEPT !.labels = ls]
NP(v, k, x) == [N(v) EXCEPT !.props = Map1(k, x)]
R(v, types, dir) == [var |-> v, types |-> types, dir |-> dir, range |-> <<>>, props |-> None]
RV(v, types, dir, range) == [R(v, types, dir) EXCEPT !.range = range]
Part(nodes, rels) == [path |-> "", nodes |-> nodes, rels |-> rels, shortest |-> "none"]
Hop(n, r, m) == Part(<<n, m>>, <<r>>)
Alone(n) == Part(<<n>>, <<>>)
Match(parts, where) == [c |-> "match", pattern |-> parts, where |-> where, optional |-> FALSE]
Optional(parts, where) == [Match(parts, where) EXCEPT !.optional = TRUE]
Unwinding(x, v) == [c |-> "unwind", x |-> x, var |-> v]
Create(parts) == [c |-> "create", pattern |-> parts]
Merge(part, actions) == [c |-> "merge", part |-> part, actions |-> actions]
Sets(items) == [c |-> "set", sets |-> items]
SetP(v, k, x) == [op |-> "SetProperty", entity |-> Var(v), k |-> k, x |-> x]
SetL(v, ls) == [op |-> "SetLabels", entity |-> Var(v), labels |-> ls]
Deletes(xs, detach) == [c |-> "delete", xs |-> xs, detach |-> detach]
Exists_(id, part, where) == [e |-> "exists", id |-> id, pattern |-> <<part>>, query |-> <<>>, all |-> <<>>, a |-> <<where>>]
ExistsQuery(id, parts) == [e |-> "exists", id |-> id, pattern |-> <<>>, query |-> <<parts>>, all |-> <<>>, a |-> <<None>>]
PatternPred(id, part) == [e |-> "patternpred", id |-> id, part |-> part, a |-> <<>>]
Comprehension(id, part, where, x) == [e |-> "pattern", id |-> id, part |-> part, a |-> <<where, x>>]

It(alias, x) == [alias |-> alias, x |-> x]
Return(items) == MakeProjection(items)
Star == [MakeProjection(<<>>) EXCEPT !.star = TRUE]
By(x, asc) == [x |-> x, asc |-> asc]
Ordered(proj, order) == [proj EXCEPT !.order = order]
Only(proj, skip, limit) == [proj EXCEPT !.skip = skip, !.limit = limit]
Where(proj, x) == [proj EXCEPT !.where = x]
Unique(proj) == [proj EXCEPT !.distinct = TRUE]
Single(parts) == [singles |-> <<parts>>, all |-> <<>>]
Reads(clauses, proj) == MakePart(clauses, <<>>, proj)
Simple(clauses, proj) == Single(<<Reads(clauses, proj)>>)

-----------------------------------------------------------------------------
MCNames == <<"A", "B", "C", "D", "K", "L", "M", "p", "q">>
MCNameText == [n \in RangeOfSeq(MCNames) |-> <<CHOOSE i \in DOMAIN MCNames : MCNames[i] = n>>]
Nothing == [k \in {} |-> Null]
P1(n) == [k \in {"p"} |-> Int_(n)]
Edge(src, dst, type, props) == [src |-> src, dst |-> dst, type |-> type, props |-> props]
Text(i) == Str(<<i>>)
MCNodeInfo ==
  [ip |-> Text(1), bolt_port |-> Int_(1), raft_port |-> Int_(2), is_leader |-> True, is_learner |-> False]
MCStatus ==
  [f \in RangeOfSeq(StatusFields) |-> IF f = "raft_state" THEN Text(1) ELSE Int_(1)]
MCManagement ==
  [graphs |-> <<[id |-> Int_(1), name |-> Text(7)], [id |-> Int_(2), name |-> Text(8)]>>, nodes |-> <<MCNodeInfo, MCNodeInfo>>,
   status |-> [nodes |-> <<Override(MCNodeInfo, [node_id |-> Int_(1), reachable |-> True, match_index |-> Int_(1), next_index |-> Int_(2)])>>,
               common |-> MCStatus],
   change |-> [node_id |-> Int_(3), role |-> Text(1), raft_index |-> Int_(5)]]
\* One property index, one full-text and one vector index.
MCSession ==
  [system |-> FALSE, params |-> [p |-> Int_(1), ps |-> [list |-> <<Int_(2), Int_(1)>>]], graph |-> Text(7), raft |-> TRUE, management |-> MCManagement, indexes |-> [name \in {Text(1)} |-> <<"B", "p">>],
   searches |-> [name \in {Text(2), Text(3)} |-> <<[node |-> 2, score |-> Int_(1)], [node |-> 1, score |-> Int_(2)]>>]]
MCGraph ==
  [labels |-> <<{"A"}, {"A", "B"}, {"B"}>>, props |-> <<P1(1), P1(2), P1(1)>>,
   rels |-> <<Edge(1, 2, "K", P1(1)), Edge(2, 3, "K", Nothing), Edge(3, 1, "L", P1(1)), Edge(2, 2, "K", Nothing)>>,
   nextNode |-> 4, nextRel |-> 5, session |-> MCSession, requests |-> <<>>]

Writes_(clauses, updates, proj) == Single(<<MakePart(clauses, updates, proj)>>)
Then(parts) == Single(parts)
IdOf(v) == Call("id", <<Var(v)>>)
V(n) == It(n, Var(n))
A == NL("n", {"A"})
A_ == NL("m", {"A"})
K == R("r", {"K"}, "out")
Listed_(n, list, where, x) == [e |-> "comp", n |-> n, a |-> <<list, where, x>>]
Shortest(path, n, r, m) == [path |-> path, nodes |-> <<n, m>>, rels |-> <<r>>, shortest |-> "one"]
AllA == Match(<<Alone(A)>>, None)
All == Match(<<Alone(N("n"))>>, None)

\* Patterns, predicates and joins.
MCMatching ==
  <<Simple(<<Match(<<Hop(NP("n", "p", I(1)), K, N("m"))>>,
                   Exists_("e", Hop(N("n"), R("", {"K"}, "out"), N("x")), Cmp("=", Prop("x", "p"), I(2))))>>,
           Return(<<It("p", Prop("n", "p")), It("c", Arith("+", CountStar, I(1)))>>)),
    Simple(<<Match(<<Hop(N("n"), R("", {}, "both"), NL("m", {"B"}))>>,
                   MakeNot(PatternPred("e", Hop(N("n"), R("", {"L"}, "in"), N("")))))>>, Unique(Return(<<It("", Prop("n", "p"))>>))),
    Simple(<<Match(<<Part(<<N("n"), N(""), N("m")>>, <<K, R("", {}, "both")>>)>>, None)>>,
           Ordered(Return(<<It("p", Prop("n", "p")), It("i", IdOf("n"))>>), <<By(Prop("n", "p"), FALSE)>>)),
    Simple(<<Match(<<Hop(N("n"), RV("r", {}, "out", <<1, 2>>), N("m"))>>,
                   Bin("or", Cmp("=", Prop("n", "p"), I(2)), PatternPred("e", Hop(N("n"), R("", {"L"}, "out"), N("")))))>>,
           Only(Ordered(Unique(Return(<<It("i", IdOf("m"))>>)), <<By(Var("i"), TRUE)>>), I(1), I(1))),
    Simple(<<Match(<<Alone(N("n")), Alone(NL("m", {"B"}))>>, Cmp("=", Prop("n", "p"), Prop("m", "p")))>>, Return(<<V("n"), V("m")>>)),
    Simple(<<Match(<<Alone(A), Alone(N("m"))>>, Cmp("<", Prop("n", "p"), Prop("m", "p")))>>, Return(<<V("n"), V("m")>>)),
    Simple(<<Match(<<Hop(N("n"), K, N("n"))>>, None)>>,
           Return(<<It("c", Call("size", <<Comprehension("c", Hop(N("n"), R("", {"K"}, "out"), N("x")), None, Prop("x", "p"))>>))>>)),
    Simple(<<Match(<<Part(<<N("n"), N("m"), N("x")>>, <<R("", {}, "out"), R("", {}, "in")>>)>>, None)>>, Return(<<V("n"), V("x")>>)),
    Simple(<<Match(<<Hop(N("n"), K, N("m")), Hop(N("m"), R("", {"L"}, "out"), N("x"))>>, Cmp("<>", Prop("n", "p"), Prop("x", "p")))>>,
           Return(<<V("n"), V("x")>>)),
    Simple(<<Match(<<Hop(A, R("r", {"K"}, "both"), N("m")), Hop(N("x"), R("s", {"K"}, "both"), NL("m", {"B"}))>>, None)>>,
           Return(<<It("c", Call("count", <<Var("x")>>)), V("m")>>)),
    Simple(<<Match(<<Shortest("w", A, RV("r", {}, "both", <<1, 3>>), NL("m", {"B"}))>>, None)>>,
           Return(<<It("l", Call("length", <<Var("w")>>)), V("n"), V("m")>>)),
    Simple(<<Match(<<[Hop(N("n"), K, N("m")) EXCEPT !.path = "w"]>>, Cmp("=", IdOf("m"), I(2)))>>, Return(<<V("w")>>)),
    Simple(<<Match(<<Alone(N("n"))>>, [e |-> "in", a |-> <<IdOf("n"), ListOf(<<I(1), I(3)>>)>>])>>, Return(<<V("n")>>)),
    Simple(<<Match(<<Alone(A)>>, [e |-> "chain", ops |-> <<"<", "<=">>, a |-> <<I(0), Prop("n", "p"), I(1)>>])>>, Return(<<V("n")>>)),
    Simple(<<Match(<<Hop(N("n"), K, N("m"))>>, MakeAnd(Cmp("=", IdOf("r"), I(2)), Cmp("=", Prop("m", "p"), I(1))))>>, Return(<<V("n"), V("m")>>)),
    Simple(<<Match(<<Hop(N(""), K, N("m"))>>, Cmp("=", Prop("r", "p"), I(1)))>>, Return(<<V("r"), V("m")>>)),
    Simple(<<Match(<<Hop(A, RV("", {"K"}, "out", <<0, 2>>), N("m"))>>, None)>>, Unique(Return(<<V("m")>>))),
    Simple(<<Match(<<Alone(N("n"))>>,
                   MakeQuantifier("any", "x", ListOf(<<I(2), I(3)>>), Cmp("=", Var("x"), Prop("n", "p"))))>>, Return(<<V("n")>>)),
    Simple(<<Match(<<Shortest("w", NL("n", {"B"}), RV("r", {"K"}, "out", <<1, 2>>), A_)>>, None)>>, Return(<<V("w"), V("n"), V("m")>>)),
    Simple(<<Match(<<[Shortest("w", A, RV("r", {"K"}, "out", <<2, 2>>), N("m")) EXCEPT !.shortest = "all"]>>, None)>>, Return(<<V("w")>>)),
    Simple(<<Match(<<Alone(NL("n", {"A", "B"}))>>, Cmp("=", Prop("n", "p"), I(1)))>>, Return(<<V("n")>>)),
    Simple(<<Match(<<Alone(A)>>, Cmp(">", I(2), Prop("n", "p")))>>, Return(<<V("n")>>)),
    Simple(<<Match(<<Hop(N("n"), RV("", {"L"}, "both", <<1, 2>>), N("m"))>>, None)>>, Unique(Return(<<V("n"), V("m")>>))),
    Simple(<<Match(<<Hop(N("n"), RV("", {}, "out", <<1, 3>>), N("m"))>>, None)>>, Unique(Return(<<V("n"), V("m")>>)))>>

\* OPTIONAL MATCH, UNWIND, WITH, UNION and subqueries.
MCChaining ==
  <<Simple(<<All, Optional(<<Hop(N("n"), R("r", {"L"}, "out"), N("m"))>>, None)>>, Return(<<V("n"), V("m")>>)),
    Simple(<<AllA, Optional(<<Part(<<N("n"), N("m"), N("x")>>, <<K, R("", {"L"}, "out")>>)>>, None)>>, Return(<<V("n"), V("x")>>)),
    Simple(<<All, Optional(<<Alone(NL("m", {"B"}))>>, Cmp("<", Prop("m", "p"), Prop("n", "p")))>>, Return(<<V("n"), V("m")>>)),
    Simple(<<AllA, Optional(<<Hop(N("n"), K, N("m"))>>, None), Optional(<<Hop(N("m"), R("", {"L"}, "out"), N("x"))>>, None)>>,
           Return(<<V("n"), V("m"), V("x")>>)),
    Simple(<<Unwinding(ListOf(<<I(1), I(2), I(2)>>), "x"), Match(<<Alone(NP("n", "p", Var("x")))>>, None)>>,
           Return(<<V("x"), It("c", Call("count", <<Var("n")>>))>>)),
    Then(<<Reads(<<Unwinding(ListOf(<<I(3), I(1), I(2)>>), "x")>>, Only(Ordered(Return(<<V("x")>>), <<By(Var("x"), FALSE)>>), None, I(2))),
           Reads(<<>>, Return(<<It("s", Call("sum", <<Var("x")>>)), It("l", Call("min", <<Var("x")>>))>>))>>),
    Then(<<Reads(<<All>>, Where(Return(<<It("p", Prop("n", "p")), It("c", CountStar)>>), Cmp(">", Var("c"), I(1)))),
           Reads(<<Match(<<Alone(NP("m", "p", Var("p")))>>, None)>>, Return(<<V("p"), V("c"), It("i", IdOf("m"))>>))>>),
    Then(<<Reads(<<All>>, Ordered(Return(<<V("n"), It("p", Prop("n", "p"))>>), <<By(Var("p"), TRUE)>>)),
           Reads(<<Match(<<Hop(N("n"), K, N("m"))>>, None)>>,
                 Ordered(Return(<<V("p"), It("q", Prop("m", "p"))>>), <<By(Var("p"), TRUE), By(Var("q"), FALSE)>>))>>),
    Then(<<Reads(<<All>>, Ordered(Return(<<It("p", Prop("n", "p"))>>), <<By(Var("p"), TRUE)>>)),
           Reads(<<>>, Return(<<V("p"), It("c", CountStar)>>))>>),
    Then(<<Reads(<<All>>, Ordered(Return(<<It("p", Prop("n", "p"))>>), <<By(Var("p"), FALSE)>>)),
           Reads(<<>>, Ordered(Unique(Return(<<It("q", Var("p"))>>)), <<By(Var("q"), TRUE)>>))>>),
    Then(<<Reads(<<All>>, Ordered(Return(<<V("n"), It("p", Prop("n", "p")), It("i", IdOf("n"))>>), <<By(Var("p"), TRUE)>>)),
           Reads(<<>>, Only(Ordered(Return(<<V("p"), V("i")>>), <<By(Var("p"), TRUE), By(Var("i"), FALSE)>>), None, I(2)))>>),
    Then(<<Reads(<<AllA>>, [Star EXCEPT !.items = <<It("q", Prop("n", "p"))>>]), Reads(<<>>, Star)>>),
    Then(<<Reads(<<AllA>>, Where(Return(<<V("n")>>), Cmp("=", Prop("n", "p"), I(2)))),
           Reads(<<Match(<<Hop(N("n"), K, N("m"))>>, None)>>, Return(<<V("m")>>))>>),
    Simple(<<Match(<<Alone(N("n"))>>,
                   ExistsQuery("e", <<Reads(<<Match(<<Hop(N("n"), R("", {"K"}, "out"), N("x"))>>, None)>>,
                                            Where(Return(<<V("x")>>), Cmp("<", Prop("x", "p"), Prop("n", "p")))),
                                      Reads(<<>>, Return(<<V("x")>>))>>))>>, Return(<<V("n")>>)),
    [singles |-> <<<<Reads(<<AllA>>, Return(<<It("x", Prop("n", "p"))>>))>>,
                   <<Reads(<<Match(<<Alone(NL("n", {"B"}))>>, None)>>, Return(<<It("x", Prop("n", "p"))>>))>>>>, all |-> <<FALSE>>],
    [singles |-> <<<<Reads(<<AllA>>, Return(<<It("x", Prop("n", "p"))>>))>>,
                   <<Reads(<<Match(<<Alone(NL("n", {"B"}))>>, None)>>, Return(<<It("x", Prop("n", "p"))>>))>>>>, all |-> <<TRUE>>],
    Simple(<<All>>, Return(<<It("c", Call("count", <<Prop("n", "q")>>)), It("d", Distinct(Call("count", <<Prop("n", "p")>>))),
                             It("s", Arith("-", Call("max", <<Prop("n", "p")>>), Call("sum", <<Prop("n", "p")>>)))>>)),
    Simple(<<AllA>>, Return(<<V("n"), It("e", Exists_("e", Hop(N("n"), R("", {}, "out"), NL("", {"A"})), None)),
                              It("s", Call("size", <<Comprehension("c", Hop(N("n"), R("", {}, "both"), N("x")),
                                                                    Cmp("=", Prop("x", "p"), I(1)), Var("x"))>>))>>)),
    Then(<<Reads(<<All>>, Ordered(Return(<<V("n"), It("x", Prop("n", "p"))>>), <<By(Var("x"), TRUE)>>)),
           Reads(<<>>, Return(<<It("i", IdOf("n"))>>)),
           Reads(<<>>, Ordered(Return(<<It("x", Arith("-", I(0), Var("i")))>>), <<By(Var("x"), TRUE)>>))>>),
    Then(<<Reads(<<Unwinding(ListOf(<<I(1), I(2), I(1)>>), "x")>>, Ordered(Return(<<V("x"), It("a", I(1))>>), <<By(Var("a"), TRUE)>>)),
           Reads(<<>>, Return(<<It("b", Var("a")), It("y", Var("x")), It("c", CountStar)>>))>>),
    Then(<<Reads(<<Unwinding(ListOf(<<I(1), I(2), I(1)>>), "x")>>, Ordered(Return(<<V("x"), It("a", I(1))>>), <<By(Var("a"), TRUE)>>)),
           Reads(<<>>, Unique(Return(<<It("b", Var("a")), It("y", Var("x"))>>)))>>),
    Simple(<<AllA>>,
           Return(<<V("n"), It("l", Listed_("x", ListOf(<<I(1), I(2)>>), Exists_("e", Hop(N("n"), R("", {"K"}, "out"), NP("", "p", Var("x"))), None), Var("x")))>>)),
    Simple(<<All, Optional(<<Hop(N("n"), R("r", {"L"}, "out"), N("m"))>>, None),
             Optional(<<Part(<<N("m"), N("y"), N("z")>>, <<R("", {"K"}, "out"), R("", {"K"}, "out")>>)>>, Cmp("<", Prop("n", "p"), I(2)))>>,
           Return(<<V("n"), V("m"), V("z")>>)),
    Simple(<<Unwinding(ListOf(<<I(1), I(5)>>), "x"), Optional(<<Alone(NP("m", "p", Var("x")))>>, None)>>, Return(<<V("x"), V("m")>>))>>

\* Updates.
OnCreate(sets) == [onMatch |-> FALSE, sets |-> sets]
OnMatch(sets) == [onMatch |-> TRUE, sets |-> sets]
SetAll(v, x, keep) == [op |-> "SetProperties", entity |-> Var(v), x |-> x, keep |-> keep]
Removes(items) == [c |-> "remove", sets |-> items]
NLP(v, ls, k, x) == [NL(v, ls) EXCEPT !.props = Map1(k, x)]
Count(v) == Return(<<It("c", Call("count", <<Var(v)>>))>>)
MCUpdating ==
  <<Writes_(<<>>, <<Create(<<Hop(NLP("n", {"C"}, "p", I(1)), R("r", {"K"}, "in"), NP("m", "p", Arith("+", I(1), I(1))))>>)>>,
            Return(<<It("p", Prop("n", "p")), It("q", Prop("m", "p"))>>)),
    Writes_(<<AllA>>, <<Create(<<Hop(N("n"), R("", {"M"}, "out"), NP("m", "p", Prop("n", "p")))>>)>>, NoProjection),
    Writes_(<<All>>, <<Create(<<Alone(NL("m", {"A"}))>>)>>, Count("m")),
    Writes_(<<AllA>>, <<Sets(<<SetP("n", "p", Arith("+", Prop("n", "p"), I(1))), SetP("n", "q", Prop("n", "p"))>>)>>,
            Ordered(Return(<<It("q", Prop("n", "q")), It("i", IdOf("n"))>>), <<By(Var("q"), FALSE)>>)),
    Writes_(<<Match(<<Alone(N("n")), Alone(NL("m", {"B"}))>>, Cmp("=", Prop("n", "p"), Prop("m", "p")))>>,
            <<Sets(<<SetP("m", "p", I(2))>>)>>, Count("n")),
    Then(<<MakePart(<<All>>, <<Sets(<<SetP("n", "p", I(5))>>)>>, Count("n")),
           Reads(<<Match(<<Alone(NP("m", "p", I(5)))>>, None)>>, Return(<<V("c"), V("m")>>))>>),
    Writes_(<<AllA>>, <<Sets(<<SetP("n", "q", Exists_("e", Hop(N("n"), R("", {"K"}, "out"), NL("", {"B"})), None)), SetL("n", {"D"})>>)>>,
            Return(<<It("q", Prop("n", "q"))>>)),
    Writes_(<<Match(<<Hop(N("n"), K, N("m"))>>, None)>>, <<Sets(<<SetAll("m", Map1("q", I(3)), TRUE), SetAll("r", Map1("p", I(4)), FALSE)>>)>>,
            NoProjection),
    Writes_(<<AllA>>, <<Removes(<<[op |-> "RemoveProperty", entity |-> Var("n"), k |-> "p"],
                                  [op |-> "RemoveLabels", entity |-> Var("n"), labels |-> {"A"}]>>)>>, NoProjection),
    Writes_(<<Match(<<Alone(NL("n", {"B"}))>>, None)>>, <<Deletes(<<Var("n")>>, TRUE)>>, Return(<<It("c", CountStar)>>)),
    Writes_(<<AllA>>, <<Deletes(<<Var("n")>>, FALSE)>>, NoProjection),
    Writes_(<<Match(<<Hop(N("n"), R("r", {}, "both"), N("m"))>>, None)>>, <<Deletes(<<Var("r")>>, FALSE)>>, Return(<<It("c", CountStar)>>)),
    Writes_(<<>>, <<Merge(Alone(NLP("n", {"A"}, "p", I(1))), <<OnMatch(<<SetP("n", "q", I(1))>>), OnCreate(<<SetP("n", "q", I(2))>>)>>)>>,
            Return(<<It("q", Prop("n", "q"))>>)),
    Writes_(<<Unwinding(ListOf(<<I(1), I(9), I(9)>>), "x")>>,
            <<Merge(Alone(NLP("n", {"A"}, "p", Var("x"))), <<OnCreate(<<SetP("n", "q", I(2))>>)>>)>>, Count("n")),
    Writes_(<<AllA>>, <<Merge(Hop(N("n"), R("r", {"K"}, "out"), NL("m", {"B"})), <<OnCreate(<<SetL("m", {"D"})>>)>>)>>, Count("m")),
    Writes_(<<AllA, Optional(<<Hop(N("n"), R("r", {"L"}, "in"), N("m"))>>, None)>>, <<Deletes(<<Var("r")>>, FALSE)>>, Count("m")),
    Writes_(<<All>>, <<Sets(<<SetP("n", "p", I(7))>>)>>, Only(Return(<<It("o", I(1))>>), None, I(1))),
    Then(<<MakePart(<<Match(<<Alone(NP("n", "p", I(2)))>>, None)>>, <<Sets(<<SetP("n", "p", I(9))>>)>>, Return(<<V("n")>>)),
           Reads(<<Match(<<Alone(NP("m", "p", I(9)))>>, None)>>, Return(<<V("n"), V("m")>>))>>),
    Writes_(<<AllA>>, <<Sets(<<SetP("n", "p", I(5))>>), Sets(<<SetP("n", "q", Exists_("e", Hop(N("n"), R("", {"K"}, "out"), N("")), Cmp("=", Prop("n", "p"), I(5))))>>)>>,
            Return(<<It("q", Prop("n", "q"))>>))>>
\* Calls: with good arguments, and with each of them null.
CallOf(proc, xs, yields, standalone) ==
  [c |-> "call", proc |-> proc, xs |-> xs, yields |-> [i \in DOMAIN yields |-> [field |-> yields[i], var |-> yields[i]]],
   standalone |-> standalone, where |-> None]
T(i) == Literal(Text(i))
MapOf(ks, vs) == Literal([map |-> [k \in RangeOfSeq(ks) |-> vs[CHOOSE i \in DOMAIN ks : ks[i] = k]]])
Texts(i) == Literal(List(<<Text(i)>>))
MCMember == MapOf(<<"node_id", "ip", "bolt_port", "raft_port", "graph">>, <<Int_(3), Text(1), Int_(1), Int_(2), Text(7)>>)
GoodArguments(proc) ==
  CASE proc \in {"db.labels", "db.propertyKeys", "db.relationshipTypes", "dbms.procedures", "dbms.graph.listGraph"} -> <<>>
    [] proc = "db.index.createNodeIndex"          -> <<T(4), T(5), Texts(6), MapOf(<<"unique">>, <<True>>)>>
    [] proc = "db.index.queryNodes"               -> <<T(1), I(1)>>
    [] proc = "db.index.rangeQueryNodes"          -> <<T(1), I(1), I(2), MapOf(<<"right_closed">>, <<False>>)>>
    [] proc = "db.index.fulltext.createNodeIndex" -> <<T(4), Texts(5), Texts(6)>>
    [] proc = "db.index.fulltext.queryNodes"      -> <<T(2), T(9), I(1)>>
    [] proc = "db.index.vector.createNodeField"   -> <<T(5), T(6), MapOf(<<"dimension">>, <<Int_(2)>>)>>
    [] proc = "db.index.vector.createNodeIndex"   -> <<T(4), T(5), T(6), MapOf(<<"dimension", "hnsw_m">>, <<Int_(2), Int_(3)>>)>>
    [] proc = "db.index.vector.knnSearchNodes"    -> <<T(3), Literal(List(<<Int_(1)>>)), MapOf(<<"top_k">>, <<Int_(1)>>)>>
    [] proc = "dbms.graph.createGraphWithRaft"    -> <<T(7), Literal(List(<<MCMember.v>>))>>
    [] proc \in DOMAIN MemberRequest              -> <<T(7), MCMember>>
    [] proc \in DOMAIN NodeRequest \cup {"dbms.graph.transferRaftLeader"} -> <<T(7), I(3)>>
    [] OTHER                                      -> <<T(7)>>
Alternatives(xs) == <<xs>> \o [i \in DOMAIN xs |-> [xs EXCEPT ![i] = Literal(Null)]]
StandaloneCalls(p) ==
  LET xss == Alternatives(GoodArguments(p.name))
  IN  [i \in DOMAIN xss |-> Simple(<<CallOf(p.name, xss[i], <<>>, TRUE)>>, NoProjection)]
MCStandalone == Concat([i \in DOMAIN BuiltinProcedures |-> StandaloneCalls(BuiltinProcedures[i])])
Graphs == CallOf("dbms.graph.listGraph", <<>>, <<"id", "name">>, FALSE)
MCCalling ==
  <<Simple(<<AllA, CallOf("db.index.queryNodes", <<T(1), Prop("n", "p")>>, <<"node">>, FALSE)>>, Return(<<V("n"), V("node")>>)),
    Simple(<<CallOf("db.index.rangeQueryNodes", <<T(1), I(2), Literal(Null), MapOf(<<>>, <<>>)>>, <<"node">>, FALSE),
             Match(<<Hop(N("node"), K, N("m"))>>, None)>>, Return(<<V("node"), V("m")>>)),
    Writes_(<<AllA, CallOf("db.index.createNodeIndex", <<T(4), T(5), Texts(6), MapOf(<<>>, <<>>)>>, <<>>, FALSE)>>,
            <<Sets(<<SetP("n", "p", I(5))>>)>>, Only(Count("n"), None, I(1))),
    Simple(<<Graphs>>, Only(Ordered(Return(<<V("id")>>), <<By(Var("id"), FALSE)>>), None, I(1))),
    Simple(<<CallOf("dbms.graph.removeRaftNode", <<T(7), I(3)>>, <<"role">>, FALSE)>>, Only(Return(<<V("role")>>), None, I(0))),
    Simple(<<Graphs, All>>, Return(<<V("id")>>)),
    Simple(<<Graphs, CallOf("dbms.graph.deleteGraph", <<Var("name")>>, <<>>, FALSE)>>, Return(<<V("id")>>)),
    Simple(<<Unwinding(ListOf(<<I(1), I(2)>>), "x"), Graphs>>, Return(<<V("id")>>)),
    Simple(<<>>, Return(<<It("x", I(1))>>))>>
\* Columns of every static type.
D_(halves) == Literal([dbl |-> halves])
Unary(kind, x) == [e |-> kind, a |-> <<x>>]
Named(f, x) == It(f, Call(f, <<x>>))
MCTyped ==
  <<Simple(<<Match(<<[Hop(N("n"), K, N("m")) EXCEPT !.path = "w"]>>, None)>>,
           Return(<<Named("nodes", Var("w")), Named("relationships", Var("w")), Named("length", Var("w")), Named("startNode", Var("r")),
                    Named("type", Var("r")), Named("labels", Var("n")), It("first", Call("head", <<Call("nodes", <<Var("w")>>)>>)),
                    V("w")>>)),
    Simple(<<Match(<<Hop(N("n"), RV("r", {}, "out", <<1, 2>>), N("m"))>>, None)>>,
           Return(<<V("r"), Named("last", Var("r")), Named("size", Var("r")), Named("tail", Var("r")), Named("reverse", Var("r")),
                    It("first", Bin("index", Var("r"), I(0))), Named("keys", Var("m")), Named("properties", Var("n"))>>)),
    Then(<<Reads(<<All>>, Return(<<It("ns", Call("collect", <<Var("n")>>)), It("is", Distinct(Call("collect", <<IdOf("n")>>))),
                                   Named("sum", IdOf("n")), Named("avg", IdOf("n")), Named("max", Prop("n", "p")),
                                   It("d", Call("percentileDisc", <<IdOf("n"), D_(1)>>))>>)),
           Reads(<<Unwinding(Var("ns"), "m")>>,
                 Return(<<V("m"), It("p", Prop("m", "p")), Named("head", Var("is")), V("sum"), V("avg"), V("max"), V("d")>>))>>),
    Simple(<<Unwinding(ListOf(<<I(1), I(2), Literal(Null)>>), "x")>>,
           Return(<<V("x"), It("m", Unary("minus", Var("x"))), It("i", Arith("+", Var("x"), I(1))), It("f", Arith("*", Var("x"), D_(1))),
                    It("q", Arith("/", I(4), Var("x"))), Named("ceil", Var("x")), Named("abs", Var("x")), Named("sign", Var("x")),
                    It("b", Bin("or", Cmp(">", Var("x"), I(1)), Bin("in", Var("x"), ListOf(<<I(1)>>))))>>)),
    Simple(<<>>, Return(<<Named("toFloat", I(1)), Named("toInteger", D_(3)), Named("toBoolean", Literal(Bool(TRUE))), Named("isEmpty", ListOf(<<>>)),
                          Named("sqrt", I(4))>>)),
    Simple(<<>>,
           Return(<<It("a", Listed_("x", Call("range", <<I(1), I(3)>>), Cmp(">", Var("x"), I(1)), Arith("*", Var("x"), I(2)))),
                    It("b", MakeQuantifier("single", "x", ListOf(<<I(1), I(2)>>), Cmp("=", Var("x"), I(1)))),
                    It("c", [e |-> "reduce", acc |-> "s", n |-> "x", a |-> <<I(0), ListOf(<<I(1), I(2)>>), Arith("+", Var("s"), Var("x"))>>]),
                    It("d", Call("coalesce", <<Literal(Null), I(2)>>)), It("e", Bin("index", ListOf(<<I(1), T(1)>>), I(1))),
                    It("f", Arith("+", ListOf(<<I(1)>>), I(2))), It("g", Map1("p", I(1))), It("h", Arith("+", T(1), T(2))),
                    It("j", Literal(Null))>>)),
    Then(<<Reads(<<AllA, Optional(<<Hop(N("n"), R("r", {"L"}, "out"), N("m"))>>, None)>>, Return(<<It("x", Var("m")), V("r"), It("i", IdOf("n"))>>)),
           Reads(<<>>, Ordered(Return(<<It("n", Var("i")), V("x"), V("r"), It("l", Call("labels", <<Var("x")>>))>>), <<By(Var("n"), TRUE)>>))>>),
    [singles |-> <<<<Reads(<<AllA>>, Return(<<It("x", IdOf("n"))>>))>>, <<Reads(<<>>, Return(<<It("x", T(1))>>))>>>>, all |-> <<TRUE>>]>>
\* Columns for which the validator infers more than it knows.
MCOverstated ==
  <<Simple(<<>>, Return(<<It("x", Arith("^", I(2), I(2)))>>)),
    Simple(<<AllA>>, Return(<<It("x", Call("coalesce", <<Prop("n", "p"), T(1)>>))>>)),
    Simple(<<AllA>>, Return(<<It("x", ListOf(<<T(1), Prop("n", "p")>>))>>)),
    Simple(<<>>, Return(<<It("x", Arith("*", D_(2), Call("duration", <<MapOf(<<"days">>, <<Int_(1)>>)>>)))>>)),
    Simple(<<Match(<<Alone(NL("n", {"Z"}))>>, None)>>, Return(<<Named("sum", Call("toFloat", <<IdOf("n")>>))>>)),
    Simple(<<>>, Return(<<It("x", [e |-> "reduce", acc |-> "s", n |-> "y", a |-> <<T(1), ListOf(<<>>), I(1)>>])>>))>>
\* Statements that the engine does not execute as they are meant, does not
\* plan or refuses: one for each departure named below.
K2 == R("s", {"K"}, "both")
ByP == Ordered(Return(<<V("n")>>), <<By(Prop("n", "p"), TRUE)>>)
Minus(x) == Arith("-", I(0), x)
MCDeparting ==
  <<Then(<<Reads(<<All>>, Ordered(Return(<<It("p", Prop("n", "p"))>>), <<By(Var("p"), TRUE)>>)),
           Reads(<<>>, Ordered(Return(<<It("p", Minus(Var("p")))>>), <<By(Var("p"), TRUE)>>))>>),
    Then(<<Reads(<<All>>, ByP),
           MakePart(<<>>, <<Sets(<<SetP("n", "p", Minus(Prop("n", "p")))>>)>>, Ordered(Return(<<It("p", Prop("n", "p"))>>), <<By(Var("p"), TRUE)>>))>>),
    Writes_(<<Match(<<Hop(N("n"), K, N("m"))>>, None)>>, <<Sets(<<SetP("n", "p", I(7))>>), Sets(<<SetP("n", "q", Prop("m", "p"))>>)>>, NoProjection),
    Writes_(<<Match(<<Hop(N("n"), K, N("m"))>>, None)>>, <<Sets(<<SetP("n", "p", I(7))>>)>>, Return(<<It("p", Prop("m", "p"))>>)),
    Writes_(<<>>, <<Merge(Hop(NP("n", "p", I(2)), K, N("m")), <<OnMatch(<<SetP("n", "p", I(5))>>)>>)>>, Count("n")),
    Writes_(<<>>, <<Merge(Part(<<N("n"), N("m"), N("x")>>, <<[K EXCEPT !.dir = "both"], K2>>), <<>>)>>, Count("n")),
    Simple(<<All, Optional(<<Hop(N("n"), R("r", {"L"}, "out"), N("m"))>>, None), Match(<<Hop(N("m"), K2, N("x"))>>, None)>>,
           Return(<<V("n"), V("m"), V("x")>>)),
    Simple(<<AllA, Optional(<<Part(<<N("n"), NL("m", {"B"}), N("x")>>, <<K, R("", {"L"}, "out")>>)>>, None)>>, Return(<<V("n"), V("x")>>)),
    Simple(<<Match(<<Shortest("w", N("n"), RV("r", {}, "both", <<1, 3>>), N("m"))>>, None)>>, Return(<<V("n"), V("m"), Named("length", Var("w"))>>)),
    Writes_(<<AllA>>, <<Sets(<<SetP("n", "q", Exists_("e", Hop(N("n"), R("", {"K"}, "out"), NL("", {"B"})), None))>>)>>, Star),
    Simple(<<Match(<<Alone(N("n"))>>, MakeQuantifier("any", "x", ListOf(<<I(1), I(2)>>),
                                                      Exists_("e", Hop(N("n"), R("", {"K"}, "out"), NP("", "p", Var("x"))), None)))>>, Return(<<V("n")>>)),
    Then(<<Reads(<<All>>, Where(Return(<<It("n", IdOf("n"))>>), Cmp(">", Arith("-", Var("n"), I(1)), I(0)))), Reads(<<>>, Return(<<V("n")>>))>>)>>
\* Statements with one mistake each.
Gives(x) == Simple(<<All>>, Return(<<It("x", x)>>))
Filters(x) == Simple(<<Match(<<Hop(N("n"), K, N("m"))>>, x)>>, Return(<<V("n")>>))
Creates(part) == Writes_(<<All>>, <<Create(<<part>>)>>, NoProjection)
Union_(items, all) ==
  [singles |-> [i \in DOMAIN items |-> <<Reads(<<>>, Return(<<items[i]>>))>>], all |-> all]
MCFaulty ==
  <<Gives(Var("y")), Gives(Exists_("e", Hop(N("n"), R("", {}, "out"), N("z")), Cmp("=", Prop("y", "p"), I(1)))),
    Then(<<Reads(<<All>>, Return(<<It("p", Prop("n", "p"))>>)), Reads(<<>>, Return(<<V("n")>>))>>),
    Filters(PatternPred("e", Hop(N("n"), R("", {}, "out"), N("z")))), Gives(PatternPred("e", Hop(N("n"), R("", {}, "out"), N("")))),
    Simple(<<Match(<<Hop(N("n"), R("n", {}, "out"), N("m"))>>, None)>>, Return(<<V("n")>>)),
    Simple(<<Match(<<[Hop(N("n"), K, N("m")) EXCEPT !.path = "w"], [Alone(N("x")) EXCEPT !.path = "w"]>>, None)>>, Return(<<V("n")>>)),
    Simple(<<Match(<<Hop(N("n"), K, N("m")), Hop(N("m"), K, N("x"))>>, None)>>, Return(<<V("n")>>)),
    Simple(<<All, Unwinding(ListOf(<<I(1)>>), "n")>>, Return(<<V("n")>>)),
    Filters(Cmp(">", Call("count", <<Var("n")>>), I(1))), Gives(Call("sum", <<CountStar>>)), Gives(Arith("+", Prop("n", "p"), CountStar)),
    Gives(Listed_("y", ListOf(<<I(1)>>), None, Call("count", <<Var("n")>>))), Gives(Call("max", <<Call("rand", <<>>)>>)),
    Simple(<<All>>, Ordered(Unique(Return(<<It("p", Prop("n", "p"))>>)), <<By(Prop("n", "q"), TRUE)>>)),
    Simple(<<All>>, Ordered(Return(<<V("n")>>), <<By(CountStar, TRUE)>>)),
    Simple(<<All>>, Only(Return(<<V("n")>>), Prop("n", "p"), None)), Simple(<<All>>, Only(Return(<<V("n")>>), None, Unary("minus", I(1)))),
    Simple(<<All>>, Only(Return(<<V("n")>>), None, D_(2))),
    Filters(Bin("and", I(1), Cmp("=", Prop("n", "p"), I(1)))), Filters(I(1)), Gives(MakeNot(T(1))), Gives(Arith("-", T(1), I(1))),
    Gives(Bin("in", I(1), I(1))), Gives([e |-> "prop", k |-> "p", a |-> <<I(1)>>]), Gives(MakeQuantifier("any", "y", I(1), Cmp("=", Var("y"), I(1)))),
    Gives([e |-> "reduce", acc |-> "s", n |-> "y", a |-> <<I(0), I(1), Var("s")>>]),
    Gives(Call("size", <<I(1)>>)), Gives(Call("type", <<Var("n")>>)), Gives(Call("substring", <<T(1), T(1)>>)), Gives(Call("unheard", <<>>)),
    Gives(Call("range", <<I(1)>>)), Gives(Distinct(Call("abs", <<I(1)>>))),
    Creates(Hop(N("n"), R("", {"K"}, "both"), N("m"))), Creates(Hop(N("n"), R("", {"K", "L"}, "out"), N("m"))),
    Creates(Hop(N("n"), RV("", {"K"}, "out", <<1, 2>>), N("m"))), Creates(Alone(N("n"))), Creates(Hop(A, R("", {"K"}, "out"), N("m"))),
    Writes_(<<>>, <<Merge([Alone(N("n")) EXCEPT !.nodes[1].props = Param("p")], <<>>)>>, NoProjection),
    Writes_(<<All>>, <<Deletes(<<IdOf("n")>>, FALSE)>>, NoProjection),
    Gives(ExistsQuery("e", <<MakePart(<<All>>, <<Deletes(<<Var("n")>>, FALSE)>>, NoProjection)>>)),
    Then(<<Reads(<<All>>, Return(<<It("", Prop("n", "p"))>>)), Reads(<<>>, Return(<<It("x", I(1))>>))>>),
    Simple(<<All>>, Return(<<It("x", I(1)), It("x", I(2))>>)),
    Union_(<<It("x", I(1)), It("y", I(1))>>, <<TRUE>>), Union_(<<It("x", I(1)), It("x", I(1)), It("x", I(2))>>, <<TRUE, FALSE>>),
    Simple(<<CallOf("db.unheard", <<>>, <<>>, FALSE)>>, Return(<<It("x", I(1))>>)), Simple(<<CallOf("db.labels", <<I(1)>>, <<"label">>, FALSE)>>, Return(<<V("label")>>)),
    Simple(<<CallOf("db.labels", <<>>, <<"node">>, FALSE)>>, Return(<<V("node")>>)), Simple(<<Graphs, Graphs>>, Return(<<V("id")>>))>>
\* Statements with parameters, and those that lack one.
MCBound ==
  <<Simple(<<Match(<<Alone(NLP("n", {"A"}, "p", Param("p")))>>, None)>>, Return(<<V("n"), It("x", Param("ps"))>>)),
    Simple(<<Unwinding(Param("ps"), "x"), Match(<<Alone(A)>>, Cmp("=", Prop("n", "p"), Arith("-", Var("x"), Param("p"))))>>,
           Return(<<V("n"), V("x")>>)),
    Writes_(<<AllA>>, <<Sets(<<SetP("n", "q", Param("p"))>>)>>, Return(<<It("c", Arith("+", CountStar, Param("p")))>>))>>
MCUnbound ==
  <<Simple(<<Match(<<Alone(NL("n", {"Z"}))>>, None)>>, Return(<<It("x", Param("q"))>>)),
    Simple(<<All>>, Return(<<It("e", Exists_("e", Hop(N("n"), R("", {"Z"}, "out"), NP("", "p", Param("q"))), None))>>)),
    Writes_(<<All>>, <<Sets(<<SetP("n", "q", Param("p")), SetP("n", "p", Param("q"))>>)>>, NoProjection)>>
MCOnGraph == MCMatching \o MCChaining \o MCUpdating \o MCTyped \o MCOverstated \o MCDeparting \o MCBound \o MCUnbound
MCGood == MCOnGraph \o MCCalling \o MCStandalone
MCStatements == MCGood \o MCFaulty
MCCatalogs == {{}, {<<"A", "p">>, <<"K", "p">>}}

-----------------------------------------------------------------------------
Count_(s) == [x \in RangeOfSeq(s) |-> Cardinality({i \in DOMAIN s : s[i] = x})]
\* A graph up to the identifiers of what is new in it.
NodeShape(g, n) == <<IF n < MCGraph.nextNode THEN n ELSE 0, g.labels[n], g.props[n]>>
RelShape(g, r) ==
  LET e == g.rels[r] IN <<IF r < MCGraph.nextRel THEN r ELSE 0, NodeShape(g, e.src), NodeShape(g, e.dst), e.type, e.props>>
Shape(g) ==
  LET ns == RefSequence(DOMAIN g.labels)
      rs == RefSequence(DOMAIN g.rels)
  IN  [nodes |-> Count_([i \in DOMAIN ns |-> NodeShape(g, ns[i])]), rels |-> Count_([i \in DOMAIN rs |-> RelShape(g, rs[i])])]
\* The columns the last ORDER BY sorts by.
SortedColumns(q) ==
  LET part == q.singles[1][Len(q.singles[1])]
      keys == {AliasReferences(part.proj.order[i].x, FillAliases(part.proj).items) : i \in DOMAIN part.proj.order}
  IN  IF ~HasProjection(part) THEN {} ELSE {x.n : x \in {x \in keys : x.e = "var"}}
\* A statement without RETURN gives no columns; its rows are not a result.
Returns ==
  LET parts == MCStatements[statement].singles[1]
      last == parts[Len(parts)]
  IN  HasProjection(last) \/ (StandaloneCall(last) /\ KnownProcedureReadOnly(last.reading[1].proc))
Outcome(cols, failed, rows, g) ==
  IF failed THEN [failed |-> TRUE, requests |-> g.requests]
  ELSE [rows |-> Count_(IF Returns THEN rows ELSE <<>>), graph |-> Shape(g), sorted |-> IF Returns THEN [i \in DOMAIN rows |-> RestrictRow(rows[i], cols)] ELSE <<>>,
        requests |-> g.requests]
Database == [MCGraph EXCEPT !.session.system = database = "system"]
Unbound == statement \in Len(MCOnGraph) - Len(MCUnbound) + 1 .. Len(MCOnGraph)
Meaning(q, cols) ==
  IF Unbound THEN Outcome(cols, TRUE, <<>>, Database)
  ELSE LET s == RefStatement(q, Database) IN Outcome(cols, AnyError(s.rows), s.rows, s.g)

Init == /\ statement \in {0} \cup DOMAIN MCStatements /\ case = Start /\ asked = FALSE
        /\ database \in IF statement \in Len(MCOnGraph) + 1 .. Len(MCGood) THEN {"graph", "system"} ELSE {"graph"}
\* A statement is compiled and executed in one step: the properties below speak
\* of all the ways in which this can be done.
Submit == statement # 0 /\ ~asked /\ asked' = TRUE /\ UNCHANGED <<statement, database, case>>
Next == Submit \/ (statement = 0 /\ Case /\ UNCHANGED vars)
Spec == Init /\ [][Next]_<<vars, case>>

-----------------------------------------------------------------------------
\* The parser delivers a statement only when the validator has no error.
Checked_ == ValidateStatement(MCStatements[statement])
Accepted == statement # 0 /\ Checked_.errs = {}
\* The statement before and after each rewriter, one half of them after the other.
RECURSIVE RewriteFrom(_, _, _)
RewriteFrom(q, m, n) ==
  LET middle == (m + n) \div 2
      first == RewriteFrom(q, m, middle)
      next == ApplyRewriter(DefaultRewriters[m], q)
  IN  IF m = n THEN <<IF next = q THEN q ELSE next>> ELSE first \o RewriteFrom(first[Len(first)], middle + 1, n)
Rewritten == <<MCStatements[statement]>> \o RewriteFrom(MCStatements[statement], 1, Len(DefaultRewriters))
\* The first rewriters only bring expressions into their normal forms; what is
\* meant is read from the normal form.
NormalForm == 6
Columns_ == SortedColumns(ApplyRewriter("parenthesized expression", MCStatements[statement]))
Expected == Meaning(Rewritten[NormalForm], Columns_)
Query_ == Rewritten[Len(DefaultRewriters) + 1]
\* The physical plans, with the property indexes there are.
LogicalPlans(q, cat) == UNION {{RewriteLogicalPlan(p) : p \in CreateLogicalPlan(ir, cat)} : ir \in {BuildQueryIR(q)}}
Plans(q) ==
  UNION {{[physical |-> PhysicalPlan_(p, build), cat |-> cat] : p \in LogicalPlans(q, cat), build \in 1 .. 2} : cat \in MCCatalogs}
Rejected(plan) == database = "system" /\ ~ValidateSystemPhysicalPlan(plan.physical.root)
Execute(q, plan, live) ==
  LET cx == [RefContext(Database) EXCEPT !.indexes = @ \cup plan.cat, !.live = live]
      o == StartPhysicalPlan(plan.physical.root, plan.physical.columns, cx)
  IN  IF ValidateQueryParameters(CollectQueryParameters(q), cx.params) THEN Outcome(Columns_, o.failed, o.rows, o.g)
      ELSE Outcome(Columns_, TRUE, <<>>, cx.g)
\* A plan that needs no index is the same with and without them, and executed once.
Results(q, plans) ==
  LET run == {p \in plans : ~Rejected(p)}
      same(p) == \E other \in run : p.cat \subseteq other.cat /\ p.cat # other.cat /\ p.physical = other.physical
  IN  {Execute(q, plan, live) : plan \in {p \in run : ~same(p)}, live \in BOOLEAN}

-----------------------------------------------------------------------------
(* Where the engine departs from what a statement means.                   *)

Singles(q) == RangeOfSeq(q.singles)
Clauses_(part) == RangeOfSeq(part.reading \o part.updating)
ReadsGraph(x) == \E y \in Subexpressions(x) : y.e \in {"prop", "labels"} \/ (y.e = "call" /\ y.f \in {"properties", "keys", "labels"})
\* The names known, with their types, where part k of a query is projected.
ScopeAt(parts, k) ==
  VisitClauses(VisitBranch(SubSeq(parts, 1, k - 1), [below |-> NoScope, top |-> NoScope, any |-> FALSE, agg |-> FALSE]),
               parts[k].reading \o parts[k].updating).w
Rebound(parts, k) ==
  IF ~HasProjection(parts[k]) THEN {}
  ELSE {it.alias : it \in {it \in RangeOfSeq(parts[k].proj.items) : it.x # Var(it.alias)}} \cap DOMAIN ScopeAt(parts, k).top
\* Rows count as ordered by a name that now means something else, or by
\* properties that have been written since.
StaleOrder(parts) ==
  \E i, k \in DOMAIN parts : i < k /\ \E by \in RangeOfSeq(parts[i].proj.order) :
    Dependencies(by.x) \cap Rebound(parts, k) # {} \/ (ReadsGraph(by.x) /\ parts[k].updating # <<>>)
\* A clause reads what an earlier clause of its part writes, for other rows
\* too: only MERGE and DELETE wait for those.
WritesProperties(c) == c.c \in {"set", "remove"} \/ (c.c = "merge" /\ (c.c = "merge" => c.actions # <<>>))
PatternParts(c) == CASE c.c \in {"match", "create"} -> c.pattern [] c.c = "merge" -> <<c.part>> [] OTHER -> <<>>
OneNodePerRow(parts) ==
  LET clauses == UNION {Clauses_(part) : part \in RangeOfSeq(parts)}
  IN  /\ \A c \in clauses : c.c \notin {"unwind", "call"} /\ \A i \in DOMAIN PatternParts(c) : PatternParts(c)[i].rels = <<>>
      /\ Cardinality(UNION {PatternVariables(PatternParts(c)) : c \in clauses}) <= 1
RowByRow(parts) ==
  \E k \in DOMAIN parts : \E i \in DOMAIN parts[k].updating :
    LET updates == parts[k].updating
        later == UNION {UpdatingExpressions(updates[j]) : j \in {j \in DOMAIN updates : i < j /\ updates[j].c # "merge"}}
                   \cup (IF HasProjection(parts[k]) THEN ProjectionExpressions(parts[k].proj) ELSE {})
    IN  WritesProperties(updates[i]) /\ (\E x \in later : ReadsGraph(x)) /\ ~OneNodePerRow(SubSeq(parts, 1, k))
\* MERGE writes while it still looks for matches, or takes one relationship twice.
MergeMismatches(parts) ==
  \E part \in RangeOfSeq(parts) : \E c \in RangeOfSeq(part.updating) : c.c = "merge" /\
    LET undirected == {i \in DOMAIN c.part.rels : c.part.rels[i].dir = "both"}
    IN  Cardinality(undirected) > 1 \/ (c.part.rels # <<>> /\ \E i \in DOMAIN c.actions : c.actions[i].onMatch)
\* MATCH after OPTIONAL MATCH is matched before it.
RequiredAfterOptional(parts) ==
  \E part \in RangeOfSeq(parts) : \E i, j \in DOMAIN part.reading :
    i < j /\ part.reading[i].c = "match" /\ part.reading[j].c = "match" /\ part.reading[i].optional /\ ~part.reading[j].optional
\* Shortest paths of two or more relationships back to where they start, and of
\* a least length, are not all found.
LosesShortest(parts) ==
  \E part \in RangeOfSeq(parts) : \E c \in RangeOfSeq(part.reading) : \E p \in RangeOfSeq(PatternParts(c)) : p.shortest # "none" /\
    LET BothEnds(n) == (p.nodes[1].labels \cup p.nodes[2].labels) \subseteq MCGraph.labels[n]
        Loop(n) == \E r \in DOMAIN MCGraph.rels : MCGraph.rels[r].src = n /\ MCGraph.rels[r].dst = n
    IN  p.rels[1].range[1] > 1 \/ (p.rels[1].dir = "both" /\ \E n \in DOMAIN MCGraph.labels : BothEnds(n) /\ ~Loop(n))
\* RETURN * after a subquery in an update returns a helper column.
ReturnsHelper(parts) ==
  \E part \in RangeOfSeq(parts) :
    HasProjection(part) /\ part.proj.star /\ \E c \in RangeOfSeq(part.updating) : \E x \in UpdatingExpressions(c) : HasSubquery(x)
\* A subquery in a quantifier is planned where its variable is not bound.
SubqueryInQuantifier(q) == \E x \in StatementExpressions(q) : x.e \in Quantifiers /\ HasSubquery(x.a[2])
Departs(q, rewritten) ==
  \/ \E s \in Singles(q) : StaleOrder(s) \/ MergeMismatches(s) \/ RequiredAfterOptional(s) \/ LosesShortest(s) \/ ReturnsHelper(s)
  \/ \E s \in Singles(rewritten) : RowByRow(s)
  \/ SubqueryInQuantifier(q)
\* OPTIONAL MATCH over a filter that does not hand on what both sides share
\* takes a row of another match for its own.
RECURSIVE PlanNodes(_)
PlanNodes(p) == {p} \cup UNION {PlanNodes(p.kids[i]) : i \in DOMAIN p.kids}
LosesUnmatched(plan) ==
  \E apply \in PlanNodes(plan) : apply.op = "OptionalApply" /\
    \E p \in PlanNodes(apply.kids[2]) : p.op = "Filter" /\ ~(apply.kids[1].cols \cap apply.kids[2].cols \subseteq p.cols)

-----------------------------------------------------------------------------
\* Whatever plan the costs make the planner choose, a statement gives the rows
\* it means, as often as it means them, and fails where it means an error or
\* lacks a parameter, also one that no row would have needed.  Rows come in the
\* order the last ORDER BY asks for, also where the plan leaves out a sort
\* because the rows are ordered already.  A statement leaves the graph its
\* clauses leave when each is finished before the next begins, though the
\* operators work row by row.  This is stated of the statements and the plans
\* that have none of the departures named above.
AsMeant(result, expected) ==
  /\ DOMAIN result = DOMAIN expected
  /\ "rows" \in DOMAIN result =>
       result.rows = expected.rows /\ result.sorted = expected.sorted /\ result.graph = expected.graph
ResultsAsMeant ==
  [][(Accepted => \A q \in {Query_} : ~Departs(MCStatements[statement], q) =>
                     LET plans == {p \in Plans(q) : ~LosesUnmatched(p.physical.root)}
                     IN  \A expected \in {Expected} : \A result \in Results(q, plans) : AsMeant(result, expected))]_<<vars, case>>
\* Every rewriter keeps what the statement means, but for the helper column
\* that RETURN * returns after a subquery in an update.
RewritesKeepMeaning ==
  [][(Accepted /\ ~(\E s \in Singles(MCStatements[statement]) : ReturnsHelper(s)) =>
        LET q == Rewritten
            expected == Meaning(q[NormalForm], Columns_)
        IN  \A i \in NormalForm + 1 .. Len(q) : q[i] # q[i - 1] => Meaning(q[i], Columns_) = expected)]_<<vars, case>>
\* A condition or an order is checked with the type a name had before the
\* projection that gives it a new meaning.
MeansTwoThings(parts) ==
  \E k \in DOMAIN parts : HasProjection(parts[k]) /\
    \E x \in {parts[k].proj.where} \cup {by.x : by \in RangeOfSeq(parts[k].proj.order)} : Dependencies(x) \cap Rebound(parts, k) # {}
\* The validator stops the statements with a mistake, and no other in which
\* each name of a projection means one thing.  For every one it lets through,
\* if no subquery is in a quantifier, the planner finds a plan, and whichever
\* it takes, every operator finds the columns it looks up in its inputs.
EveryStatementPlans ==
  [][(/\ statement > Len(MCGood) => ~Accepted
      /\ statement \in DOMAIN MCGood /\ ~(\E s \in Singles(MCStatements[statement]) : MeansTwoThings(s)) => Accepted
      /\ Accepted =>
           \A q \in {Query_} : \A plans \in {Plans(q)} :
             /\ CheckQueryIRInputContract(q)
             /\ ~SubqueryInQuantifier(MCStatements[statement]) =>
                  /\ \A cat \in MCCatalogs : \E plan \in plans : plan.cat = cat
                  /\ \A plan \in plans : Rejected(plan) \/ plan.physical.root.built)]_<<vars, case>>
RuntimeType ==
  [null |-> "null", boolean |-> "bool", integer |-> "int", float |-> "dbl", string |-> "str", list |-> "list", map |-> "map",
   node |-> "node", rel |-> "rel", path |-> "path"]
HasStaticType(v, t) == t = "unknown" \/ IsNull(v) \/ (t # "unknown" /\ Is(v, RuntimeType[t]))
\* The inferred type of x is not that of all its values: the power of integers
\* is a float, a float by a duration a duration, the sum of nothing an integer;
\* coalesce has the type of its first argument that has one, a list that of the
\* elements that have one, reduce that of its step.
Overstated(x, w) ==
  LET kinds == {InferType(x.a[i], w).t : i \in DOMAIN x.a} \ {"null"}
  IN  CASE x.e = "arith"                       -> (x.op = "^" /\ kinds = {"integer"}) \/ {"float", "unknown"} \subseteq kinds
        [] x.e = "call" /\ x.f = "coalesce"    -> Cardinality(kinds) > 1
        [] x.e = "call" /\ x.f = "sum"         -> kinds = {} \/ kinds = {"float"}
        [] x.e = "list"                        -> "unknown" \in kinds /\ Cardinality(kinds) = 2
        [] x.e = "reduce"                      -> InferType(x.a[3], w).t # "unknown"
        [] OTHER                               -> FALSE
Overstates(parts) ==
  \E k \in DOMAIN parts : \E w \in {ScopeAt(parts, k)} : \E x \in UNION {Subexpressions(y) : y \in PartExpressions(parts[k])} : Overstated(x, w)
\* A column of the rows a statement gives, which are those it means, holds null
\* or values of the static type the validator has inferred for it, on which it
\* has let pass or refused what uses the column, unless an expression of the
\* statement is one whose type is overstated.
StaticTypesHold ==
  [][(Accepted /\ Returns /\ ~(\E s \in Singles(MCStatements[statement]) : Overstates(s)) =>
        LET types == Checked_.types
            expected == Expected
        IN  "rows" \in DOMAIN expected =>
              \A row \in DOMAIN expected.rows : \E i \in DOMAIN types : \A n \in DOMAIN row \cap DOMAIN types[i] :
                LET s == types[i][n]
                IN  HasStaticType(row[n], s.t) /\ (IsList(row[n]) => \A j \in DOMAIN row[n].list : HasStaticType(row[n].list[j], s.el)))]_<<vars, case>>
\* A call is executed only on the database the registry names for it, or, to
\* inspect the graph's own Raft group, on that graph; it asks for one change
\* if it is registered as writing, for none if as reading or if its arguments
\* are refused, as a missing one is by every call that writes.  On the system
\* database nothing else is executed.
Registered(part, result) ==
  LET p == FindBuiltinProcedure(part.reading[1].proc)[1]
      failed == "failed" \in DOMAIN result
  IN  /\ database = "system" => p.system
      /\ database = "graph" /\ ~failed => ~p.system \/ p.name \in {"dbms.graph.getRaftNodeInfos", "dbms.graph.getRaftStatus"}
      /\ ~p.readOnly /\ (\E i \in DOMAIN part.reading[1].xs : part.reading[1].xs[i] = Literal(Null)) => failed
      /\ Len(result.requests) = IF failed \/ p.readOnly THEN 0 ELSE 1
CallsAsRegistered ==
  [][(Accepted =>
        LET part == MCStatements[statement].singles[1][1]
            call == part.reading # <<>> /\ (part.reading # <<>> => StandaloneCall(part))
        IN  \A q \in {Query_} : \A results \in {Results(q, Plans(q))} :
              /\ database = "system" /\ (part.reading = <<>> \/ part.updating # <<>>) => results = {}
              /\ call => \A result \in results : Registered(part, result))]_<<vars, case>>
=============================================================================
