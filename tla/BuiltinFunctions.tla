-------------------------- MODULE BuiltinFunctions --------------------------
(***************************************************************************)
(* The scalar functions of the query language, applied to values.  An      *)
(* error (any RG_THROW or failed RG_CHECK) is the value Invalid.           *)
(*                                                                         *)
(* A graph is a record of functions from identities: labels and props of   *)
(* the nodes, and rels, each with its ends, type and props.  A name is a   *)
(* TLA+ string, and NameText gives its characters where a function returns *)
(* it as a value.                                                          *)
(***************************************************************************)
EXTENDS Durations

CONSTANT NameText   \* name -> sequence of character codes

Path(nodes, rels) == [path |-> [nodes |-> nodes, rels |-> rels]]
D(halves) == [dbl |-> halves]
\* Errors are values, and rows, of their own.
IsError(v) == "error" \in DOMAIN v
IsInt(v) == Is(v, "int")
IsStr(v) == Is(v, "str")
IsList(v) == Is(v, "list")
IsNull(v) == Is(v, "null")

\* A set of identities or codes in increasing order.
RECURSIVE Sorted(_)
Sorted(s) ==
  IF s = {} THEN <<>>
  ELSE LET m == CHOOSE x \in s : \A y \in s : x <= y IN <<m>> \o Sorted(s \ {m})

\* Names in the order of their characters.
RECURSIVE SortedNames(_)
SortedNames(s) ==
  IF s = {} THEN <<>>
  ELSE LET m == CHOOSE x \in s : \A y \in s \ {x} : LexLess(NameText[x], NameText[y])
       IN  <<m>> \o SortedNames(s \ {m})
NameList(s) == List([i \in DOMAIN SortedNames(s) |-> Str(NameText[SortedNames(s)[i]])])

-----------------------------------------------------------------------------
(* The table of functions.                                                 *)

AggregateFunctions == {"avg", "collect", "count", "max", "min", "percentileCont", "percentileDisc", "sum"}
NonDeterministic == {"rand", "date.realtime", "datetime.realtime", "localdatetime.realtime",
                     "localtime.realtime", "time.realtime"}
Constructors == {"date", "datetime", "localdatetime", "localtime", "time"}
Clocks == {"realtime", "statement", "transaction"}

\* "date", "statement" -> "date.statement".
Dotted ==
  [date |-> [realtime |-> "date.realtime", statement |-> "date.statement",
             transaction |-> "date.transaction", truncate |-> "date.truncate"],
   datetime |-> [realtime |-> "datetime.realtime", statement |-> "datetime.statement",
                 transaction |-> "datetime.transaction", truncate |-> "datetime.truncate"],
   localdatetime |-> [realtime |-> "localdatetime.realtime", statement |-> "localdatetime.statement",
                      transaction |-> "localdatetime.transaction", truncate |-> "localdatetime.truncate"],
   localtime |-> [realtime |-> "localtime.realtime", statement |-> "localtime.statement",
                  transaction |-> "localtime.transaction", truncate |-> "localtime.truncate"],
   time |-> [realtime |-> "time.realtime", statement |-> "time.statement",
             transaction |-> "time.transaction", truncate |-> "time.truncate"]]

\* The numbers of arguments a function accepts; coalesce takes any number.
ArgumentCounts(f) ==
  IF f \in Constructors \/ \E t \in Constructors, c \in Clocks : f = Dotted[t][c] THEN 0 .. 1
  ELSE IF \E t \in Constructors : f = Dotted[t].truncate THEN 2 .. 3
  ELSE IF f = "rand" THEN {0}
  ELSE IF f \in {"range", "substring"} THEN 2 .. 3
  ELSE IF f \in {"split", "datetime.fromepoch", "duration.between", "duration.inDays",
                 "duration.inMonths", "duration.inSeconds", "percentileCont", "percentileDisc"} THEN {2}
  ELSE IF f = "coalesce" THEN Nat \ {0}
  ELSE {1}

ListResultFunctions == {"collect", "keys", "labels", "nodes", "range", "relationships", "split", "tail"}
UnknownFunctions == {"head", "last", "reverse"}
\* The semantic type of a function's result.
ResultType(f) ==
  IF f \in ListResultFunctions THEN "list"
  ELSE IF f \in UnknownFunctions THEN "unknown"
  ELSE IF f \in {"startNode", "endNode"} THEN "node"
  ELSE IF f = "properties" THEN "map" ELSE "scalar"

-----------------------------------------------------------------------------
(* Numbers.                                                                *)

Halves(v) == IF IsInt(v) THEN 2 * v.int ELSE v.dbl
OfNumber(v, F(_)) == IF IsNumber(v) THEN IF IsNaN(v) THEN NaN ELSE F(v) ELSE Null

Abs(v) ==
  IF IsInt(v) THEN IF v.int = -IntLimit THEN Invalid ELSE Int_(IF v.int < 0 THEN -v.int ELSE v.int)
  ELSE LET F(x) == D(IF x.dbl < 0 THEN -x.dbl ELSE x.dbl) IN OfNumber(v, F)
Ceil(v) == LET F(x) == D(-2 * ((-Halves(x)) \div 2)) IN OfNumber(v, F)
Floor(v) == LET F(x) == D(2 * (Halves(x) \div 2)) IN OfNumber(v, F)
\* Roots of the squares of halves; the inputs are such squares.
Sqrt(v) ==
  LET F(x) == IF Halves(x) < 0 THEN NaN
              ELSE D(CHOOSE r \in 0 .. Halves(x) : r * r = 2 * Halves(x))
  IN  OfNumber(v, F)
Sign(v) ==
  IF IsNumber(v) /\ IsNaN(v) THEN Int_(0)
  ELSE LET F(x) == Int_(IF Halves(x) > 0 THEN 1 ELSE IF Halves(x) < 0 THEN -1 ELSE 0) IN OfNumber(v, F)

-----------------------------------------------------------------------------
(* Entities and paths.                                                     *)

Id(v) == IF Is(v, "node") THEN Int_(v.node) ELSE IF Is(v, "rel") THEN Int_(v.rel) ELSE Null
Labels(v, g) == IF IsNull(v) THEN Null ELSE IF Is(v, "node") THEN NameList(g.labels[v.node]) ELSE Invalid
TypeOf(v, g) == IF IsNull(v) THEN Null ELSE IF Is(v, "rel") THEN Str(NameText[g.rels[v.rel].type]) ELSE Invalid
\* The transaction finds no node under a deleted identity and throws.
NodeAt(g, id) == IF id \in DOMAIN g.labels THEN [node |-> id] ELSE Invalid
EndNode(v, g, end) == IF Is(v, "rel") THEN NodeAt(g, g.rels[v.rel][end]) ELSE Null
PropertiesOf(v, g) ==
  IF Is(v, "map") THEN v.map
  ELSE IF Is(v, "node") THEN g.props[v.node]
  ELSE IF Is(v, "rel") THEN g.rels[v.rel].props ELSE <<>>
HasProperties(v) == Type(v) \in {"map", "node", "rel"}
Keys(v, g) == IF HasProperties(v) THEN NameList(DOMAIN PropertiesOf(v, g)) ELSE Null
Properties(v, g) == IF HasProperties(v) THEN [map |-> PropertiesOf(v, g)] ELSE Null
PathList(v, part, Of(_)) == IF Is(v, "path") THEN List([i \in DOMAIN v.path[part] |-> Of(v.path[part][i])]) ELSE Null
Nodes(v) == LET F(n) == [node |-> n] IN PathList(v, "nodes", F)
Relationships(v) == LET F(r) == [rel |-> r] IN PathList(v, "rels", F)
Length(v) == IF Is(v, "path") THEN Int_(Len(v.path.rels)) ELSE Null

-----------------------------------------------------------------------------
(* Lists.                                                                  *)

Size(v) == IF IsList(v) THEN Int_(Len(v.list)) ELSE IF IsStr(v) THEN Int_(Len(v.str)) ELSE Null
HeadOf(v) == IF IsList(v) /\ v.list # <<>> THEN Head(v.list) ELSE Null
Last(v) == IF IsList(v) /\ v.list # <<>> THEN v.list[Len(v.list)] ELSE Null
TailOf(v) == IF ~IsList(v) THEN Null ELSE IF v.list = <<>> THEN v ELSE List(Tail(v.list))
IsEmpty(v) ==
  IF IsStr(v) THEN Bool(v.str = <<>>)
  ELSE IF IsList(v) THEN Bool(v.list = <<>>)
  ELSE IF Is(v, "map") THEN Bool(DOMAIN v.map = {}) ELSE Null
Coalesce(args) ==
  IF \A i \in DOMAIN args : IsNull(args[i]) THEN Null
  ELSE args[CHOOSE i \in DOMAIN args : ~IsNull(args[i]) /\ \A j \in 1 .. i - 1 : IsNull(args[j])]

AddWouldOverflow(l, r) == l + r >= IntLimit \/ l + r < -IntLimit
\* range() stops before a value that the integers cannot hold.
RECURSIVE RangeFrom(_, _, _)
RangeFrom(value, end, step) ==
  IF IF step > 0 THEN value > end ELSE value < end THEN <<>>
  ELSE <<Int_(value)>> \o
         (IF AddWouldOverflow(value, step) THEN <<>> ELSE RangeFrom(value + step, end, step))
RangeOf(args) ==
  IF \E i \in DOMAIN args : IsNull(args[i]) THEN Null
  ELSE IF \E i \in DOMAIN args : ~IsInt(args[i]) THEN Invalid
  ELSE LET step == IF Len(args) = 3 THEN args[3].int ELSE 1
       IN  IF step = 0 THEN Invalid ELSE List(RangeFrom(args[1].int, args[2].int, step))

-----------------------------------------------------------------------------
(* Strings.                                                                *)

IsPrefixAt(s, i, p) == i + Len(p) - 1 <= Len(s) /\ SubSeq(s, i, i + Len(p) - 1) = p

RECURSIVE SplitAt(_, _)
SplitAt(s, d) ==
  LET hits == {i \in 1 .. Len(s) : IsPrefixAt(s, i, d)}
  IN  IF hits = {} THEN <<Str(s)>>
      ELSE LET i == CHOOSE x \in hits : \A y \in hits : x <= y
           IN  <<Str(SubSeq(s, 1, i - 1))>> \o SplitAt(SubSeq(s, i + Len(d), Len(s)), d)
Split(s, d) ==
  IF ~IsStr(s) \/ ~IsStr(d) THEN Null
  ELSE IF d.str = <<>> THEN List([i \in DOMAIN s.str |-> Str(<<s.str[i]>>)])
  ELSE List(SplitAt(s.str, d.str))

\* The bytes of the code point at offset i: a lead byte says how many follow;
\* a truncated or malformed sequence counts as single bytes.
Utf8CodePointSize(s, i) ==
  LET n == IF s[i] \div 32 = 6 THEN 2 ELSE IF s[i] \div 16 = 14 THEN 3 ELSE IF s[i] \div 8 = 30 THEN 4 ELSE 1
  IN  IF i + n - 1 <= Len(s) /\ \A k \in 1 .. n - 1 : s[i + k] \div 64 = 2 THEN n ELSE 1
RECURSIVE Utf8Offsets(_, _)
Utf8Offsets(s, i) == IF i > Len(s) THEN <<Len(s) + 1>> ELSE <<i>> \o Utf8Offsets(s, i + Utf8CodePointSize(s, i))

Substring(args) ==
  IF ~IsStr(args[1]) \/ \E i \in 2 .. Len(args) : ~IsInt(args[i]) THEN Null
  ELSE IF \E i \in 2 .. Len(args) : args[i].int < 0 THEN Invalid
  ELSE LET s       == args[1].str
           offsets == Utf8Offsets(s, 1)
           points  == Len(offsets) - 1
           first   == args[2].int
           last    == IF Len(args) = 3 /\ first + args[3].int < points THEN first + args[3].int ELSE points
       IN  IF first >= points THEN Str(<<>>)
           ELSE Str(SubSeq(s, offsets[first + 1], offsets[last + 1] - 1))

Backwards(s) == [i \in DOMAIN s |-> s[Len(s) + 1 - i]]
\* A string is reversed by code points, the bytes of each kept in order.
Reverse(v) ==
  IF IsList(v) THEN List(Backwards(v.list))
  ELSE IF ~IsStr(v) THEN Null
  ELSE LET offsets == Utf8Offsets(v.str, 1)
           Points[k \in 0 .. Len(offsets) - 1] ==
             IF k = 0 THEN <<>> ELSE SubSeq(v.str, offsets[k], offsets[k + 1] - 1) \o Points[k - 1]
       IN  Str(Points[Len(offsets) - 1])

LowerAscii(s) == [i \in DOMAIN s |-> IF s[i] \in 65 .. 90 THEN s[i] + 32 ELSE s[i]]
UpperAscii(s) == [i \in DOMAIN s |-> IF s[i] \in 97 .. 122 THEN s[i] - 32 ELSE s[i]]
Blank == {9, 10, 11, 12, 13, 32}
TrimAscii(s) ==
  LET kept == {i \in DOMAIN s : s[i] \notin Blank}
  IN  IF kept = {} THEN <<>> ELSE SubSeq(s, Sorted(kept)[1], Sorted(kept)[Len(Sorted(kept))])
OfString(v, F(_)) == IF IsStr(v) THEN Str(F(v.str)) ELSE Null

-----------------------------------------------------------------------------
(* Conversions.                                                            *)

IsDigits(s) == s # <<>> /\ \A i \in DOMAIN s : s[i] \in 48 .. 57
DigitsValue(s) == LET V[i \in 0 .. Len(s)] == IF i = 0 THEN 0 ELSE 10 * V[i - 1] + s[i] - 48 IN V[Len(s)]
\* The sign, if any, and the rest of a number.
Negative(s) == s # <<>> /\ s[1] = 45
Unsigned(s) == IF Negative(s) THEN Tail(s) ELSE s
Signed(s, n) == IF Negative(s) THEN -n ELSE n

\* from_chars takes the whole text or nothing, no '+' and no blanks.
ParseInteger(s) ==
  IF ~IsDigits(Unsigned(s)) THEN Null
  ELSE LET n == Signed(s, DigitsValue(Unsigned(s)))
       IN  IF n >= IntLimit \/ n < -IntLimit THEN Null ELSE Int_(n)
\* Doubles are written as integers, with ".0" or with ".5".
ParseDouble(s) ==
  LET u    == Unsigned(s)
      tail == IF Len(u) > 2 THEN SubSeq(u, Len(u) - 1, Len(u)) ELSE <<>>
      half == tail = <<46, 53>>
      body == IF half \/ tail = <<46, 48>> THEN SubSeq(u, 1, Len(u) - 2) ELSE u
  IN  IF IsDigits(body) THEN D(Signed(s, 2 * DigitsValue(body) + (IF half THEN 1 ELSE 0))) ELSE Null

ToStringValue(v) ==
  IF IsNull(v) THEN Null
  ELSE IF Type(v) \in {"list", "map", "node", "rel", "path"} THEN Invalid
  ELSE IF IsStr(v) THEN v ELSE Str(AppendValue(v))

Truncated(v) ==
  IF IsNaN(v) \/ v.dbl >= 2 * IntLimit \/ v.dbl < -2 * IntLimit THEN Null ELSE Int_(TruncDiv(v.dbl, 2))
ToInteger(v) ==
  IF IsNull(v) \/ IsInt(v) THEN v
  ELSE IF Is(v, "dbl") THEN Truncated(v)
  ELSE IF Is(v, "bool") THEN Int_(IF v.bool THEN 1 ELSE 0)
  ELSE IF ~IsStr(v) THEN Invalid
  ELSE IF ParseInteger(v.str) # Null THEN ParseInteger(v.str)
  ELSE IF ParseDouble(v.str) # Null THEN Truncated(ParseDouble(v.str)) ELSE Null
ToFloat(v) ==
  IF IsNull(v) \/ Is(v, "dbl") THEN v
  ELSE IF IsInt(v) THEN D(2 * v.int)
  ELSE IF IsStr(v) THEN ParseDouble(v.str) ELSE Invalid
ToBoolean(v) ==
  IF IsNull(v) \/ Is(v, "bool") THEN v
  ELSE IF ~IsStr(v) THEN Invalid
  ELSE LET s == LowerAscii(TrimAscii(v.str))
       IN  IF s = <<116, 114, 117, 101>> THEN Bool(TRUE)
           ELSE IF s = <<102, 97, 108, 115, 101>> THEN Bool(FALSE) ELSE Null

-----------------------------------------------------------------------------
(* Temporal functions; clock has the time the query, its transaction and   *)
(* the call itself began.                                                  *)

ValueType == [date |-> "date", localtime |-> "ltime", time |-> "time", localdatetime |-> "ldt", datetime |-> "dt"]

ConstructTemporal(type, arg, now) ==
  CASE type = "date"          -> ConstructDate(arg, now)
    [] type = "localtime"     -> ConstructLocalTime(arg, now)
    [] type = "time"          -> ConstructTime(arg, now)
    [] type = "localdatetime" -> ConstructLocalDateTime(arg, now)
    [] type = "datetime"      -> ConstructDateTime(arg, now)

\* The name with the characters s, or "".
NameOf(s) == IF \E n \in DOMAIN NameText : NameText[n] = s
             THEN CHOOSE n \in DOMAIN NameText : NameText[n] = s ELSE ""

TruncateFunction(type, args) ==
  IF \E i \in DOMAIN args : IsNull(args[i]) THEN Null
  ELSE IF ~IsStr(args[1]) \/ (Len(args) = 3 /\ ~Is(args[3], "map")) THEN Invalid
  ELSE LET unit == NameOf(args[1].str)
       IN  IF unit \notin DateUnits \cup TimeUnits THEN Invalid
           ELSE Truncate(ValueType[type], unit, args[2], IF Len(args) = 3 THEN args[3].map ELSE <<>>)

\* The functions named after a type: its constructor, the constructors at one
\* of the clocks, and truncation.
TemporalFunction(f, args, clock) ==
  LET type == CHOOSE t \in Constructors : f = t \/ \E k \in DOMAIN Dotted[t] : f = Dotted[t][k]
      part == IF f = type THEN "" ELSE CHOOSE k \in DOMAIN Dotted[type] : f = Dotted[type][k]
  IN  IF part = "" THEN ConstructTemporal(type, args, clock.statement)
      ELSE IF part = "truncate" THEN TruncateFunction(type, args)
      ELSE Current(ValueType[type], args, clock[part])

DurationFunction(f, args) ==
  CASE f = "duration"           -> ConstructDuration(args[1])
    [] f = "duration.between"   -> DurationBetween(args[1], args[2])
    [] f = "duration.inMonths"  -> DurationInMonths(args[1], args[2])
    [] f = "duration.inDays"    -> DurationInDays(args[1], args[2])
    [] f = "duration.inSeconds" -> DurationInSeconds(args[1], args[2])

-----------------------------------------------------------------------------
(* One result for every function and number of arguments; a random number  *)
(* is one of the halves between 0 and 1.                                   *)

RandomUnitDouble == D(1)

NumberFunction(f, v) ==
  CASE f = "abs" -> Abs(v) [] f = "ceil" -> Ceil(v) [] f = "floor" -> Floor(v)
    [] f = "sqrt" -> Sqrt(v) [] f = "sign" -> Sign(v)

EntityFunction(f, v, g) ==
  CASE f = "id" -> Id(v) [] f = "labels" -> Labels(v, g) [] f = "type" -> TypeOf(v, g)
    [] f = "startNode" -> EndNode(v, g, "src") [] f = "endNode" -> EndNode(v, g, "dst")
    [] f = "keys" -> Keys(v, g) [] f = "properties" -> Properties(v, g)
    [] f = "nodes" -> Nodes(v) [] f = "relationships" -> Relationships(v) [] f = "length" -> Length(v)

ListFunction(f, args) ==
  CASE f = "size" -> Size(args[1]) [] f = "head" -> HeadOf(args[1]) [] f = "last" -> Last(args[1])
    [] f = "tail" -> TailOf(args[1]) [] f = "isEmpty" -> IsEmpty(args[1])
    [] f = "coalesce" -> Coalesce(args) [] f = "range" -> RangeOf(args) [] f = "reverse" -> Reverse(args[1])

StringFunction(f, args) ==
  CASE f = "split" -> Split(args[1], args[2]) [] f = "substring" -> Substring(args)
    [] f = "toLower" -> OfString(args[1], LowerAscii) [] f = "toUpper" -> OfString(args[1], UpperAscii)
    [] f = "trim" -> OfString(args[1], TrimAscii)
    [] f = "toString" -> ToStringValue(args[1]) [] f = "toInteger" -> ToInteger(args[1])
    [] f = "toFloat" -> ToFloat(args[1]) [] f = "toBoolean" -> ToBoolean(args[1])

NumberFunctions == {"abs", "ceil", "floor", "sqrt", "sign"}
EntityFunctions == {"id", "labels", "type", "startNode", "endNode", "keys", "properties", "nodes", "relationships", "length"}
ListFunctions == {"size", "head", "last", "tail", "isEmpty", "coalesce", "range", "reverse"}
StringFunctions == {"split", "substring", "toLower", "toUpper", "trim", "toString", "toInteger", "toFloat", "toBoolean"}
DurationFunctions == {"duration", "duration.between", "duration.inMonths", "duration.inDays", "duration.inSeconds"}

EvaluateBuiltinFunction(f, args, clock, g) ==
  IF f \in AggregateFunctions \/ Len(args) \notin ArgumentCounts(f) THEN Invalid
  ELSE IF f \in NumberFunctions THEN NumberFunction(f, args[1])
  ELSE IF f \in EntityFunctions THEN EntityFunction(f, args[1], g)
  ELSE IF f \in ListFunctions THEN ListFunction(f, args)
  ELSE IF f \in StringFunctions THEN StringFunction(f, args)
  ELSE IF f \in DurationFunctions THEN DurationFunction(f, args)
  ELSE IF f = "datetime.fromepoch" THEN ConstructDateTimeFromEpoch(args[1], args[2])
  ELSE IF f = "datetime.fromepochmillis" THEN ConstructDateTimeFromEpochMillis(args[1])
  ELSE IF f = "rand" THEN RandomUnitDouble
  ELSE TemporalFunction(f, args, clock)
=============================================================================
