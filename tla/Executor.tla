------------------------------ MODULE Executor -----------------------------
(***************************************************************************)
(* The execution of a physical plan: a tree of operators that pull rows    *)
(* from their sources, one at a time.  A plan node n has its operator      *)
(* n.op, its sources n.kids and the operator's data.  A cursor is an       *)
(* operator being executed:                                                *)
(*   arg     the argument row; the right side of a correlated operator     *)
(*           gets the row of the left side,                                *)
(*   kids    the cursors of its sources,                                   *)
(*   pend    the rows it has made and not handed on yet,                   *)
(*   mem     what it remembers, <<>> before it has started,                *)
(*   left    the row it makes rows from, if any,                           *)
(*   done    it asks its sources for nothing more.                         *)
(* Pull is one call of Next: it gives the row, <<>> at the end or Invalid  *)
(* for an error, the cursor and the graph after it, since any operator     *)
(* below may write.  An operator that reads the graph reads it when it is  *)
(* first asked; where cx.live holds it reads again each time, as an        *)
(* iterator does that sees the writes of its own transaction.              *)
(***************************************************************************)
EXTENDS Procedures

Leaves == {"Argument", "AllNodeScan", "NodeByLabelScan", "NodeIndexSeek", "NodeIndexRangeSeek", "NodeByIdSeek",
           "RelationshipTypeScan", "RelationshipIndexSeek", "RelationshipIndexRangeSeek", "RelationshipByIdSeek"}
Correlated == {"Apply", "OptionalApply", "SemiApply", "AntiSemiApply", "LetSemiApply", "SelectOrSemiApply",
               "RollUpApply", "Merge"}
HashJoins == {"NodeHashJoin", "ValueHashJoin"}
LoopJoins == {"CartesianProduct", "PredicateJoin"}
Joins == HashJoins \cup LoopJoins \cup {"LeftOuterHashJoin"}
Unions == {"UnionAll", "UnionDistinct"}

RestrictRow(row, ns) == [n \in DOMAIN row \cap ns |-> row[n]]
Argument(n, arg) == <<RestrictRow(arg, n.vars)>>

\* The operators that make several rows out of one by reading the graph.
Readers == {"Expand", "ExpandInto", "VarExpand", "ShortestVarExpand", "PruningVarExpand", "OptionalExpand", "ProjectEndpoints"}
ReadRows(n, row, cx) ==
  CASE n.op = "Argument"                   -> Argument(n, row)
    [] n.op = "AllNodeScan"                -> AllNodeScan(n, row, cx)
    [] n.op = "NodeByLabelScan"            -> NodeByLabelScan(n, row, cx)
    [] n.op = "NodeIndexSeek"              -> NodeIndexSeek(n, row, cx)
    [] n.op = "NodeIndexRangeSeek"         -> NodeIndexRangeSeek(n, row, cx)
    [] n.op = "NodeByIdSeek"               -> NodeByIdSeek(n, row, cx)
    [] n.op = "RelationshipTypeScan"       -> RelationshipTypeScan(n, row, cx)
    [] n.op = "RelationshipIndexSeek"      -> RelationshipIndexSeek(n, row, cx)
    [] n.op = "RelationshipIndexRangeSeek" -> RelationshipIndexRangeSeek(n, row, cx)
    [] n.op = "RelationshipByIdSeek"       -> RelationshipByIdSeek(n, row, cx)
    [] n.op = "Expand"                     -> FixedExpand(n, row, cx)
    [] n.op = "ExpandInto"                 -> ExpandInto(n, row, cx)
    [] n.op = "VarExpand"                  -> VarExpand(n, row, cx)
    [] n.op = "ShortestVarExpand"          -> ShortestVarExpand(n, row, cx)
    [] n.op = "PruningVarExpand"           -> PruningVarExpand(n, row, cx)
    [] n.op = "OptionalExpand"             -> OptionalExpand(n, row, cx)
    [] n.op = "ProjectEndpoints"           -> ProjectEndpoints(n, row, cx)

\* The rows of a reader that it has not handed on: those after the last.
Unread(rows, read) ==
  IF read = <<>> \/ ~\E i \in DOMAIN rows : rows[i] = read[Len(read)] THEN SelectSeq(rows, LAMBDA r : \A i \in DOMAIN read : read[i] # r)
  ELSE LET last == CHOOSE i \in DOMAIN rows : rows[i] = read[Len(read)] IN SubSeq(rows, last + 1, Len(rows))

RECURSIVE Open(_, _)
Open(n, arg) ==
  LET kids == IF n.op \in Correlated THEN 1 .. 1 ELSE DOMAIN n.kids
  IN  [n |-> n, arg |-> arg, kids |-> [i \in kids |-> Open(n.kids[i], arg)], pend |-> <<>>, mem |-> <<>>,
       left |-> <<>>, right |-> <<>>, done |-> FALSE]

-----------------------------------------------------------------------------
(* Unary operators.  Before asks nothing of the source, OnRow takes a row  *)
(* of it, AtEnd its end; each gives the rows to hand on (pend), the memory *)
(* and the graph.                                                          *)

Next_(pend, mem, g) == [pend |-> pend, mem |-> mem, g |-> g, done |-> FALSE]
Last_(pend, mem, g) == [Next_(pend, mem, g) EXCEPT !.done = TRUE]
Raise(g) == Last_(<<Invalid>>, <<>>, g)

Project(items, row, cx) ==
  LET vs == EvaluateGroupingValues(items, row, cx)
      aliases == {items[i].alias : i \in DOMAIN items}
  IN  IF AnyError(vs) THEN <<Invalid>>
      ELSE <<[a \in aliases |-> vs[CHOOSE i \in DOMAIN items : items[i].alias = a]]>>

Unwind(n, row, cx) ==
  LET v == Ev(n.x, row, cx)
      items == IF IsNull(v) THEN <<>> ELSE IF IsList(v) THEN v.list ELSE <<v>>
  IN  IF IsError(v) THEN <<Invalid>> ELSE [i \in DOMAIN items |-> Bind(row, n.var, items[i])]

AssertIsNode(n, row) ==
  IF \A i \in n.vars : Type(Lookup(row, i)) \in {"null", "node"} THEN <<row>> ELSE <<Invalid>>

\* What a count still allows; <<>> until it is known.
Counted(c, row, cx) == IF c.mem = <<>> THEN EvaluatePaginationCount(c.n.x, row, cx) ELSE c.mem[1]

SortedRows(order, entries) == RowsOf(SortEntries(order, entries))
GroupAt(mem, key) == CHOOSE i \in DOMAIN mem : SameKey(mem[i].key, key)
HasGroup(mem, key) == \E i \in DOMAIN mem : SameKey(mem[i].key, key)
GroupRows(n, groups) == LET Row(group) == GroupRow(n, group) IN Each(groups, Row)

\* Skip and Limit know their count before the first row, unless it needs one.
StartCount(c, cx) ==
  LET count == EvaluatePaginationCount(c.n.x, <<>>, cx)
  IN  IF c.mem # <<>> \/ c.n.needsRow \/ (c.n.op = "Limit" /\ c.n.exhaust) THEN Next_(<<>>, c.mem, cx.g)
      ELSE IF IsError(count) THEN Raise(cx.g)
      ELSE IF c.n.op = "Limit" /\ count = Int_(0) THEN Last_(<<>>, <<>>, cx.g)
      ELSE Next_(<<>>, <<count>>, cx.g)

Filter(c, row, cx) == Next_(AllTrue(<<c.n.x>>, row, cx), c.mem, cx.g)
Projection(c, row, cx) == Next_(Project(c.n.items, row, cx), c.mem, cx.g)
ProduceResults(c, row, cx) == Next_(<<RestrictRow(row, c.n.cols)>>, c.mem, cx.g)
StreamingWrite(c, row, cx) == LET w == ExecuteStreamingWrite(c.n, row, cx) IN Next_(w.row, c.mem, w.g)

Skip(c, row, cx) ==
  LET count == Counted(c, row, cx)
  IN  IF IsError(count) THEN Raise(cx.g)
      ELSE IF count.int > 0 THEN Next_(<<>>, <<Int_(count.int - 1)>>, cx.g)
      ELSE Next_(<<row>>, <<count>>, cx.g)

\* A limit over writes lets all of them happen: it reads its source to the
\* end before it hands on a row.
Limit(c, row, cx) ==
  LET count == Counted(c, row, cx)
  IN  IF c.n.exhaust THEN Next_(<<>>, Append(c.mem, row), cx.g)
      ELSE IF IsError(count) THEN Raise(cx.g)
      ELSE IF count.int = 0 THEN Last_(<<>>, <<>>, cx.g)
      ELSE [Next_(<<row>>, <<Int_(count.int - 1)>>, cx.g) EXCEPT !.done = count.int = 1]
LimitEnd(c, cx) ==
  LET limit == EvaluatePaginationCount(c.n.x, IF c.n.needsRow THEN c.mem[1] ELSE <<>>, cx)
  IN  IF ~c.n.exhaust \/ (c.mem = <<>> /\ c.n.needsRow) THEN Last_(<<>>, <<>>, cx.g)
      ELSE IF IsError(limit) THEN Raise(cx.g)
      ELSE Last_(SubSeq(c.mem, 1, IF limit.int < Len(c.mem) THEN limit.int ELSE Len(c.mem)), <<>>, cx.g)

\* A barrier lets nothing through before its source has ended.
WriteBarrier(c, row, cx) == Next_(<<>>, Append(c.mem, row), cx.g)
WriteBarrierEnd(c, cx) == Last_(c.mem, <<>>, cx.g)

OrderedDistinct(c, row, cx) ==
  LET key == EvaluateGroupingValues(c.n.items, row, cx)
  IN  IF AnyError(key) THEN Raise(cx.g)
      ELSE IF c.mem # <<>> /\ SameKey(c.mem, key) THEN Next_(<<>>, c.mem, cx.g)
      ELSE Next_(Project(c.n.items, row, cx), key, cx.g)
HashDistinct(c, row, cx) ==
  LET key == EvaluateGroupingValues(c.n.items, row, cx)
  IN  IF AnyError(key) THEN Raise(cx.g)
      ELSE IF HasGroup(c.mem, key) THEN Next_(<<>>, c.mem, cx.g)
      ELSE Next_(<<>>, Append(c.mem, [key |-> key, row |-> Project(c.n.items, row, cx)[1]]), cx.g)
HashDistinctEnd(c, cx) == Last_(RowsOf(c.mem), <<>>, cx.g)

HashAggregation(c, row, cx) ==
  LET key == EvaluateGroupingValues(c.n.items, row, cx)
  IN  IF AnyError(key) THEN Raise(cx.g)
      ELSE IF HasGroup(c.mem, key)
      THEN Next_(<<>>, [c.mem EXCEPT ![GroupAt(c.mem, key)] = AddToGroup(@, c.n, row, cx)], cx.g)
      ELSE Next_(<<>>, Append(c.mem, AddToGroup(NewGroup(c.n, key), c.n, row, cx)), cx.g)
\* Without grouping items there is a group even of no rows.
HashAggregationEnd(c, cx) ==
  Last_(GroupRows(c.n, IF c.mem = <<>> /\ c.n.items = <<>> THEN <<NewGroup(c.n, <<>>)>> ELSE c.mem), <<>>, cx.g)

\* The row that ends a group is added to its own when the next one is asked
\* for.
StartOrderedAggregation(c, cx) ==
  IF c.mem = <<>> \/ c.mem.row = <<>> THEN Next_(<<>>, c.mem, cx.g)
  ELSE Next_(<<>>, [c.mem EXCEPT !.row = <<>>, !.group = AddToGroup(@, c.n, c.mem.row[1], cx)], cx.g)
OrderedAggregation(c, row, cx) ==
  LET key == EvaluateGroupingValues(c.n.items, row, cx)
  IN  IF AnyError(key) THEN Raise(cx.g)
      ELSE IF c.mem = <<>> THEN Next_(<<>>, [group |-> AddToGroup(NewGroup(c.n, key), c.n, row, cx), row |-> <<>>], cx.g)
      ELSE IF SameKey(c.mem.group.key, key) THEN Next_(<<>>, [c.mem EXCEPT !.group = AddToGroup(@, c.n, row, cx)], cx.g)
      ELSE Next_(GroupRow(c.n, c.mem.group), [group |-> NewGroup(c.n, key), row |-> <<row>>], cx.g)
OrderedAggregationEnd(c, cx) == Last_(IF c.mem = <<>> THEN <<>> ELSE GroupRow(c.n, c.mem.group), <<>>, cx.g)

FullSort(c, row, cx) ==
  LET entry == SortEntry(c.n.order, row, cx)
  IN  IF AnyError(entry.keys) THEN Raise(cx.g) ELSE Next_(<<>>, Append(c.mem, entry), cx.g)
SortEnd(c, cx) == Last_(SortedRows(c.n.order, c.mem), <<>>, cx.g)

\* The source is ordered by the first keys: a run of rows that agree on them
\* is sorted on its own.
SameRun(c, run, entry) == SortKeysHaveSamePrefix(run[1].keys, entry.keys, c.n.prefix)
PartialSort(c, row, cx) ==
  LET entry == SortEntry(c.n.order, row, cx)
  IN  IF AnyError(entry.keys) THEN Raise(cx.g)
      ELSE IF c.mem = <<>> \/ SameRun(c, c.mem, entry) THEN Next_(<<>>, Append(c.mem, entry), cx.g)
      ELSE Next_(SortedRows(c.n.order, c.mem), <<entry>>, cx.g)

StartTopN(c, cx) ==
  LET count == EvaluatePaginationCount(c.n.x, <<>>, cx)
  IN  IF c.mem # <<>> THEN Next_(<<>>, c.mem, cx.g)
      ELSE IF IsError(count) THEN Raise(cx.g)
      ELSE IF count.int = 0 THEN Last_(<<>>, <<>>, cx.g)
      ELSE Next_(<<>>, [left |-> count.int, run |-> <<>>], cx.g)
TopN(c, row, cx) ==
  LET entry == SortEntry(c.n.order, row, cx)
  IN  IF AnyError(entry.keys) THEN Raise(cx.g)
      ELSE Next_(<<>>, [c.mem EXCEPT !.run = Retain(c.n.order, @, c.mem.left, entry)], cx.g)
PartialTopN(c, row, cx) ==
  LET entry == SortEntry(c.n.order, row, cx)
      left == c.mem.left - Len(c.mem.run)
  IN  IF AnyError(entry.keys) THEN Raise(cx.g)
      ELSE IF c.mem.run = <<>> \/ SameRun(c, c.mem.run, entry)
      THEN Next_(<<>>, [c.mem EXCEPT !.run = Retain(c.n.order, @, c.mem.left, entry)], cx.g)
      ELSE [Next_(RowsOf(c.mem.run), [left |-> left, run |-> <<entry>>], cx.g) EXCEPT !.done = left = 0]
TopNEnd(c, cx) == Last_(RowsOf(c.mem.run), <<>>, cx.g)

\* DELETE reads all its rows first, and deletes what they name at once.
Delete(c, row, cx) ==
  LET vs == EvAll(c.n.xs, row, cx)
  IN  IF AnyError(vs) \/ \E i \in DOMAIN vs : ~Deletable(vs[i]) THEN Raise(cx.g)
      ELSE Next_(<<>>, Append(c.mem, [row |-> row, vs |-> vs]), cx.g)
DeleteEnd(c, cx) ==
  LET k == Len(c.n.xs)
      named == [i \in 1 .. Len(c.mem) * k |-> c.mem[((i - 1) \div k) + 1].vs[((i - 1) % k) + 1]]
      after == DeleteEntities(named, c.n.op = "DetachDelete", cx.g)
  IN  IF after = Invalid THEN Raise(cx.g) ELSE Last_(RowsOf(c.mem), <<>>, after)

\* The records of a call, each with the columns it yields.
ProcedureCall(c, row, cx) ==
  LET call == ExecuteProcedure(c.n, row, cx)
      g == [cx.g EXCEPT !.requests = @ \o call.requests]
      Yielded(rec) == \A i \in DOMAIN c.n.yields : c.n.yields[i].field \in DOMAIN rec
      Row(rec) == LET R[i \in 0 .. Len(c.n.yields)] ==
                        IF i = 0 THEN row ELSE Bind(R[i - 1], c.n.yields[i].var, rec[c.n.yields[i].field]) IN R[Len(c.n.yields)]
  IN  IF call.failed \/ \E i \in DOMAIN call.records : ~Yielded(call.records[i]) THEN Raise(g)
      ELSE Next_([i \in DOMAIN call.records |-> Row(call.records[i])], c.mem, g)

Before(c, cx) ==
  CASE c.n.op \in {"Skip", "Limit"}       -> StartCount(c, cx)
    [] c.n.op \in {"TopN", "PartialTopN"} -> StartTopN(c, cx)
    [] c.n.op = "OrderedAggregation"      -> StartOrderedAggregation(c, cx)
    [] OTHER                              -> Next_(<<>>, c.mem, cx.g)

OnRow(c, row, cx) ==
  CASE c.n.op = "Filter"             -> Filter(c, row, cx)
    [] c.n.op = "Projection"         -> Projection(c, row, cx)
    [] c.n.op = "ProduceResults"     -> ProduceResults(c, row, cx)
    [] c.n.op = "PathBuild"          -> Next_(PathBuild(c.n, row, cx), c.mem, cx.g)
    [] c.n.op = "Unwind"             -> Next_(Unwind(c.n, row, cx), c.mem, cx.g)
    [] c.n.op = "AssertIsNode"       -> Next_(AssertIsNode(c.n, row), c.mem, cx.g)
    [] c.n.op \in StreamingWrites    -> StreamingWrite(c, row, cx)
    [] c.n.op = "ProcedureCall"      -> ProcedureCall(c, row, cx)
    [] c.n.op = "Skip"               -> Skip(c, row, cx)
    [] c.n.op = "Limit"              -> Limit(c, row, cx)
    [] c.n.op = "WriteBarrier"       -> WriteBarrier(c, row, cx)
    [] c.n.op = "OrderedDistinct"    -> OrderedDistinct(c, row, cx)
    [] c.n.op = "HashDistinct"       -> HashDistinct(c, row, cx)
    [] c.n.op = "HashAggregation"    -> HashAggregation(c, row, cx)
    [] c.n.op = "OrderedAggregation" -> OrderedAggregation(c, row, cx)
    [] c.n.op = "FullSort"           -> FullSort(c, row, cx)
    [] c.n.op = "PartialSort"        -> PartialSort(c, row, cx)
    [] c.n.op = "TopN"               -> TopN(c, row, cx)
    [] c.n.op = "PartialTopN"        -> PartialTopN(c, row, cx)
    [] c.n.op \in {"Delete", "DetachDelete"} -> Delete(c, row, cx)

AtEnd(c, cx) ==
  CASE c.n.op = "WriteBarrier"               -> WriteBarrierEnd(c, cx)
    [] c.n.op = "Limit"                      -> LimitEnd(c, cx)
    [] c.n.op = "HashDistinct"               -> HashDistinctEnd(c, cx)
    [] c.n.op = "HashAggregation"            -> HashAggregationEnd(c, cx)
    [] c.n.op = "OrderedAggregation"         -> OrderedAggregationEnd(c, cx)
    [] c.n.op \in {"FullSort", "PartialSort"} -> SortEnd(c, cx)
    [] c.n.op \in {"TopN", "PartialTopN"}    -> TopNEnd(c, cx)
    [] c.n.op \in {"Delete", "DetachDelete"} -> DeleteEnd(c, cx)
    [] OTHER                                 -> Last_(<<>>, <<>>, cx.g)

-----------------------------------------------------------------------------
(* Joins.                                                                  *)

\* One row out of two, if they agree on the columns they share.
MergeMappings(l, r) ==
  IF \A n \in DOMAIN l \cap DOMAIN r : CellEquals(l[n], r[n]) THEN <<Override(r, l)>> ELSE <<>>

\* The key of a row in a join, <<>> where a part of it is null.
JoinKey(n, side, row, cx) ==
  LET vs == IF n.op = "ValueHashJoin"
            THEN [i \in DOMAIN n.keys |-> Ev(IF side = 1 THEN n.keys[i].l ELSE n.keys[i].r, row, cx)]
            ELSE [i \in DOMAIN n.keys |-> Lookup(row, n.keys[i])]
  IN  IF AnyError(vs) THEN <<Invalid>> ELSE IF \E i \in DOMAIN vs : IsNull(vs[i]) THEN <<>> ELSE vs
\* The side that is read first, as a whole.
BuildSide(n) == IF n.op = "LeftOuterHashJoin" THEN 2 ELSE n.build

\* A row of the other side with one that was read first, the left one first.
Merged(c, row, b) == IF BuildSide(c.n) = 1 THEN MergeMappings(b, row) ELSE MergeMappings(row, b)
PredicatesMatch(c, rows, cx) == IF rows = <<>> THEN <<>> ELSE AllTrue(c.n.preds, rows[1], cx)
\* F of the rows read first that have the row's key.
Bucket(c, row, cx, F(_)) ==
  LET key == JoinKey(c.n, 3 - BuildSide(c.n), row, cx)
      Same(e) == IF SameKey(key, e.key) THEN F(e.row) ELSE <<>>
  IN  IF key = <<>> THEN <<>> ELSE IF AnyError(key) THEN <<Invalid>> ELSE Each(c.mem.rows, Same)

CartesianProduct(c, row, cx) == LET F(b) == Merged(c, row, b) IN Each(RowsOf(c.mem.rows), F)
PredicateJoin(c, row, cx) == LET F(b) == PredicatesMatch(c, Merged(c, row, b), cx) IN Each(RowsOf(c.mem.rows), F)
NodeHashJoin(c, row, cx) == LET F(b) == Merged(c, row, b) IN Bucket(c, row, cx, F)
\* The predicates the keys stem from are asked again of each pair.
ValueHashJoin(c, row, cx) == LET F(b) == PredicatesMatch(c, Merged(c, row, b), cx) IN Bucket(c, row, cx, F)
LeftOuterHashJoin(c, row, cx) ==
  LET found == NodeHashJoin(c, row, cx) IN IF found = <<>> THEN <<WithNulls(row, c.n.nullable)>> ELSE found
\* The rows a row of the other side makes with the rows read first.
JoinRows(c, row, cx) ==
  CASE c.n.op = "CartesianProduct"  -> CartesianProduct(c, row, cx)
    [] c.n.op = "PredicateJoin"     -> PredicateJoin(c, row, cx)
    [] c.n.op = "NodeHashJoin"      -> NodeHashJoin(c, row, cx)
    [] c.n.op = "ValueHashJoin"     -> ValueHashJoin(c, row, cx)
    [] c.n.op = "LeftOuterHashJoin" -> LeftOuterHashJoin(c, row, cx)

\* The column of a union's row that a side's column becomes.
UnionRow(n, side, row) ==
  LET Of(o) == CHOOSE m \in n.mappings : m.out = o
  IN  [o \in {m.out : m \in n.mappings} |-> row[IF side = 1 THEN Of(o).l ELSE Of(o).r]]
SameRow(l, r) == \A o \in DOMAIN l : ValueEqual(l[o], r[o])

-----------------------------------------------------------------------------

Given(out, c, g) == [out |-> out, c |-> c, g |-> g]
Finished(c, g) == Given(<<>>, [c EXCEPT !.done = TRUE, !.pend = <<>>], g)

RECURSIVE Pull(_, _)
RECURSIVE Drain(_, _)
RECURSIVE PullOther(_, _)
\* The rows of a cursor to its end.
Drain(c, cx) ==
  LET p == Pull(c, cx)
  IN  IF p.out = <<>> THEN [rows |-> <<>>, g |-> p.g]
      ELSE IF IsError(p.out[1]) THEN [rows |-> p.out, g |-> p.g]
      ELSE LET rest == Drain(p.c, [cx EXCEPT !.g = p.g]) IN [rows |-> p.out \o rest.rows, g |-> rest.g]

\* A row has the columns of the plan; a leaf adds them to the argument's.
OutputRow(n, out) ==
  IF out = <<>> \/ n.op \in Leaves THEN out ELSE IF IsError(out[1]) THEN out ELSE <<RestrictRow(out[1], n.cols)>>
Pull(c, cx) ==
  IF c.pend # <<>>
  THEN IF IsError(Head(c.pend)) THEN Given(<<Invalid>>, [c EXCEPT !.pend = <<>>, !.done = TRUE], cx.g)
       ELSE Given(OutputRow(c.n, <<Head(c.pend)>>), [c EXCEPT !.pend = Tail(@)], cx.g)
  ELSE IF c.done THEN Finished(c, cx.g)
  ELSE LET p == PullOther(c, cx) IN [p EXCEPT !.out = OutputRow(c.n, @)]

\* The source's next row, handed to F; at the end what End gives.
FromSource(c, i, cx, F(_, _, _), End(_, _)) ==
  LET p == Pull(c.kids[i], cx)
      here == [c EXCEPT !.kids[i] = p.c]
      now == [cx EXCEPT !.g = p.g]
  IN  IF p.out = <<>> THEN End(here, now)
      ELSE IF IsError(p.out[1]) THEN Given(<<Invalid>>, [here EXCEPT !.done = TRUE], p.g)
      ELSE F(here, p.out[1], now)
Continue(c, s, cx) == Pull([c EXCEPT !.pend = s.pend, !.mem = s.mem, !.done = s.done], [cx EXCEPT !.g = s.g])
Ended(c, cx) == Finished(c, cx.g)

PullReader(c, cx) ==
  LET rows == ReadRows(c.n, c.left[1], cx)
      unread == Unread(rows, c.mem)
      isLeaf == c.n.op \in Leaves
      Start(here, row, now) == Pull([here EXCEPT !.left = <<row>>, !.mem = <<>>], now)
      Finish == IF isLeaf THEN Finished(c, cx.g) ELSE Pull([c EXCEPT !.left = <<>>, !.mem = <<>>], cx)
  IN  IF c.left = <<>> THEN IF isLeaf THEN Pull([c EXCEPT !.left = <<c.arg>>], cx) ELSE FromSource(c, 1, cx, Start, Ended)
      ELSE IF ~cx.live THEN Pull([c EXCEPT !.pend = rows, !.left = <<>>, !.done = isLeaf], cx)
      ELSE IF unread = <<>> THEN Finish
      ELSE IF IsError(unread[1]) THEN Given(<<Invalid>>, [c EXCEPT !.done = TRUE], cx.g)
      ELSE Given(<<unread[1]>>, [c EXCEPT !.mem = Append(@, unread[1])], cx.g)

PullUnary(c, cx) ==
  LET before == Before(c, cx)
      ready == [c EXCEPT !.mem = before.mem]
      Take(here, row, now) == Continue(here, OnRow(here, row, now), now)
      Stop(here, now) == Continue(here, [AtEnd(here, now) EXCEPT !.done = TRUE], now)
  IN  IF before.done THEN Continue(c, before, cx) ELSE FromSource(ready, 1, cx, Take, Stop)

PullJoin(c, cx) ==
  LET side == BuildSide(c.n)
      built == Drain(c.kids[side], cx)
      Entry(row) == IF c.n.op \in LoopJoins THEN <<[key |-> <<>>, row |-> row]>>
                    ELSE LET key == JoinKey(c.n, side, row, [cx EXCEPT !.g = built.g])
                         IN  IF key = <<>> THEN <<>> ELSE IF AnyError(key) THEN <<Invalid>> ELSE <<[key |-> key, row |-> row]>>
      entries == Each(built.rows, Entry)
      Probe(here, row, now) == Pull([here EXCEPT !.pend = JoinRows(here, row, now)], now)
  IN  IF c.mem # <<>> THEN FromSource(c, 3 - side, cx, Probe, Ended)
      ELSE IF AnyError(built.rows) \/ AnyError(entries) THEN Given(<<Invalid>>, [c EXCEPT !.done = TRUE], built.g)
      ELSE IF c.n.op \in LoopJoins /\ entries = <<>> THEN Finished(c, built.g)
      ELSE Pull([c EXCEPT !.mem = [rows |-> entries]], [cx EXCEPT !.g = built.g])

PullUnion(c, cx) ==
  LET side == IF c.mem = <<>> THEN 1 ELSE c.mem.side
      seen == IF c.mem = <<>> THEN <<>> ELSE c.mem.seen
      Take(here, row, now) ==
        LET out == UnionRow(c.n, side, row)
        IN  IF c.n.op = "UnionDistinct" /\ \E i \in DOMAIN seen : SameRow(seen[i], out) THEN Pull(here, now)
            ELSE Given(<<out>>, [here EXCEPT !.mem = [side |-> side, seen |-> Append(seen, out)]], now.g)
      Other(here, now) == IF side = 2 THEN Finished(here, now.g)
                          ELSE Pull([here EXCEPT !.mem = [side |-> 2, seen |-> seen]], now)
  IN  FromSource(c, side, cx, Take, Other)

\* Apply and OptionalApply stream the rows of the right side.
PullApply(c, cx) ==
  LET Start(here, row, now) == Pull([here EXCEPT !.left = <<row>>, !.right = <<Open(c.n.kids[2], row)>>, !.mem = <<>>], now)
      p == Pull(c.right[1], cx)
      now_ == [cx EXCEPT !.g = p.g]
      next == [c EXCEPT !.left = <<>>, !.right = <<>>]
      merged == MergeMappings(c.left[1], p.out[1])
  IN  IF c.left = <<>> THEN FromSource(c, 1, cx, Start, Ended)
      ELSE IF p.out = <<>>
      THEN IF c.n.op = "OptionalApply" /\ c.mem = <<>> THEN Given(<<WithNulls(c.left[1], c.n.nullable)>>, next, p.g) ELSE Pull(next, now_)
      ELSE IF IsError(p.out[1]) THEN Given(<<Invalid>>, [c EXCEPT !.done = TRUE], p.g)
      ELSE Pull([c EXCEPT !.right = <<p.c>>, !.mem = <<TRUE>>, !.pend = merged], now_)

\* The operators that only ask whether the right side has a row: the rows
\* handed on, given whether it has one.
SemiApply(row, exists) == IF exists THEN <<row>> ELSE <<>>
AntiSemiApply(row, exists) == IF exists THEN <<>> ELSE <<row>>
LetSemiApply(n, row, exists) == <<Bind(row, n.var, Bool(exists))>>
SelectOrSemiApply(n, row, exists) == IF exists # n.anti THEN <<row>> ELSE <<>>
PullSemi(c, cx) ==
  LET n == c.n
      Take(here, row, now) ==
        LET given == IF n.op = "SelectOrSemiApply" THEN Ev(n.x, row, now) ELSE Bool(FALSE)
            p == Pull(Open(n.kids[2], row), now)
            exists == p.out # <<>>
            out == CASE n.op = "SemiApply"         -> SemiApply(row, exists)
                     [] n.op = "AntiSemiApply"     -> AntiSemiApply(row, exists)
                     [] n.op = "LetSemiApply"      -> LetSemiApply(n, row, exists)
                     [] n.op = "SelectOrSemiApply" -> SelectOrSemiApply(n, row, exists)
        IN  IF PredicateFails(given) THEN Given(<<Invalid>>, [here EXCEPT !.done = TRUE], now.g)
            ELSE IF PredicateIsTrue(given) THEN Given(<<row>>, here, now.g)
            ELSE IF exists /\ IsError(p.out[1]) THEN Given(<<Invalid>>, [here EXCEPT !.done = TRUE], p.g)
            ELSE IF out = <<>> THEN Pull(here, [now EXCEPT !.g = p.g]) ELSE Given(out, here, p.g)
  IN  FromSource(c, 1, cx, Take, Ended)

PullRollUp(c, cx) ==
  LET Take(here, row, now) ==
        LET d == Drain(Open(c.n.kids[2], row), now)
        IN  IF AnyError(d.rows) THEN Given(<<Invalid>>, [here EXCEPT !.done = TRUE], d.g)
            ELSE Given(<<Bind(row, c.n.coll, List([i \in DOMAIN d.rows |-> d.rows[i][c.n.var]]))>>, here, d.g)
  IN  FromSource(c, 1, cx, Take, Ended)

\* Merge: for each row the matches, each changed as ON MATCH says while the
\* search goes on, or what is created; the rows are handed on at the end.
RECURSIVE MergeMatches(_, _, _, _)
MergeMatches(n, r, row, cx) ==
  LET p == Pull(r, cx)
      merged == MergeMappings(row, p.out[1])
      done == ExecuteMergeActions(n, TRUE, merged[1], [cx EXCEPT !.g = p.g])
  IN  IF p.out = <<>> THEN [rows |-> <<>>, g |-> p.g]
      ELSE IF IsError(p.out[1]) THEN [rows |-> <<Invalid>>, g |-> p.g]
      ELSE IF merged = <<>> THEN MergeMatches(n, p.c, row, [cx EXCEPT !.g = p.g])
      ELSE IF IsError(done.row[1]) THEN [rows |-> <<Invalid>>, g |-> done.g]
      ELSE LET rest == MergeMatches(n, p.c, row, [cx EXCEPT !.g = done.g])
           IN  [rows |-> done.row \o rest.rows, g |-> rest.g]
MergeCreate(n, row, cx) ==
  LET made == InSequence(n.creates, row, cx, ExecuteMergeCreate)
      set == ExecuteMergeActions(n, FALSE, made.row[1], [cx EXCEPT !.g = made.g])
  IN  IF IsError(made.row[1]) THEN [rows |-> <<Invalid>>, g |-> made.g] ELSE [rows |-> set.row, g |-> set.g]
\* The rows come from the source one by one: a match sees what earlier rows
\* created.
PullMerge(c, cx) ==
  LET Take(here, row, now) ==
        LET found == MergeMatches(c.n, Open(c.n.kids[2], row), row, now)
            all == IF found.rows = <<>> THEN MergeCreate(c.n, row, [now EXCEPT !.g = found.g]) ELSE found
        IN  IF AnyError(all.rows) THEN Given(<<Invalid>>, [here EXCEPT !.done = TRUE], all.g)
            ELSE Pull([here EXCEPT !.mem = @ \o all.rows], [now EXCEPT !.g = all.g])
      Emit(here, now) == Pull([here EXCEPT !.pend = here.mem, !.done = TRUE], now)
  IN  FromSource(c, 1, cx, Take, Emit)

PullOther(c, cx) ==
  CASE c.n.op \in Leaves \cup Readers -> PullReader(c, cx)
    [] c.n.op \in Joins -> PullJoin(c, cx)
    [] c.n.op \in Unions -> PullUnion(c, cx)
    [] c.n.op \in {"Apply", "OptionalApply"} -> PullApply(c, cx)
    [] c.n.op = "RollUpApply" -> PullRollUp(c, cx)
    [] c.n.op = "Merge" -> PullMerge(c, cx)
    [] c.n.op \in Correlated \ {"Apply", "OptionalApply", "RollUpApply", "Merge"} -> PullSemi(c, cx)
    [] OTHER -> PullUnary(c, cx)

\* A statement's rows: its columns, null where a row has none.
ResultRow(cols, row) == [n \in cols |-> IF n \in DOMAIN row THEN row[n] ELSE Null]
StartPhysicalPlan(plan, columns, cx) ==
  LET d == Drain(Open(plan, <<>>), cx)
      failed == AnyError(d.rows)
  IN  [failed |-> failed, g |-> d.g, rows |-> IF failed THEN <<>> ELSE [i \in DOMAIN d.rows |-> ResultRow(columns, d.rows[i])]]
=============================================================================
