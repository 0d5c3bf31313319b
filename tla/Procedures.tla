----------------------------- MODULE Procedures ----------------------------
(***************************************************************************)
(* CALL: the registry of the procedures, src/ast/builtin_procedure.cc, and *)
(* what calling one does, src/runtime/physical_executor_support.cc.        *)
(*                                                                         *)
(* g.session says where the statement runs: on the system database, where  *)
(* the graphs are managed, or on the named graph, with or without Raft.    *)
(* What a call asks of the graph manager or of the index catalog is        *)
(* appended to g.requests; session.management is what the manager, or the  *)
(* graph's Raft driver, answers.  Its numbers are unsigned.  A record maps *)
(* field names to values.                                                  *)
(***************************************************************************)
EXTENDS Writes

CONSTANT Int32Limit   \* 2^31, scaled down like IntLimit

Procedure(name, count, yields, readOnly, system) ==
  [name |-> name, count |-> count, yields |-> yields, readOnly |-> readOnly, system |-> system]
NodeFields == <<"node_id", "ip", "bolt_port", "raft_port", "is_leader", "is_learner">>
ChangeFields == <<"node_id", "role", "raft_index">>
StatusFields == <<"local_node_id", "leader_id", "term", "commit_index", "applied_index", "first_log", "last_log", "raft_state">>
GraphProcedures ==
  <<Procedure("db.labels", 0, <<"label">>, TRUE, FALSE),
    Procedure("db.propertyKeys", 0, <<"propertyKey">>, TRUE, FALSE),
    Procedure("db.relationshipTypes", 0, <<"relationshipType">>, TRUE, FALSE),
    Procedure("dbms.procedures", 0, <<"name", "signature", "description", "mode", "worksOnSystem">>, TRUE, FALSE),
    Procedure("db.index.createNodeIndex", 4, <<>>, FALSE, FALSE),
    Procedure("db.index.queryNodes", 2, <<"node">>, TRUE, FALSE),
    Procedure("db.index.rangeQueryNodes", 4, <<"node">>, TRUE, FALSE),
    Procedure("db.index.fulltext.createNodeIndex", 3, <<>>, FALSE, FALSE),
    Procedure("db.index.fulltext.queryNodes", 3, <<"node", "score">>, TRUE, FALSE),
    Procedure("db.index.vector.createNodeField", 3, <<>>, FALSE, FALSE),
    Procedure("db.index.vector.createNodeIndex", 4, <<>>, FALSE, FALSE),
    Procedure("db.index.vector.knnSearchNodes", 3, <<"node", "distance">>, TRUE, FALSE)>>
SystemProcedures ==
  <<Procedure("dbms.graph.createGraph", 1, <<>>, FALSE, TRUE),
    Procedure("dbms.graph.createGraphWithRaft", 2, <<>>, FALSE, TRUE),
    Procedure("dbms.graph.deleteGraph", 1, <<>>, FALSE, TRUE),
    Procedure("dbms.graph.clearGraph", 1, <<>>, FALSE, TRUE),
    Procedure("dbms.graph.listGraph", 0, <<"id", "name">>, TRUE, TRUE),
    Procedure("dbms.graph.getRaftNodeInfos", 1, NodeFields, TRUE, TRUE),
    Procedure("dbms.graph.addRaftNode", 2, ChangeFields, FALSE, TRUE),
    Procedure("dbms.graph.addRaftLearnerNode", 2, ChangeFields, FALSE, TRUE),
    Procedure("dbms.graph.promoteRaftLearnerNode", 2, ChangeFields, FALSE, TRUE),
    Procedure("dbms.graph.removeRaftNode", 2, ChangeFields, FALSE, TRUE),
    Procedure("dbms.graph.getRaftStatus", 1, NodeFields \o <<"reachable", "match_index", "next_index">> \o StatusFields, TRUE, TRUE),
    Procedure("dbms.graph.transferRaftLeader", 2, <<>>, FALSE, TRUE),
    Procedure("dbms.graph.demoteRaftNode", 2, ChangeFields, FALSE, TRUE),
    Procedure("dbms.graph.updateRaftNode", 2, ChangeFields, FALSE, TRUE)>>
BuiltinProcedures == GraphProcedures \o SystemProcedures
\* <<>> for an unknown name.  Case does not matter in names.
FindBuiltinProcedure(name) == LET Named(p) == p.name = name IN SelectSeq(BuiltinProcedures, Named)
FindBuiltinProcedureYield(p, field) == field \in {p.yields[i] : i \in DOMAIN p.yields}

-----------------------------------------------------------------------------
(* Arguments.                                                              *)

IsMap(v) == Is(v, "map")
RequireProcedurePositiveInt32(v) == IsInt(v) /\ v.int > 0 /\ v.int < Int32Limit
CheckedProcedureInt(v) == IsInt(v) /\ v.int >= -Int32Limit /\ v.int < Int32Limit
RequireProcedureStringList(v) == IsList(v) /\ \A i \in DOMAIN v.list : IsStr(v.list[i])
RequireProcedureFloatList(v) ==
  IsList(v) /\ \A i \in DOMAIN v.list : IsInt(v.list[i]) \/ (IsNumber(v.list[i]) /\ ~IsNaN(v.list[i]) /\ v.list[i] # Infinity)
Has(map, k, OK(_)) == k \in DOMAIN map /\ OK(map[k])
ProcedureOption(options, k, OK(_)) == k \in DOMAIN options.map => OK(options.map[k])
BoolOption(options, k) == LET OK(v) == Is(v, "bool") IN ProcedureOption(options, k, OK)
IntOption(options, k) == ProcedureOption(options, k, CheckedProcedureInt)
StringOption(options, k) == ProcedureOption(options, k, IsStr)
OptionOr(options, k, default) == IF k \in DOMAIN options.map THEN options.map[k] ELSE default

\* A member of a Raft group as a map.
MemberIsValid(v, graph) ==
  LET Positive(x) == IsInt(x) /\ x.int > 0
      Address(x) == IsStr(x) /\ x.str # <<>>
      Same(x) == IsStr(x) /\ x = graph
  IN  /\ IsMap(v) /\ Has(v.map, "node_id", Positive) /\ Has(v.map, "ip", Address)
      /\ Has(v.map, "bolt_port", RequireProcedurePositiveInt32) /\ Has(v.map, "raft_port", RequireProcedurePositiveInt32)
      /\ "graph" \in DOMAIN v.map => Same(v.map["graph"])
\* Adding or moving a member: whether it is a learner is not asked for.
ParseRaftMember(v, graph) == MemberIsValid(v, graph)
\* The first members name the graph, have different ids, and may be learners.
ParseRaftMembers(v, graph) ==
  /\ IsList(v) /\ v.list # <<>>
  /\ \A i \in DOMAIN v.list :
       /\ MemberIsValid(v.list[i], graph) /\ "graph" \in DOMAIN v.list[i].map
       /\ BoolOption(v.list[i], "is_learner")
       /\ \A j \in 1 .. (i - 1) : v.list[i].map["node_id"] # v.list[j].map["node_id"]
RequireRaftNodeId(v) == IsInt(v) /\ v.int > 0

-----------------------------------------------------------------------------
(* Results [records, requests], or NoCall where the call fails.            *)

NoCall == [records |-> <<>>, requests |-> <<>>, failed |-> TRUE]
Answer(records) == [records |-> records, requests |-> <<>>, failed |-> FALSE]
Ask(op, args, records) == [records |-> records, requests |-> <<[op |-> op, args |-> args]>>, failed |-> FALSE]
EmptyRecord == [f \in {} |-> Null]
Required(ok, result) == IF ok THEN result ELSE NoCall

\* Numbers of the manager that are too large for an integer fail the call.
Representable(rec) == \A f \in DOMAIN rec : IsInt(rec[f]) => rec[f].int < IntLimit
Answered(records) == IF \A i \in DOMAIN records : Representable(records[i]) THEN Answer(records) ELSE NoCall
\* A change is made before its record turns out not to be representable.
RaftChangeRecord(op, args, change) == [Ask(op, args, <<change>>) EXCEPT !.failed = ~Representable(change)]
RaftNodeRecords(nodes) == LET ids == Sorted(DOMAIN nodes) IN [i \in DOMAIN ids |-> Bind(nodes[ids[i]], "node_id", Int_(ids[i]))]
RaftStatusRecords(status) == [i \in DOMAIN status.nodes |-> Override(status.nodes[i], status.common)]

GraphRequest ==
  [f \in {"dbms.graph.createGraph", "dbms.graph.deleteGraph", "dbms.graph.clearGraph"} |->
     CASE f = "dbms.graph.createGraph" -> "CreateManagedGraph" [] f = "dbms.graph.deleteGraph" -> "DeleteManagedGraph"
       [] OTHER -> "ClearManagedGraph"]
MemberRequest ==
  [f \in {"dbms.graph.addRaftNode", "dbms.graph.addRaftLearnerNode", "dbms.graph.updateRaftNode"} |->
     CASE f = "dbms.graph.addRaftNode" -> "AddManagedRaftNode" [] f = "dbms.graph.addRaftLearnerNode" -> "AddManagedRaftLearnerNode"
       [] OTHER -> "UpdateManagedRaftNode"]
NodeRequest ==
  [f \in {"dbms.graph.promoteRaftLearnerNode", "dbms.graph.removeRaftNode", "dbms.graph.demoteRaftNode"} |->
     CASE f = "dbms.graph.promoteRaftLearnerNode" -> "PromoteManagedRaftLearnerNode"
       [] f = "dbms.graph.removeRaftNode" -> "RemoveManagedRaftNode" [] OTHER -> "DemoteManagedRaftNode"]

\* On the system database.
SystemProcedure(p, args, m) ==
  LET name == Len(args) > 0 /\ IsStr(args[1])
  IN  IF p.name \in DOMAIN GraphRequest THEN Required(name, Ask(GraphRequest[p.name], args, <<EmptyRecord>>))
      ELSE IF p.name \in DOMAIN MemberRequest
      THEN Required(name /\ ParseRaftMember(args[2], args[1]), RaftChangeRecord(MemberRequest[p.name], args, m.change))
      ELSE IF p.name \in DOMAIN NodeRequest
      THEN Required(name /\ RequireRaftNodeId(args[2]), RaftChangeRecord(NodeRequest[p.name], args, m.change))
      ELSE CASE p.name = "dbms.graph.createGraphWithRaft" ->
                  Required(name /\ ParseRaftMembers(args[2], args[1]), Ask("CreateManagedRaftGraph", args, <<EmptyRecord>>))
             [] p.name = "dbms.graph.transferRaftLeader" ->
                  Required(name /\ RequireRaftNodeId(args[2]), Ask("TransferManagedRaftLeader", args, <<EmptyRecord>>))
             [] p.name = "dbms.graph.listGraph" -> Answered(m.graphs)
             [] p.name = "dbms.graph.getRaftNodeInfos" -> Required(name, Answered(RaftNodeRecords(m.nodes)))
             [] p.name = "dbms.graph.getRaftStatus" -> Required(name, Answered(RaftStatusRecords(m.status)))
             [] OTHER -> NoCall

\* A property index by its name; there must be a ready one.
NodeRecords(ids) ==
  IF ids = <<-1>> THEN NoCall ELSE Answer([i \in DOMAIN ids |-> [f \in {"node"} |-> [node |-> ids[i]]]])
QueryNodes(args, cx) ==
  IF args[1] \notin DOMAIN cx.g.session.indexes THEN NoCall
  ELSE LET on == cx.g.session.indexes[args[1]] IN NodeRecords(QueryVertexByPropertyIndex({on[1]}, on[2], args[2], cx))
RangeQueryNodes(args, cx) ==
  LET Side(v, closed) == IF IsNull(v) THEN <<>> ELSE <<[v |-> v, closed |-> OptionOr(args[4], closed, True).bool]>>
  IN  IF ~IsMap(args[4]) THEN NoCall
      ELSE IF ~BoolOption(args[4], "left_closed") \/ ~BoolOption(args[4], "right_closed")
              \/ args[1] \notin DOMAIN cx.g.session.indexes THEN NoCall
      ELSE LET on == cx.g.session.indexes[args[1]]
               range == [lower |-> Side(args[2], "left_closed"), upper |-> Side(args[3], "right_closed")]
           IN  NodeRecords(QueryVertexByPropertyRange({on[1]}, on[2], range, cx))
\* The best hits [node, score] of a full-text or vector index.
SearchRecords(name, k, field, cx) ==
  IF name \notin DOMAIN cx.g.session.searches THEN NoCall
  ELSE LET hits == cx.g.session.searches[name]
           best == IF k < Len(hits) THEN SubSeq(hits, 1, k) ELSE hits
       IN  Answer([i \in DOMAIN best |-> [f \in {"node", field} |-> IF f = "node" THEN [node |-> best[i].node] ELSE best[i].score]])
QueryNodesByFullText(args, cx) ==
  IF IsStr(args[2]) /\ IsInt(args[3]) THEN IF args[3].int > 0 THEN SearchRecords(args[1], args[3].int, "score", cx) ELSE NoCall
  ELSE NoCall
KnnSearchNodes(args, cx) ==
  IF ~RequireProcedureFloatList(args[2]) \/ ~IsMap(args[3]) THEN NoCall
  ELSE IF ~IntOption(args[3], "top_k") \/ ~IntOption(args[3], "ef_search") THEN NoCall
  ELSE LET k == OptionOr(args[3], "top_k", Int_(10)).int
       IN  Required(k > 0 /\ OptionOr(args[3], "ef_search", Int_(200)).int > 0, SearchRecords(args[1], k, "distance", cx))

\* An index is created outside the transaction that asks for it.
CreateNodeIndex(args) ==
  Required(IsStr(args[2]) /\ RequireProcedureStringList(args[3]) /\ IF IsMap(args[4]) THEN BoolOption(args[4], "unique") ELSE FALSE,
           Ask("AddVertexPropertyIndex", args, <<EmptyRecord>>))
CreateNodeFullTextIndex(args) ==
  Required(RequireProcedureStringList(args[2]) /\ RequireProcedureStringList(args[3]),
           Ask("AddVertexFullTextIndex", args, <<EmptyRecord>>))
Dimensioned(options) ==
  IF IsMap(options) THEN "dimension" \in DOMAIN options.map /\ IntOption(options, "dimension") ELSE FALSE
CreateNodeVectorField(args) == Required(IsStr(args[2]) /\ Dimensioned(args[3]), Ask("AddVertexVectorField", args, <<EmptyRecord>>))
CreateNodeVectorIndex(args) ==
  Required(IsStr(args[2]) /\ IsStr(args[3]) /\ Dimensioned(args[4])
             /\ IF IsMap(args[4]) THEN /\ StringOption(args[4], "distance_type") /\ IntOption(args[4], "hnsw_m")
                                       /\ IntOption(args[4], "hnsw_ef_construction") ELSE FALSE,
           Ask("AddVertexVectorIndex", args, <<EmptyRecord>>))

\* The names in use, in order; of an empty type there is no record.
SortedRecords(ns, field) ==
  LET sorted == SortedNames(ns) IN Answer([i \in DOMAIN sorted |-> [f \in {field} |-> Str(NameText[sorted[i]])]])
UsedLabels(g) == UNION {g.labels[n] : n \in DOMAIN g.labels}
UsedTypes(g) == {g.rels[r].type : r \in DOMAIN g.rels} \ {""}
UsedKeys(g) == UNION {DOMAIN g.props[n] : n \in DOMAIN g.props} \cup UNION {DOMAIN g.rels[r].props : r \in DOMAIN g.rels}
\* The registry itself; signature and description are texts of no interest.
ProcedureRecords ==
  [i \in DOMAIN BuiltinProcedures |->
     LET p == BuiltinProcedures[i]
     IN  [name |-> Str(<<i>>), signature |-> Str(<<>>), description |-> Str(<<>>),
          mode |-> Bool(p.readOnly), worksOnSystem |-> Bool(p.system)]]

\* The graph's own Raft group is the only one it can be asked about.
Inspects(args, s) == IsStr(args[1]) /\ args[1] = s.graph /\ s.raft
GraphProcedure(p, args, cx) ==
  LET s == cx.g.session
  IN  CASE p.name = "db.labels"            -> SortedRecords(UsedLabels(cx.g), "label")
        [] p.name = "db.propertyKeys"      -> SortedRecords(UsedKeys(cx.g), "propertyKey")
        [] p.name = "db.relationshipTypes" -> SortedRecords(UsedTypes(cx.g), "relationshipType")
        [] p.name = "dbms.procedures"      -> Answer(ProcedureRecords)
        [] p.name = "dbms.graph.getRaftNodeInfos" -> Required(Inspects(args, s), Answered(RaftNodeRecords(s.management.nodes)))
        [] p.name = "dbms.graph.getRaftStatus"    -> Required(Inspects(args, s), Answered(RaftStatusRecords(s.management.status)))
        [] p.system                               -> NoCall
        [] ~p.system /\ ~IsStr(args[1])           -> NoCall
        [] p.name = "db.index.queryNodes"              -> QueryNodes(args, cx)
        [] p.name = "db.index.rangeQueryNodes"         -> RangeQueryNodes(args, cx)
        [] p.name = "db.index.fulltext.queryNodes"     -> QueryNodesByFullText(args, cx)
        [] p.name = "db.index.vector.knnSearchNodes"   -> KnnSearchNodes(args, cx)
        [] p.name = "db.index.createNodeIndex"          -> CreateNodeIndex(args)
        [] p.name = "db.index.fulltext.createNodeIndex" -> CreateNodeFullTextIndex(args)
        [] p.name = "db.index.vector.createNodeField"   -> CreateNodeVectorField(args)
        [] p.name = "db.index.vector.createNodeIndex"   -> CreateNodeVectorIndex(args)

\* n is the plan node, with the procedure, its arguments and [var, field] of
\* what it yields.
ExecuteProcedure(n, row, cx) ==
  LET found == FindBuiltinProcedure(n.proc)
      args == EvAll(n.xs, row, cx)
  IN  IF found = <<>> THEN NoCall
      ELSE IF Len(n.xs) # found[1].count \/ n.readOnly # found[1].readOnly
              \/ \E i \in DOMAIN n.yields : ~FindBuiltinProcedureYield(found[1], n.yields[i].field)
              \/ AnyError(args) THEN NoCall
      ELSE IF cx.g.session.system THEN SystemProcedure(found[1], args, cx.g.session.management)
      ELSE GraphProcedure(found[1], args, cx)
=============================================================================
