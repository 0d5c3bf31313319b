--------------------------- MODULE PropertyIndex ---------------------------
(* A property index of a graph that runs without raft, from its creation   *)
(* to its deletion: graphdb/graph_db_property_index.cc creates and deletes *)
(* it, the assistant strand builds it (graph_db_index_build.cc), and the   *)
(* transactions that write vertices keep it up to date (index.cc,          *)
(* transaction.cc), through a log of updates until it is published and     *)
(* directly from then on.                                                  *)
(*                                                                         *)
(* A vertex has the indexed label; its data is the value under the indexed *)
(* properties, or None.  What a mutex of GraphDB makes one step for the    *)
(* others is one step here: the commit of a transaction with pending       *)
(* updates, the publication and the deletion exclude each other.           *)
EXTENDS Integers, Sequences, FiniteSets

CONSTANTS Txn, Vid, Val, None,
          Same,        \* "this transaction has not written the vertex"
          MaxIndex,    \* how many indexes are created
          Scenarios

Values == Val \cup {None}

ASSUME ScenarioAssumption ==
    /\ None \notin Val /\ Same \notin Values /\ MaxIndex \in Nat
    /\ \A k \in DOMAIN Scenarios :
        /\ Scenarios[k].unique \in BOOLEAN
        /\ Scenarios[k].data \in [Vid -> Values]
        /\ Scenarios[k].writes \in [Txn -> Nat]
        /\ Scenarios[k].deletes \in Nat /\ Scenarios[k].restarts \in Nat

VARIABLES
    sc,
    data,     \* the committed values
    entries,  \* the column family index: <<index id, value, vertex>>
    wal,      \* the column family wal
    meta,     \* the stored metadata: the id and the state of the index, or id 0
    idx,      \* idx[i]: the object of index i
    cur,      \* the index that MetaInfo holds, 0 when there is none
    nextId,   \* next_index_id_
    strand,   \* the builds that were posted and are not done; the first one runs
    build,    \* where the running build is, its snapshot
    txn,      \* the transactions
    missed,   \* the vertices whose last commit the index was not told of in full
    left      \* how many more writes, deletions and restarts there may be

vars == <<sc, data, entries, wal, meta, idx, cur, nextId, strand, build, txn, missed, left>>
graph == <<data, entries, wal>>
catalog == <<meta, idx, cur, nextId>>

unique == Scenarios[sc].unique

NewIndex(state) == [state |-> state, deleted |-> FALSE, nextWal |-> 1, applied |-> 0]
NoBuild == [pc |-> "idle", snap |-> [v \in Vid |-> None], wal |-> 0]
Begun == [set |-> [v \in Vid |-> Same], batch |-> <<>>, pending |-> <<>>, told |-> {}]

Init ==
    /\ sc \in DOMAIN Scenarios
    /\ data = Scenarios[sc].data
    /\ entries = {} /\ wal = {}
    /\ meta = [id |-> 0, state |-> "NONE"]
    /\ idx = [i \in 1..MaxIndex |-> NewIndex("NONE")]
    /\ cur = 0 /\ nextId = 1
    /\ strand = <<>> /\ build = NoBuild
    /\ txn = [t \in Txn |-> Begun]
    /\ missed = {}
    /\ left = [writes |-> Scenarios[sc].writes, deletes |-> Scenarios[sc].deletes,
               restarts |-> Scenarios[sc].restarts]

-----------------------------------------------------------------------------
\* The entries of index i, the updates that reach it and what they do to it

Holders(es, i, x) == {v \in Vid : <<i, x, v>> \in es}
Without(es, i) == {e \in es : e[1] # i}
WalOf(i) == {w \in wal : w.index = i}
MaxWal(i) == CHOOSE m \in {0} \cup {w.id : w \in WalOf(i)} : \A w \in WalOf(i) : w.id <= m

Update(i, type, x, v) == [index |-> i, type |-> type, val |-> x, vid |-> v]
UpdatesFor(i, v, new, old) ==
    (IF old # None /\ old # new THEN <<Update(i, "Delete", old, v)>> ELSE <<>>)
    \o (IF new # None /\ old # new THEN <<Update(i, "Add", new, v)>> ELSE <<>>)

\* a Put or a Delete of a write batch: the key of a unique index has no vertex in it
Written(es, u) ==
    LET others == IF unique THEN {e \in es : e[1] # u.index \/ e[2] # u.val}
                  ELSE es \ {<<u.index, u.val, u.vid>>}
    IN  IF u.type = "Add" THEN others \cup {<<u.index, u.val, u.vid>>} ELSE others

WrittenAll(es, us) ==
    LET f[k \in 0..Len(us)] == IF k = 0 THEN es ELSE Written(f[k - 1], us[k])
    IN  f[Len(us)]

\* what a transaction reads of the index: its own batch over what is stored
View(t) == WrittenAll(entries, txn[t].batch)

\* UpdateIndexDirect: the checks that a unique index makes before it writes
Accepts(es, u) ==
    unique => LET held == Holders(es, u.index, u.val)
              IN  IF u.type = "Add" THEN held \subseteq {u.vid} ELSE held # {}

\* ... and the key locks they take
KeysFree(t, us) ==
    unique => \A o \in Txn \ {t} : \A k \in DOMAIN us : \A b \in DOMAIN txn[o].batch :
        <<us[k].index, us[k].val>> # <<txn[o].batch[b].index, txn[o].batch[b].val>>

\* ApplyBuildUpdate: a conflict throws; to delete what another vertex holds is to do nothing
BuildUpdate(acc, u) ==
    LET held == Holders(acc.es, u.index, u.val)
    IN  IF ~acc.ok THEN acc
        ELSE IF ~unique \/ held \subseteq {u.vid} THEN [acc EXCEPT !.es = Written(@, u)]
        ELSE [acc EXCEPT !.ok = u.type = "Delete"]

BuildUpdates(us) ==
    LET f[k \in 0..Len(us)] == IF k = 0 THEN [ok |-> TRUE, es |-> entries]
                               ELSE BuildUpdate(f[k - 1], us[k])
    IN  f[Len(us)]

\* the records of index i from the id n on, in the order of their ids
WalFrom(i, n) ==
    LET at(k) == {w \in WalOf(i) : w.id = k}
        ids == SelectSeq([k \in 1..MaxWal(i) |-> k], LAMBDA k : k >= n /\ at(k) # {})
    IN  [k \in DOMAIN ids |-> CHOOSE w \in at(ids[k]) : TRUE]

ToApply(i) == WalFrom(i, idx[i].applied + 1)

\* ApplyWAL
Applied(i) == BuildUpdates(ToApply(i))

-----------------------------------------------------------------------------
\* Transactions

Current(t, v) == IF txn[t].set[v] = Same THEN data[v] ELSE txn[t].set[v]

\* GetVertexPropertyIndexes: a failed index is not maintained
Maintained == IF cur # 0 /\ idx[cur].state # "FAILED" THEN cur ELSE 0

\* SetProperties or RemoveProperty on a vertex, which the transaction locks.  An
\* update that a unique index does not accept throws and leaves the batch alone.
Write(t, v, x) ==
    LET i == Maintained
        old == Current(t, v)
        us == IF i = 0 THEN <<>> ELSE UpdatesFor(i, v, x, old)
        direct == i # 0 /\ idx[i].state = "READY"
    IN  /\ left.writes[t] > 0 /\ x # old
        /\ \A o \in Txn \ {t} : txn[o].set[v] = Same
        /\ direct => /\ KeysFree(t, us)
                     /\ \A k \in DOMAIN us : Accepts(View(t), us[k])
        /\ txn' = [txn EXCEPT
                ![t].set[v] = x,
                ![t].batch = IF direct THEN @ \o us ELSE @,
                ![t].pending = IF direct THEN @ ELSE @ \o us,
                ![t].told = @ \cup {<<v, i, direct>>}]
        /\ left' = [left EXCEPT !.writes[t] = @ - 1]
        /\ UNCHANGED <<sc, graph, catalog, strand, build, missed>>

Active(t) == \E v \in Vid : txn[t].set[v] # Same

Rollback(t) ==
    /\ Active(t)
    /\ txn' = [txn EXCEPT ![t] = Begun]
    /\ UNCHANGED <<sc, graph, catalog, strand, build, missed, left>>

Deleted(t) == \E k \in DOMAIN txn[t].pending : idx[txn[t].pending[k].index].deleted

\* the vertices that t tells the index of, but not all of it: the index did not
\* exist at the write, or was published between two writes
MissedBy(t) ==
    {v \in Vid : /\ txn[t].set[v] # Same /\ cur # 0
                 /\ {p \in txn[t].told : p[1] = v} \notin {{<<v, cur, FALSE>>}, {<<v, cur, TRUE>>}}}

\* The records for the pending updates of a transaction while the index is built
Numbered(t) == {[index |-> txn[t].pending[k].index, type |-> txn[t].pending[k].type,
                 val |-> txn[t].pending[k].val, vid |-> txn[t].pending[k].vid,
                 id |-> idx[txn[t].pending[k].index].nextWal + k - 1] :
                    k \in DOMAIN txn[t].pending}

Commit(t) ==
    LET us == txn[t].pending
        i == us[1].index
        late == us # <<>> /\ idx[i].state = "READY"
        ok(k) == Accepts(WrittenAll(View(t), SubSeq(us, 1, k - 1)), us[k])
    IN  /\ Active(t) /\ ~Deleted(t)
        /\ late => KeysFree(t, us) /\ \A k \in DOMAIN us : ok(k)
        /\ entries' = IF late THEN WrittenAll(View(t), us) ELSE View(t)
        /\ wal' = IF us = <<>> \/ late THEN wal
                  ELSE {w \in wal : \A n \in Numbered(t) : <<w.index, w.id>> # <<n.index, n.id>>}
                       \cup Numbered(t)
        /\ idx' = IF us = <<>> \/ late THEN idx ELSE [idx EXCEPT ![i].nextWal = @ + Len(us)]
        /\ data' = [v \in Vid |-> Current(t, v)]
        /\ missed' = missed \cup MissedBy(t)
        /\ txn' = [txn EXCEPT ![t] = Begun]
        /\ UNCHANGED <<sc, meta, cur, nextId, strand, build, left>>

-----------------------------------------------------------------------------
\* AddVertexPropertyIndex, DeleteVertexPropertyIndex

CreateIndex ==
    /\ cur = 0 /\ nextId <= MaxIndex
    /\ idx' = [idx EXCEPT ![nextId] = NewIndex("BUILDING")]
    /\ meta' = [id |-> nextId, state |-> "BUILDING"]
    /\ cur' = nextId /\ nextId' = nextId + 1
    /\ strand' = Append(strand, [id |-> nextId, reset |-> FALSE])
    /\ missed' = {}
    /\ UNCHANGED <<sc, graph, build, txn, left>>

DeleteIndex ==
    /\ cur # 0 /\ left.deletes > 0
    /\ idx' = [idx EXCEPT ![cur].deleted = TRUE]
    /\ meta' = [id |-> 0, state |-> "NONE"]
    /\ entries' = Without(entries, cur) /\ wal' = wal \ WalOf(cur)
    /\ cur' = 0
    /\ left' = [left EXCEPT !.deletes = @ - 1]
    /\ UNCHANGED <<sc, data, nextId, strand, build, txn, missed>>

-----------------------------------------------------------------------------
\* The build, one posted handler of the assistant strand

running == Head(strand).id

SetState(s) == idx' = [idx EXCEPT ![running].state = s] /\ meta' = [meta EXCEPT !.state = s]

EndBuild == strand' = Tail(strand) /\ build' = NoBuild

BuildReturns ==
    /\ strand # <<>> /\ idx[running].deleted
    /\ build.pc \in {"idle", "catch up", "publish", "failed"}
    /\ build.pc = "idle" => Head(strand).reset
    /\ EndBuild
    /\ UNCHANGED <<sc, graph, catalog, txn, missed, left>>

BuildResets ==
    /\ strand # <<>> /\ build.pc = "idle" /\ Head(strand).reset /\ ~idx[running].deleted
    /\ entries' = Without(entries, running) /\ wal' = wal \ WalOf(running)
    /\ idx' = [idx EXCEPT ![running] = NewIndex("BUILDING")]
    /\ meta' = [meta EXCEPT !.state = "BUILDING"]
    /\ build' = [build EXCEPT !.pc = "snapshot"]
    /\ UNCHANGED <<sc, data, cur, nextId, strand, txn, missed, left>>

TakeSnapshot ==
    /\ strand # <<>>
    /\ \/ build.pc = "snapshot"
       \/ build.pc = "idle" /\ ~Head(strand).reset
    /\ build' = [pc |-> "load", snap |-> data, wal |-> MaxWal(running)]
    /\ UNCHANGED <<sc, graph, catalog, strand, txn, missed, left>>

\* what Load adds, in some order of the vertex ids
Loads == LET in == {v \in Vid : build.snap[v] # None}
             vs == CHOOSE f \in [1..Cardinality(in) -> in] : \A v \in in : \E k \in DOMAIN f : f[k] = v
         IN  [k \in DOMAIN vs |-> Update(running, "Add", build.snap[vs[k]], vs[k])]

Load ==
    LET r == BuildUpdates(Loads)
    IN  /\ build.pc = "load"
        /\ entries' = r.es
        /\ idx' = IF r.ok THEN [idx EXCEPT ![running].applied = build.wal] ELSE idx
        /\ build' = [build EXCEPT !.pc = IF r.ok THEN "catch up" ELSE "failed"]
        /\ UNCHANGED <<sc, data, wal, meta, cur, nextId, strand, txn, missed, left>>

CatchUp ==
    /\ build.pc = "catch up" /\ ~idx[running].deleted
    /\ SetState("CATCHING_UP")
    /\ build' = [build EXCEPT !.pc = "apply"]
    /\ UNCHANGED <<sc, graph, cur, nextId, strand, txn, missed, left>>

\* the records that ApplyWAL consumed, and the one it stopped at
Consume(i) ==
    /\ entries' = Applied(i).es
    /\ wal' = IF Applied(i).ok THEN {w \in wal : w.index = i => w.id <= idx[i].applied} ELSE wal

ApplyWAL ==
    /\ build.pc = "apply"
    /\ Consume(running)
    /\ idx' = IF Applied(running).ok /\ ToApply(running) # <<>>
              THEN [idx EXCEPT ![running].applied = MaxWal(running)] ELSE idx
    /\ build' = [build EXCEPT !.pc = IF Applied(running).ok THEN "publish" ELSE "failed"]
    /\ UNCHANGED <<sc, data, meta, cur, nextId, strand, txn, missed, left>>

\* Mutant: what was logged since the first ApplyWAL is dropped with the log.
MutPublish ==
    /\ build.pc = "publish" /\ ~idx[running].deleted
    /\ wal' = wal \ WalOf(running) /\ SetState("READY") /\ EndBuild
    /\ UNCHANGED <<sc, data, entries, cur, nextId, txn, missed, left>>

Publish ==
    /\ build.pc = "publish" /\ ~idx[running].deleted
    /\ entries' = Applied(running).es
    /\ IF Applied(running).ok
       THEN wal' = wal \ WalOf(running) /\ SetState("READY") /\ EndBuild
       ELSE build' = [build EXCEPT !.pc = "failed"] /\ UNCHANGED <<wal, idx, meta, strand>>
    /\ UNCHANGED <<sc, data, cur, nextId, txn, missed, left>>

\* Mutant: the build ends and the state stays.
MutBuildFails ==
    /\ build.pc = "failed" /\ ~idx[running].deleted
    /\ EndBuild
    /\ UNCHANGED <<sc, graph, catalog, txn, missed, left>>

\* the catch clause
BuildFails ==
    /\ build.pc = "failed" /\ ~idx[running].deleted
    /\ SetState("FAILED") /\ EndBuild
    /\ UNCHANGED <<sc, graph, cur, nextId, txn, missed, left>>

-----------------------------------------------------------------------------
\* The process ends and the graph is opened again: MetaInfo::Init,
\* ResumeBackgroundIndexBuilds
Restart ==
    /\ left.restarts > 0 /\ left' = [left EXCEPT !.restarts = @ - 1]
    /\ idx' = [i \in 1..MaxIndex |-> IF i = meta.id THEN NewIndex(meta.state) ELSE NewIndex("NONE")]
    /\ cur' = meta.id /\ nextId' = meta.id + 1
    /\ strand' = IF meta.state \in {"BUILDING", "CATCHING_UP"}
                 THEN <<[id |-> meta.id, reset |-> TRUE]>> ELSE <<>>
    /\ build' = NoBuild /\ txn' = [t \in Txn |-> Begun]
    /\ UNCHANGED <<sc, graph, meta, missed>>

Builder == \/ BuildReturns \/ BuildResets \/ TakeSnapshot \/ Load \/ CatchUp
           \/ ApplyWAL \/ Publish \/ BuildFails

Next ==
    \/ \E t \in Txn :
        \/ \E v \in Vid, x \in Values : Write(t, v, x)
        \/ Rollback(t) \/ Commit(t)
    \/ CreateIndex \/ DeleteIndex \/ Builder \/ Restart

Spec == Init /\ [][Next]_vars

-----------------------------------------------------------------------------
\* The stored state of the index follows its object, MetaInfo holds no deleted
\* index, records belong to indexes that have not been published, and a unique
\* index has one entry under each key.
TypeOK ==
    /\ data \in [Vid -> Values]
    /\ entries \subseteq (1..MaxIndex) \X Val \X Vid
    /\ meta.id = cur /\ cur \in 0..MaxIndex
    /\ cur # 0 => meta.state = idx[cur].state /\ ~idx[cur].deleted
    /\ \A w \in wal : w.index = cur /\ idx[cur].state # "READY"
    /\ \A i \in 1..MaxIndex : idx[i].applied < idx[i].nextWal
    /\ unique => \A e, f \in entries : e[1] = f[1] /\ e[2] = f[2] => e = f

\* A published index holds exactly the committed values: every update that was
\* committed while it was built reached it once and in order.  The vertices whose
\* last commit began before the index, or wrote on both sides of the publication,
\* are not covered; for a unique index one of them spoils the others.
PublishedExact ==
    cur # 0 /\ idx[cur].state = "READY" /\ (unique => missed = {}) =>
        \A v \in Vid \ missed : \A x \in Val : <<cur, x, v>> \in entries <=> data[v] = x

\* An index that is not ready, failed or deleted has its build running or posted,
\* also after the process ended in the middle of one: it does not stay unfinished
\* while the assistant pool runs.
BuildPosted ==
    \A i \in 1..MaxIndex : idx[i].state \in {"BUILDING", "CATCHING_UP"} /\ ~idx[i].deleted =>
        \E k \in DOMAIN strand : strand[k].id = i

\* The catalog keeps its shape, and no index in it waits for a build that
\* nobody will run (PostVertexIndexBuild, recovery at Open).
CatalogSound == TypeOK /\ BuildPosted
=============================================================================
