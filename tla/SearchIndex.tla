---------------------------- MODULE SearchIndex ----------------------------
(* A full-text or vector index of a graph, from its creation to its        *)
(* deletion (graphdb/graph_db_search_index.cc, graph_db_index_build.cc,    *)
(* index.cc).  Unlike a property index it is never written by a            *)
(* transaction: a commit appends records to a log (the column family wal,  *)
(* in the batch that changes the data), and a timer of the assistant       *)
(* strand applies them, before and after the index is published.           *)
(*                                                                         *)
(* The text of a vertex, or its vector, is one value; None also stands for *)
(* a vertex without the label, Empty for the empty string, which makes no  *)
(* document.  With raft, commits and index changes are entries of a log    *)
(* that one thread applies in order; the replica is the leader throughout. *)
EXTENDS Integers, Sequences, FiniteSets

CONSTANTS Txn, Vid, Val, None, Empty,
          Same,        \* "this transaction has not written the vertex"
          MaxIndex,    \* how many indexes are created
          BatchSize,   \* 1000 records of a full-text log
          Interval,    \* vt_serialize_interval
          Scenarios

Values == Val \cup {None, Empty}

ASSUME SearchAssumption ==
    /\ None \notin Val /\ Empty \notin Val /\ Same \notin Values
    /\ MaxIndex \in Nat /\ BatchSize \in Nat \ {0} /\ Interval \in Nat \ {0}
    /\ \A k \in DOMAIN Scenarios :
        /\ Scenarios[k].kind \in {"text", "vector"} /\ Scenarios[k].raft \in BOOLEAN
        /\ Scenarios[k].data \in [Vid -> Values] /\ Scenarios[k].writable \subseteq Vid
        /\ Scenarios[k].left \in [{"writes", "creates", "deletes", "restarts", "clears",
                                   "failures", "others"} -> Nat]

-----------------------------------------------------------------------------
(* The store of a vector index (graphdb/vector_store.cc): the graph of     *)
(* vectors that is searched, which nothing leaves, the two maps between     *)
(* vertices and vector ids, and the ids that count as deleted.  The store   *)
(* is in memory; a checkpoint writes the vectors to a file of their own and *)
(* then the maps, with the number of the checkpoint, in one batch.          *)

\* vid_vectorid_ (0: no vector), vectorid_vid_, deleted_vector_ids_,
\* next_vector_id_ and the vectors of the HNSW index
EmptyStore == [vector |-> [v \in Vid |-> 0], owner |-> <<>>, deleted |-> {}, next |-> 1, hnsw |-> {}]

\* the directory: the batch of the last checkpoint, if any, and the files
EmptyDirectory == [has |-> FALSE, checkpoint |-> 0, vector |-> [v \in Vid |-> 0],
                   deleted |-> {}, files |-> <<>>]

With(f, k, x) == [i \in DOMAIN f \cup {k} |-> IF i = k THEN x ELSE f[i]]
Less(f, k) == [i \in DOMAIN f \ {k} |-> f[i]]

\* Mutant: the vector that is replaced is not marked as deleted.
MutAdd(vs, v, x) ==
    LET id == vs.next
    IN  [vs EXCEPT !.vector[v] = id,
                   !.owner = With(Less(vs.owner, vs.vector[v]), id, v),
                   !.next = id + 1,
                   !.hnsw = @ \cup {<<id, x>>}]

\* a vector that the vertex had stays in the graph, under an id that is deleted
Add(vs, v, x) ==
    LET id == vs.next
    IN  [vector |-> [vs.vector EXCEPT ![v] = id],
         owner |-> With(Less(vs.owner, vs.vector[v]), id, v),
         deleted |-> (vs.deleted \cup ({vs.vector[v]} \ {0})) \ {id},
         next |-> id + 1,
         hnsw |-> vs.hnsw \cup {<<id, x>>}]

Delete(vs, v) ==
    IF vs.vector[v] = 0 THEN vs
    ELSE [vs EXCEPT !.vector[v] = 0,
                    !.owner = Less(@, vs.vector[v]),
                    !.deleted = @ \cup {vs.vector[v]}]

\* KnnSearch with a top_k that leaves nothing out.  It throws when the graph returns
\* a vector without a vertex.
Alive(vs) == {h \in vs.hnsw : h[1] \notin vs.deleted}
KnnThrows(vs) == \E h \in Alive(vs) : h[1] \notin DOMAIN vs.owner
KnnSearch(vs, v) == {h \in Alive(vs) : h[1] \in DOMAIN vs.owner /\ vs.owner[h[1]] = v}

\* Checkpoint(n), in two steps: the file, then the batch; the file of the previous
\* checkpoint goes after that
WriteToFile(dir, vs, n) == [dir EXCEPT !.files = With(@, n, vs.hnsw)]

WriteBatch(dir, vs, n) ==
    [has |-> TRUE, checkpoint |-> n, vector |-> vs.vector, deleted |-> vs.deleted,
     files |-> IF dir.has /\ dir.checkpoint # n THEN Less(dir.files, dir.checkpoint) ELSE dir.files]

\* LoadState: ids go on after the largest one that the batch names
LoadState(dir) ==
    LET ids == ({dir.vector[v] : v \in Vid} \ {0}) \cup dir.deleted
    IN  [vector |-> dir.vector,
         owner |-> [i \in {dir.vector[v] : v \in Vid} \ {0} |-> CHOOSE v \in Vid : dir.vector[v] = i],
         deleted |-> dir.deleted,
         next |-> 1 + (CHOOSE m \in ids \cup {0} : \A i \in ids : i <= m),
         hnsw |-> IF dir.has THEN dir.files[dir.checkpoint] ELSE {}]

-----------------------------------------------------------------------------
VARIABLES
    sc,
    data,     \* the committed values
    wal,      \* the column family wal
    meta,     \* the stored metadata: id (0: none), state, applied_wal_id
    dir,      \* the directory of the index
    idx,      \* idx[i]: the object of index i
    cur,      \* the index that MetaInfo holds, 0 when there is none
    nextId,
    strand,   \* the posted handlers; the first one runs
    job,      \* where it is
    txn,      \* the transactions
    log,      \* raft entries that are committed and not applied
    lock,     \* who holds index_ddl_mutex_ and the commit mutex of the kind of index
    ddl,      \* where a deletion or ClearData is
    missed,   \* history: the vertices of whose last commit the index was not told, or
              \* that it forgot at a restart, or whose records it lost or took twice
    left

vars == <<sc, data, wal, meta, dir, idx, cur, nextId, strand, job, txn, log, lock, ddl, missed, left>>

kind == Scenarios[sc].kind
raft == Scenarios[sc].raft
text == kind = "text"
Contents == IF text THEN Values ELSE Values \ {Empty}

\* index.cc: the index of a directory that was just reset
NewDirectory == IF text THEN [docs |-> [v \in Vid |-> <<>>], payload |-> 0] ELSE EmptyDirectory
NewIndex(state) ==
    [state |-> state, deleted |-> FALSE, released |-> FALSE, nextWal |-> 1, applied |-> 0,
     started |-> FALSE, stopped |-> FALSE, armed |-> FALSE, store |-> EmptyStore]

Idle == [pc |-> "idle"]
Begun == [set |-> [v \in Vid |-> Same], pending |-> <<>>, told |-> {}, waiting |-> FALSE]
Free == [ddl |-> "none", commit |-> "none"]

Init ==
    /\ sc \in DOMAIN Scenarios
    /\ data = Scenarios[sc].data /\ wal = {}
    /\ meta = [id |-> 0, state |-> "NONE", applied |-> 0]
    /\ dir = NewDirectory
    /\ idx = [i \in 1..MaxIndex |-> NewIndex("NONE")]
    /\ cur = 0 /\ nextId = 1
    /\ strand = <<>> /\ job = Idle
    /\ txn = [t \in Txn |-> Begun]
    /\ log = <<>> /\ lock = Free /\ ddl = "idle"
    /\ missed = {}
    /\ left = Scenarios[sc].left

Spend(what) == left[what] > 0 /\ left' = [left EXCEPT ![what] = @ - 1]

-----------------------------------------------------------------------------
\* Records of the log

WalOf(i) == {w \in wal : w.index = i}
MaxWal(i) == CHOOSE m \in {0} \cup {w.id : w \in WalOf(i)} : \A w \in WalOf(i) : w.id <= m

\* those that ApplyWAL reads, in the order of their ids
WalFrom(i, n) ==
    LET at(k) == {w \in WalOf(i) : w.id = k}
        ids == SelectSeq([k \in 1..MaxWal(i) |-> k], LAMBDA k : k >= n /\ at(k) # {})
    IN  [k \in DOMAIN ids |-> CHOOSE w \in at(ids[k]) : TRUE]

ToApply(i) == WalFrom(i, idx[i].applied + 1)

\* BuildFullTextDocument, BuildVectorValues
Document(x) == IF x = Empty THEN None ELSE x

Record(i, type, v, x) == [index |-> i, type |-> type, vid |-> v, val |-> x]

\* Mutant: the old document is not deleted when there is a new one.
MutUpdatesFor(i, v, old, new) ==
    IF Document(old) = Document(new) THEN <<>>
    ELSE IF Document(new) # None THEN <<Record(i, "Add", v, Document(new))>>
    ELSE <<Record(i, "Delete", v, None)>>

\* UpdateFullTextIndexes, UpdateVectorIndexes
UpdatesFor(i, v, old, new) ==
    IF Document(old) = Document(new) THEN <<>>
    ELSE (IF Document(old) # None THEN <<Record(i, "Delete", v, None)>> ELSE <<>>)
         \o (IF Document(new) # None THEN <<Record(i, "Add", v, Document(new))>> ELSE <<>>)

\* The records get their ids from NextWALKey
Numbered(us, n) == {[index |-> us[k].index, type |-> us[k].type, vid |-> us[k].vid,
                     val |-> us[k].val, id |-> n + k - 1] : k \in DOMAIN us}

\* a Put replaces the record that has its key
Stored(records) ==
    {w \in wal : \A r \in records : <<w.index, w.id>> # <<r.index, r.id>>} \cup records

-----------------------------------------------------------------------------
\* Transactions

Current(t, v) == IF txn[t].set[v] = Same THEN data[v] ELSE txn[t].set[v]

\* GetVertexFullTextIndexes: a failed index is not maintained
Maintained == IF cur # 0 /\ idx[cur].state # "FAILED" THEN cur ELSE 0

\* a write of v whose caller was told that it failed is still to be applied
Unresolved(v) == \E k \in DOMAIN log : log[k].op = "write" /\ log[k].set[v] # Same

\* SetProperties or RemoveProperty on a vertex, which the transaction locks
Write(t, v, x) ==
    LET us == IF Maintained = 0 THEN <<>> ELSE UpdatesFor(Maintained, v, Current(t, v), x)
    IN  /\ ~txn[t].waiting /\ x # Current(t, v)
        /\ \A o \in Txn \ {t} : txn[o].set[v] = Same
        /\ txn' = [txn EXCEPT
                ![t].set[v] = x, ![t].pending = @ \o us,
                ![t].told = @ \cup {<<v, IF Unresolved(v) THEN 0 ELSE Maintained>>}]
        /\ Spend("writes")
        /\ UNCHANGED <<sc, data, wal, meta, dir, idx, cur, nextId, strand, job, log, lock, ddl, missed>>

Active(t) == ~txn[t].waiting /\ \E v \in Vid : txn[t].set[v] # Same

Rollback(t) ==
    /\ Active(t)
    /\ txn' = [txn EXCEPT ![t] = Begun]
    /\ UNCHANGED <<sc, data, wal, meta, dir, idx, cur, nextId, strand, job, log, lock, ddl, missed, left>>

\* what a batch of writes leaves in the graph, and the vertices it does not tell cur of
After(set) == [v \in Vid |-> IF set[v] = Same THEN data[v] ELSE set[v]]
Untold(set, told) == {v \in Vid : /\ set[v] # Same /\ cur # 0
                                  /\ {p \in told : p[1] = v} # {<<v, cur>>}}

\* The part of Commit that needs the commit mutex: an index that was deleted makes it
\* throw, the records are numbered, and the batch is written or proposed.  With raft
\* the mutex is held until the entry is applied or the wait times out.
Commit(t) ==
    LET us == txn[t].pending
        i == us[1].index
        records == IF us = <<>> THEN {} ELSE Numbered(us, idx[i].nextWal)
    IN  /\ Active(t)
        /\ us # <<>> => lock.commit = "none" /\ ~idx[i].deleted
        /\ idx' = IF us = <<>> THEN idx ELSE [idx EXCEPT ![i].nextWal = @ + Len(us)]
        /\ IF raft
           THEN /\ log' = Append(log, [op |-> "write", txn |-> t, set |-> txn[t].set,
                                       records |-> records, told |-> txn[t].told])
                /\ txn' = [txn EXCEPT ![t].waiting = TRUE]
                /\ lock' = IF us = <<>> THEN lock ELSE [lock EXCEPT !.commit = t]
                /\ UNCHANGED <<data, wal, missed>>
           ELSE /\ data' = After(txn[t].set)
                /\ wal' = Stored(records)
                /\ missed' = missed \cup Untold(txn[t].set, txn[t].told)
                /\ txn' = [txn EXCEPT ![t] = Begun]
                /\ UNCHANGED <<log, lock>>
        /\ UNCHANGED <<sc, meta, dir, cur, nextId, strand, job, ddl, left>>

Unlocked(t) == IF lock.commit = t THEN [lock EXCEPT !.commit = "none"] ELSE lock

\* The proposal times out: Commit throws, its entry stays in the log
Timeout(t) ==
    /\ txn[t].waiting
    /\ txn' = [txn EXCEPT ![t] = Begun] /\ lock' = Unlocked(t)
    /\ log' = [k \in DOMAIN log |-> IF log[k].op = "write" /\ log[k].txn = t
                                    THEN [log[k] EXCEPT !.txn = "none"] ELSE log[k]]
    /\ UNCHANGED <<sc, data, wal, meta, dir, idx, cur, nextId, strand, job, ddl, missed, left>>

\* A replica that restarts numbers its records after those it has applied, not after
\* those of the entries that it has still to apply: these replace others, or come too late.
Renumbered(records) ==
    LET key(w) == <<w.index, w.id>>
        replaced == {w \in wal : \E r \in records : key(w) = key(r)}
    IN  {w.vid : w \in replaced} \cup
        {r.vid : r \in {r \in records : \/ \E w \in replaced : key(w) = key(r)
                                        \/ r.id <= idx[r.index].applied
                                        \/ "used" \in DOMAIN job /\ r.id <= job.used}}

\* ApplyRaftWriteBatch
ApplyWrite ==
    LET e == Head(log)
    IN  /\ log # <<>> /\ e.op = "write" /\ ddl = "idle"
        /\ data' = After(e.set)
        /\ wal' = Stored(e.records)
        /\ missed' = missed \cup Untold(e.set, e.told) \cup Renumbered(e.records)
        /\ log' = Tail(log)
        /\ txn' = IF e.txn = "none" THEN txn ELSE [txn EXCEPT ![e.txn] = Begun]
        /\ lock' = Unlocked(e.txn)
        /\ UNCHANGED <<sc, meta, dir, idx, cur, nextId, strand, job, ddl, left>>

-----------------------------------------------------------------------------
\* Creation and deletion

\* with raft a request is proposed; without, the caller makes the change itself
Request(op) ==
    /\ raft /\ Spend(op)
    /\ \A k \in DOMAIN log : log[k].op = "write"
    /\ log' = Append(log, [op |-> op])
    /\ UNCHANGED <<sc, data, wal, meta, dir, idx, cur, nextId, strand, job, txn, lock, ddl, missed>>

Turn(op) ==
    /\ ddl = "idle"
    /\ IF raft THEN log # <<>> /\ Head(log).op = op /\ log' = Tail(log) /\ UNCHANGED left
       ELSE Spend(op) /\ UNCHANGED log

\* ApplyCreateVertexFullTextIndex, ApplyCreateVertexVectorIndex
CreateIndex ==
    /\ cur = 0 /\ nextId <= MaxIndex /\ lock.ddl = "none"
    /\ Turn("creates")
    /\ wal' = wal \ WalOf(nextId) /\ dir' = NewDirectory
    /\ idx' = [idx EXCEPT ![nextId] = NewIndex("BUILDING")]
    /\ meta' = [id |-> nextId, state |-> "BUILDING", applied |-> 0]
    /\ cur' = nextId /\ nextId' = nextId + 1
    /\ strand' = Append(strand, [do |-> "build", id |-> nextId, reset |-> FALSE])
    /\ missed' = {}
    /\ UNCHANGED <<sc, data, job, txn, lock, ddl>>

\* the entry of an index that is there already, or not any more, only counts as applied
SkipEntry ==
    /\ raft /\ \/ cur # 0 /\ Turn("creates")
               \/ cur = 0 /\ Turn("deletes")
    /\ UNCHANGED <<sc, data, wal, meta, dir, idx, cur, nextId, strand, job, txn, lock, ddl, missed>>

\* Stop from another thread: the timer is cancelled on the strand, and the caller waits
Stopped(i) == [idx[i] EXCEPT !.stopped = TRUE]
MustWait(i) == idx[i].started /\ ~idx[i].stopped

\* ApplyDeleteVertexFullTextIndex, ApplyDeleteVertexVectorIndex: MarkDeleted and Stop,
\* with both mutexes ...
DeleteIndex ==
    /\ cur # 0 /\ lock = Free
    /\ Turn("deletes")
    /\ lock' = [ddl |-> "delete", commit |-> "delete"]
    /\ idx' = [idx EXCEPT ![cur] = [Stopped(cur) EXCEPT !.deleted = TRUE]]
    /\ IF MustWait(cur)
       THEN ddl' = "delete: stop" /\ strand' = Append(strand, [do |-> "cancel", id |-> cur])
       ELSE ddl' = "delete: remove" /\ UNCHANGED strand
    /\ UNCHANGED <<sc, data, wal, meta, dir, cur, nextId, job, txn, missed>>

\* who has the mutex that ReleaseResources needs
Applying == job.pc \in {"apply", "trim", "file", "state"} /\ job.then # "mark"

\* ... then ReleaseResources and the batch; an error of remove_all is only logged
RemoveIndex ==
    /\ ddl = "delete: remove" /\ ~(Applying /\ Head(strand).id = cur)
    /\ idx' = [idx EXCEPT ![cur].released = TRUE]
    /\ meta' = [id |-> 0, state |-> "NONE", applied |-> 0]
    /\ wal' = wal \ WalOf(cur) /\ dir' \in {dir, NewDirectory}
    /\ cur' = 0 /\ lock' = Free /\ ddl' = "idle"
    /\ UNCHANGED <<sc, data, nextId, strand, job, txn, log, missed, left>>

-----------------------------------------------------------------------------
\* The strand: builds, timer callbacks and what other threads post and wait for

task == Head(strand)
me == task.id
Running(do) == strand # <<>> /\ task.do = do
Leave == strand' = Tail(strand) /\ job' = Idle

\* Opening the graph again: the constructors, which find out what was applied, ...
TextApplied == IF meta.state = "READY" THEN dir.payload ELSE meta.applied
VectorApplied == IF meta.state = "READY" /\ dir.has THEN dir.checkpoint ELSE meta.applied

Opened ==
    LET applied == IF text THEN TextApplied ELSE VectorApplied
        ready == meta.state = "READY"
    IN  [NewIndex(meta.state) EXCEPT
            !.applied = applied,
            !.nextWal = 1 + (IF MaxWal(meta.id) > applied THEN MaxWal(meta.id) ELSE applied),
            !.started = ready, !.armed = ready,
            !.store = IF text THEN EmptyStore ELSE LoadState(dir)]

\* A vector index that is READY without a checkpoint (it was published over no vectors,
\* or ClearData has removed its directory) starts empty, behind the position in the
\* stored metadata: what was committed up to there is forgotten.
Forgotten ==
    IF text \/ meta.state # "READY" \/ dir.has \/ meta.applied = 0 THEN {}
    ELSE Vid \ {w.vid : w \in {w \in WalOf(meta.id) : w.id > meta.applied}}

\* ... MetaInfo::Init and ResumeBackgroundIndexBuilds
Reopen ==
    /\ idx' = [i \in 1..MaxIndex |-> IF i = meta.id THEN Opened ELSE NewIndex("NONE")]
    /\ cur' = meta.id /\ nextId' = meta.id + 1
    /\ strand' = IF meta.state \in {"BUILDING", "CATCHING_UP"}
                 THEN <<[do |-> "build", id |-> meta.id, reset |-> TRUE]>> ELSE <<>>
    /\ job' = Idle /\ txn' = [t \in Txn |-> Begun] /\ lock' = Free /\ ddl' = "idle"
    /\ log' = [k \in DOMAIN log |-> IF log[k].op = "write" THEN [log[k] EXCEPT !.txn = "none"]
                                    ELSE log[k]]
    /\ missed' = missed \cup Forgotten
    /\ UNCHANGED <<sc, data, wal, meta, dir>>

Restart == Spend("restarts") /\ Reopen

\* a process that touches the store of a released vector index ends there
Dies == Reopen /\ UNCHANGED left

\* the locals of the strand's steps, for the ones that touch nothing else
Elsewhere == UNCHANGED <<sc, data, cur, nextId, txn, log, ddl>>

\* an exception: a callback is set up again, a build fails; locks are released
Throw ==
    /\ job' = [pc |-> IF task.do = "timer" THEN "rearm" ELSE "failed"]
    /\ lock' = IF lock.ddl = "build" THEN Free ELSE lock

\* ApplyWAL begins: only the full-text index looks whether it was deleted
BeginApply(then) ==
    IF text /\ (idx[me].deleted \/ idx[me].released)
    THEN Throw /\ UNCHANGED <<sc, data, wal, meta, dir, idx, cur, nextId, strand, txn, log, ddl, missed, left>>
    ELSE IF idx[me].released /\ ToApply(me) # <<>> THEN Dies
    ELSE /\ job' = [pc |-> "apply", then |-> then, todo |-> ToApply(me), used |-> 0, took |-> {}]
         /\ lock' = IF then = "publish" THEN [ddl |-> "build", commit |-> "build"] ELSE lock
         /\ UNCHANGED <<sc, data, wal, meta, dir, idx, cur, nextId, strand, txn, log, ddl, missed, left>>

\* what a record does to the documents of a text index, and to a vector store
Indexed(docs, r) == IF r.type = "Delete" THEN [docs EXCEPT ![r.vid] = <<>>]
                    ELSE [docs EXCEPT ![r.vid] = Append(@, r.val)]

IndexedAll(docs, rs) ==
    LET f[k \in 0..Len(rs)] == IF k = 0 THEN docs ELSE Indexed(f[k - 1], rs[k])
    IN  f[Len(rs)]

\* ApplyUpdatesBatch and Commit: documents and payload become durable together
ApplyBatch ==
    LET n == IF Len(job.todo) < BatchSize THEN Len(job.todo) ELSE BatchSize
        batch == SubSeq(job.todo, 1, n)
    IN  /\ text /\ job.pc = "apply" /\ job.todo # <<>>
        /\ dir' = [docs |-> IndexedAll(dir.docs, batch), payload |-> batch[n].id]
        /\ job' = [job EXCEPT !.pc = "trim", !.todo = SubSeq(@, n + 1, Len(@)), !.used = batch[n].id,
                              !.took = {batch[k].id : k \in 1..n}]
        /\ Elsewhere /\ UNCHANGED <<wal, meta, idx, strand, lock, missed, left>>

\* one record of a vector log; a checkpoint is due after Interval of them
ApplyRecord ==
    LET r == Head(job.todo)
        last == IF dir.has THEN dir.checkpoint ELSE 0
    IN  /\ ~text /\ job.pc = "apply" /\ job.todo # <<>>
        /\ idx' = [idx EXCEPT ![me].store = IF r.type = "Delete" THEN Delete(@, r.vid)
                                            ELSE Add(@, r.vid, r.val)]
        /\ job' = [job EXCEPT !.todo = Tail(@), !.used = r.id,
                              !.pc = IF r.id - last < Interval THEN "apply" ELSE "file"]
        /\ Elsewhere /\ UNCHANGED <<wal, meta, dir, strand, lock, missed, left>>

WriteFile ==
    /\ job.pc = "file"
    /\ IF idx[me].released THEN Dies
       ELSE /\ dir' = WriteToFile(dir, idx[me].store, job.used)
            /\ job' = [job EXCEPT !.pc = "state"]
            /\ Elsewhere /\ UNCHANGED <<wal, meta, idx, strand, lock, missed, left>>

WriteState ==
    /\ job.pc = "state"
    /\ IF idx[me].released THEN Dies
       ELSE /\ dir' = WriteBatch(dir, idx[me].store, job.used)
            /\ idx' = IF job.then = "mark" THEN [idx EXCEPT ![me].applied = job.used] ELSE idx
            /\ job' = [job EXCEPT !.pc = IF job.then = "mark" THEN "mark" ELSE "trim"]
            /\ Elsewhere /\ UNCHANGED <<wal, meta, strand, lock, missed, left>>

\* the batch cannot be written: what ApplyWAL did so far counts
StateFails ==
    /\ job.pc = "state" /\ ~idx[me].released /\ Spend("failures")
    /\ idx' = IF job.then = "mark" THEN idx ELSE [idx EXCEPT ![me].applied = job.used]
    /\ Throw
    /\ Elsewhere /\ UNCHANGED <<wal, meta, dir, strand, missed>>

\* the records that the index holds now are taken out of the log
Trim ==
    /\ job.pc = "trim"
    /\ wal' = wal \ {w \in WalOf(me) : IF text THEN w.id \in job.took ELSE w.id <= job.used}
    /\ job' = [job EXCEPT !.pc = "apply"]
    /\ Elsewhere /\ UNCHANGED <<meta, dir, idx, strand, lock, missed, left>>

\* they cannot be taken out: a vector index counts them as applied, a full-text index
\* does not, and takes them again
TrimFails ==
    /\ job.pc = "trim" /\ Spend("failures")
    /\ idx' = IF text THEN idx ELSE [idx EXCEPT ![me].applied = job.used]
    /\ missed' = missed \cup {w.vid : w \in {w \in WalOf(me) : text /\ w.id \in job.took}}
    /\ Throw
    /\ Elsewhere /\ UNCHANGED <<wal, meta, dir, strand>>

ApplyDone ==
    /\ job.pc = "apply" /\ job.todo = <<>>
    /\ idx' = IF job.used = 0 THEN idx ELSE [idx EXCEPT ![me].applied = job.used]
    /\ job' = [pc |-> job.then]
    /\ Elsewhere /\ UNCHANGED <<wal, meta, dir, strand, lock, missed, left>>

ApplyWAL == ApplyBatch \/ ApplyRecord \/ WriteFile \/ WriteState \/ StateFails \/ Trim \/ TrimFails \/ ApplyDone

-----------------------------------------------------------------------------
\* The timer

\* it expires: the callback is posted
Fire(i) ==
    /\ idx[i].armed
    /\ idx' = [idx EXCEPT ![i].armed = FALSE]
    /\ strand' = Append(strand, [do |-> "timer", id |-> i])
    /\ UNCHANGED <<sc, data, wal, meta, dir, cur, nextId, job, txn, log, lock, ddl, missed, left>>

RunTimer ==
    /\ Running("timer") /\ job = Idle
    /\ IF idx[me].stopped
       THEN Leave /\ UNCHANGED <<sc, data, wal, meta, dir, idx, cur, nextId, txn, log, lock, ddl, missed, left>>
       ELSE BeginApply("rearm")

Rearm ==
    /\ job.pc = "rearm"
    /\ idx' = [idx EXCEPT ![me].armed = ~idx[me].stopped]
    /\ Leave
    /\ Elsewhere /\ UNCHANGED <<wal, meta, dir, lock, missed, left>>

\* what Stop posts
RunCancel ==
    /\ Running("cancel") /\ job = Idle
    /\ idx' = [idx EXCEPT ![me].armed = FALSE]
    /\ IF ddl = "delete: stop"
       THEN ddl' = "delete: remove" /\ strand' = Tail(strand)
       ELSE ddl' = "clear: drain" /\ strand' = Append(Tail(strand), [do |-> "drain"])
    /\ UNCHANGED <<sc, data, wal, meta, dir, cur, nextId, job, txn, log, lock, missed, left>>

-----------------------------------------------------------------------------
\* ScheduleVertexFullTextIndexBuild, ScheduleVertexVectorIndexBuild

SetState(i, s) ==
    /\ idx' = [idx EXCEPT ![i].state = s]
    /\ meta' = [meta EXCEPT !.state = s, !.applied = idx[i].applied]

\* a build that finds its index deleted
BuildReturns ==
    /\ Running("build") /\ idx[me].deleted
    /\ \/ job = Idle /\ task.reset /\ lock = Free
       \/ job.pc \in {"mark", "failed"} /\ lock.ddl = "none"
       \/ job.pc = "lock" /\ lock = Free
    /\ Leave
    /\ Elsewhere /\ UNCHANGED <<wal, meta, dir, idx, lock, missed, left>>

BuildResets ==
    /\ Running("build") /\ job = Idle /\ task.reset /\ ~idx[me].deleted /\ lock = Free
    /\ wal' = wal \ WalOf(me) /\ dir' = NewDirectory
    /\ idx' = [idx EXCEPT ![me] = NewIndex("BUILDING")]
    /\ meta' = [meta EXCEPT !.state = "BUILDING", !.applied = 0]
    /\ job' = [pc |-> "snapshot"]
    /\ missed' = {}
    /\ Elsewhere /\ UNCHANGED <<strand, lock, left>>

TakeSnapshot ==
    /\ Running("build") /\ \/ job.pc = "snapshot"
                           \/ job = Idle /\ ~task.reset
    /\ job' = [pc |-> "load", snap |-> data, wal |-> MaxWal(me)]
    /\ Elsewhere /\ UNCHANGED <<wal, meta, dir, idx, strand, lock, missed, left>>

Loaded == {v \in Vid : job.snap[v] # None}

\* a text that is empty is loaded as well; without documents nothing is committed
LoadText ==
    /\ job.pc = "load" /\ text
    /\ IF idx[me].deleted \/ idx[me].released THEN Throw /\ UNCHANGED <<dir, idx>>
       ELSE /\ dir' = IF Loaded = {} THEN dir
                      ELSE [docs |-> [v \in Vid |-> IF v \in Loaded THEN Append(dir.docs[v], job.snap[v])
                                                    ELSE dir.docs[v]],
                            payload |-> job.wal]
            /\ idx' = [idx EXCEPT ![me].applied = job.wal]
            /\ job' = [pc |-> "mark"] /\ UNCHANGED lock
    /\ Elsewhere /\ UNCHANGED <<wal, meta, strand, missed, left>>

AddAll(vs, in) ==
    LET f[S \in SUBSET in] == IF S = {} THEN vs
                              ELSE LET v == CHOOSE v \in S : TRUE
                                   IN  Add(f[S \ {v}], v, job.snap[v])
    IN  f[in]

LoadVectors ==
    /\ job.pc = "load" /\ ~text
    /\ IF Loaded # {} /\ idx[me].released THEN Dies
       ELSE /\ IF Loaded = {}
               THEN /\ idx' = [idx EXCEPT ![me].applied = job.wal]
                    /\ job' = [pc |-> "mark"]
               ELSE /\ idx' = [idx EXCEPT ![me].store = AddAll(@, Loaded)]
                    /\ job' = [pc |-> "file", then |-> "mark", todo |-> <<>>, used |-> job.wal, took |-> {}]
            /\ Elsewhere /\ UNCHANGED <<wal, meta, dir, strand, lock, missed, left>>

CatchUp ==
    /\ job.pc = "mark" /\ ~idx[me].deleted /\ lock.ddl = "none"
    /\ SetState(me, "CATCHING_UP")
    /\ job' = [pc |-> "first"]
    /\ Elsewhere /\ UNCHANGED <<wal, dir, strand, lock, missed, left>>

FirstApply == job.pc = "first" /\ BeginApply("lock")

LastApply == job.pc = "lock" /\ ~idx[me].deleted /\ lock = Free /\ BeginApply("publish")

\* Mutant: the timer is marked as started, but the first callback is not scheduled.
MutPublish ==
    /\ job.pc = "publish"
    /\ idx' = [idx EXCEPT ![me].state = "READY", ![me].started = @ \/ ~idx[me].stopped]
    /\ meta' = [meta EXCEPT !.state = "READY", !.applied = idx[me].applied]
    /\ lock' = Free /\ Leave
    /\ Elsewhere /\ UNCHANGED <<wal, dir, missed, left>>

\* READY, published, and the timer starts
Publish ==
    LET start == ~idx[me].started /\ ~idx[me].stopped
    IN  /\ job.pc = "publish"
        /\ idx' = [idx EXCEPT ![me].state = "READY", ![me].started = @ \/ start,
                              ![me].armed = @ \/ start]
        /\ meta' = [meta EXCEPT !.state = "READY", !.applied = idx[me].applied]
        /\ lock' = Free /\ Leave
        /\ Elsewhere /\ UNCHANGED <<wal, dir, missed, left>>

BuildFails ==
    /\ job.pc = "failed" /\ ~idx[me].deleted /\ lock.ddl = "none"
    /\ SetState(me, "FAILED") /\ Leave
    /\ Elsewhere /\ UNCHANGED <<wal, dir, lock, missed, left>>

\* Another index, of another kind, is created: its build occupies the strand of the graph
\* and needs index_ddl_mutex_ to go on to its next state.
CreateOther ==
    /\ lock.ddl = "none" /\ ddl = "idle" /\ Spend("others")
    /\ strand' = Append(strand, [do |-> "other", id |-> 0])
    /\ UNCHANGED <<sc, data, wal, meta, dir, idx, cur, nextId, job, txn, log, lock, ddl, missed>>

BuildOther ==
    /\ Running("other") /\ lock.ddl = "none"
    /\ Leave
    /\ Elsewhere /\ UNCHANGED <<wal, meta, dir, idx, lock, missed, left>>

-----------------------------------------------------------------------------
\* ClearDataInternal: the timers stop and the strand runs empty without a lock, ...

ClearData ==
    /\ ~raft /\ ddl = "idle" /\ Spend("clears")
    /\ idx' = IF Maintained = 0 THEN idx ELSE [idx EXCEPT ![cur] = Stopped(cur)]
    /\ IF Maintained # 0 /\ MustWait(cur)
       THEN ddl' = "clear: stop" /\ strand' = Append(strand, [do |-> "cancel", id |-> cur])
       ELSE ddl' = "clear: drain" /\ strand' = Append(strand, [do |-> "drain"])
    /\ UNCHANGED <<sc, data, wal, meta, dir, cur, nextId, job, txn, log, lock, missed>>

RunDrain ==
    /\ Running("drain") /\ job = Idle
    /\ ddl' = "clear: remove" /\ strand' = Tail(strand)
    /\ UNCHANGED <<sc, data, wal, meta, dir, idx, cur, nextId, job, txn, log, lock, missed, left>>

\* ... and everything is removed with all of them; the stored metadata stays
RemoveData ==
    LET ready == cur # 0 /\ idx[cur].state = "READY"
    IN  /\ ddl = "clear: remove" /\ lock = Free /\ ~Applying
        /\ data' = [v \in Vid |-> None] /\ wal' = {} /\ ddl' = "idle"
        /\ IF Maintained = 0 THEN UNCHANGED <<dir, idx>>
           ELSE /\ dir' = NewDirectory
                /\ idx' = [idx EXCEPT ![cur] = [NewIndex(idx[cur].state) EXCEPT
                                                    !.started = ready, !.armed = ready]]
        /\ UNCHANGED <<sc, meta, cur, nextId, strand, job, txn, log, lock, missed, left>>

-----------------------------------------------------------------------------
Strand ==
    \/ RunTimer \/ Rearm \/ RunCancel \/ RunDrain \/ ApplyWAL
    \/ BuildReturns \/ BuildResets \/ TakeSnapshot \/ LoadText \/ LoadVectors \/ CatchUp
    \/ FirstApply \/ LastApply \/ Publish \/ BuildFails \/ BuildOther

\* the thread that applies raft entries
Applier == raft /\ (ApplyWrite \/ CreateIndex \/ SkipEntry \/ DeleteIndex)

\* the rest of an index change, by whoever makes it
Finish == RemoveIndex \/ RemoveData

Next ==
    \/ \E t \in Txn :
        \/ \E v \in Scenarios[sc].writable, x \in Contents : Write(t, v, x)
        \/ Rollback(t) \/ Commit(t) \/ Timeout(t)
    \/ Request("creates") \/ Request("deletes") \/ Applier
    \/ ~raft /\ (CreateIndex \/ DeleteIndex)
    \/ CreateOther \/ ClearData \/ Finish \/ Strand \/ Restart
    \/ \E i \in 1..MaxIndex : Fire(i)

\* The assistant pool runs what was posted, timers expire, the apply thread applies,
\* proposals time out, and who waits for a mutex gets it between two callbacks of a
\* timer, which are an interval apart.
Fairness ==
    /\ WF_vars(Strand) /\ WF_vars(Applier) /\ SF_vars(Finish)
    /\ \A i \in 1..MaxIndex : WF_vars(Fire(i))
    /\ \A t \in Txn : WF_vars(Timeout(t))

Spec == Init /\ [][Next]_vars /\ Fairness

-----------------------------------------------------------------------------
\* what a search finds under a vertex
Answers(v) ==
    IF text THEN {<<k, dir.docs[v][k]>> : k \in {k \in DOMAIN dir.docs[v] : dir.docs[v][k] # Empty}}
    ELSE KnnSearch(idx[cur].store, v)

Published == cur # 0 /\ idx[cur].state = "READY"

\* A published index whose log is applied answers with exactly the committed texts or
\* vectors, each of them once (ApplyWAL, Load): whatever restart, failed checkpoint,
\* batch boundary, ClearData or record of an earlier index comes between.  It need not
\* answer for the vertices in missed: those whose last write did not know of the index
\* or was made while an earlier one was still to be applied (Untold), those that a
\* vector index without a checkpoint forgets (Forgotten), those whose records a
\* full-text index holds but could not take out of the log (TrimFails), and those whose
\* records have a number that a restarted replica gave twice (Renumbered).
IndexExact ==
    Published /\ ToApply(cur) = <<>> =>
        \A v \in Vid \ missed :
            IF Document(data[v]) = None THEN Answers(v) = {}
            ELSE \E k \in {a[1] : a \in Answers(v)} : Answers(v) = {<<k, data[v]>>}

\* A search of a vector index never meets a vector without a vertex (KnnSearch
\* throws), new vectors get new ids, and the file that the last checkpoint names is
\* there when the graph is opened (LoadState throws): whatever step of a checkpoint
\* was the last before the process ended.
StoreWhole ==
    ~text =>
        /\ dir.has => dir.checkpoint \in DOMAIN dir.files
        /\ \A i \in 1..MaxIndex :
            /\ ~KnnThrows(idx[i].store)
            /\ \A h \in idx[i].store.hnsw : h[1] < idx[i].store.next

\* An index change holds both mutexes and waits for the strand, where the build of
\* another index waits for index_ddl_mutex_: nothing of the graph goes on.
MutualWait == ddl = "delete: stop" /\ Running("other")

\* Commits, index changes and builds come to an end and the log is applied: commits
\* wait for the apply thread with the commit mutex, index changes for the strand with
\* both, builds on the strand for both, and the timer survives what it calls.  The one
\* way to wait for ever is MutualWait.
Settles ==
    <>[](\/ MutualWait
         \/ /\ ddl = "idle" /\ \A t \in Txn : ~txn[t].waiting
            /\ cur # 0 => /\ idx[cur].state \in {"READY", "FAILED"}
                          /\ Published => ToApply(cur) = <<>>)
=============================================================================
