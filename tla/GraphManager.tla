---------------------------- MODULE GraphManager ----------------------------
(***************************************************************************)
(* The catalog of graphs of one server: the metadata database, the         *)
(* directories graph<id>, the open GraphDB handles and the sessions that   *)
(* share them, and the operations that create, delete and replace graphs,  *)
(* with failures and crashes between any two of their steps.               *)
(*                                                                         *)
(* op is the operation that holds create_graph_mutex_; the installation    *)
(* of a snapshot also holds graphs_mutex_ exclusively from its beginning.  *)
(* Writes without sync survive a crash of the process.  A power loss may   *)
(* undo those of the metadata since the last synced one (history), and     *)
(* anything in the directories, whose files nobody syncs (torn).           *)
(***************************************************************************)
EXTENDS Naturals, FiniteSets

CONSTANTS Names,      \* names of graphs
          Raft,       \* the names created with Raft
          Default,    \* the graph that an empty server creates
          MaxId,      \* bound: graph ids
          MaxIndex,   \* bound: applied log indexes
          MaxFaults,  \* bound: failing steps, crashes and power losses
          MaxTorn,    \* bound: directories that power losses tear
          TearOrphans \* bound: whether also those that the catalog does not name

ASSUME GraphManagerAssumption ==
  Raft \subseteq Names /\ Default \in Names \ Raft /\ MaxId \in Nat /\ MaxIndex \in Nat

VARIABLES
  meta,     \* the metadata database: [graphs: id -> name, next: NextGraphID]
  history,  \* the metadata that a power loss may leave, the current one included
  dirs,     \* the directories: id -> contents
  up,       \* whether the process runs
  next,     \* next_graph_id_
  graphs,   \* graphs_: name -> id of its handle, 0 for a null handle
  open,     \* ids of open GraphDB objects
  users,    \* id -> shared_ptr references outside graphs_
  op,       \* the operation in progress
  drop,     \* ids with drop_on_close
  reserved, \* history: ids reserved by installations
  dropped,  \* history: ids whose metadata DeleteGraph removed
  nulled,   \* history: names whose graph could not be reopened
  torn,     \* history: ids whose directory lost something in a power loss
  faults, crashes

disk == <<meta, history, dirs>>
past == <<reserved, dropped, nulled, torn>>
vars == <<disk, up, next, graphs, open, users, op, drop, past, faults, crashes>>

Ids == 1 .. MaxId
Operation(p, n, i, x) == [pc |-> p, name |-> n, id |-> i, index |-> x, new |-> 0]
Idle == Operation("idle", Default, 0, 0)
NoLog == MaxIndex + 1
Only(f, ks) == [k \in DOMAIN f \cap ks |-> f[k]]
Put(f, k, v) == [x \in DOMAIN f \cup {k} |-> IF x = k THEN v ELSE f[x]]

Metadata(g, n) == [graphs |-> g, next |-> n]

\* A directory as GraphDB::Open makes it: nothing applied, no Raft log.
Fresh == [apply |-> 0, log |-> NoLog]

Init ==
  /\ meta = Metadata(<<>>, 1)
  /\ history = {meta}
  /\ dirs = <<>>
  /\ up = FALSE /\ next = 1
  /\ graphs = <<>> /\ open = {} /\ users = [i \in Ids |-> 0]
  /\ op = Idle /\ drop = {}
  /\ reserved = {} /\ dropped = {} /\ nulled = {} /\ torn = {}
  /\ faults = 0 /\ crashes = 0

\* A write of the metadata database, synced or not.
WriteMeta(m) == meta' = m /\ history' = history \cup {m}
SyncMeta(m) == meta' = m /\ history' = {m}

\* A step of the operation throws.
Fault == faults + crashes < MaxFaults /\ faults' = faults + 1

Memory == <<up, next, graphs, users, drop>>
Quiet == up /\ op = Idle

-----------------------------------------------------------------------------
(* Creation.                                                               *)

\* GraphDB::Open keeps what the directory holds, or makes it.
OpenDir(id) == dirs' = IF id \in DOMAIN dirs THEN dirs ELSE Put(dirs, id, Fresh)

\* CreateGraphWithId up to GraphDB::Open; the id is not taken yet.
CreateGraph(n) ==
  /\ Quiet /\ n \notin DOMAIN graphs /\ next <= MaxId
  /\ OpenDir(next)
  /\ open' = open \cup {next}
  /\ op' = Operation("opened", n, next, 0)
  /\ UNCHANGED <<meta, history, Memory, past, faults, crashes>>

\* StartGraphRaft: an empty log is bootstrapped, an existing one kept.
StartGraphRaft ==
  /\ op.pc = "opened" /\ op.name \in Raft
  /\ dirs' = [dirs EXCEPT ![op.id].log = IF @ = NoLog THEN 0 ELSE @]
  /\ op' = [op EXCEPT !.pc = "started"]
  /\ UNCHANGED <<meta, history, Memory, open, past, faults, crashes>>

\* Starting Raft or writing the metadata throws: the handle is destroyed, the
\* directory stays and the id will be used again.
CreateThrows ==
  /\ op.pc \in {"opened", "started"} /\ Fault
  /\ open' = open \ {op.id}
  /\ op' = Idle
  /\ UNCHANGED <<disk, Memory, past, crashes>>

\* One batch holds the graph and NextGraphID; then the graph is visible.
PublishGraph ==
  /\ op.pc = (IF op.name \in Raft THEN "started" ELSE "opened")
  /\ WriteMeta(Metadata(Put(meta.graphs, op.id, op.name), op.id + 1))
  /\ next' = IF next < op.id + 1 THEN op.id + 1 ELSE next
  /\ graphs' = Put(graphs, op.name, op.id)
  /\ op' = Idle
  /\ UNCHANGED <<dirs, up, open, users, drop, past, faults, crashes>>

-----------------------------------------------------------------------------
(* Use.                                                                    *)

\* graphs_mutex_ is free, or held shared.
Readable == up /\ (op = Idle \/ op.pc \in {"opened", "started"})

\* Bound: sessions use a replicated graph, one at a time.
OneSession(n) == n \in Raft /\ \A i \in Ids : users[i] = 0

OpenGraph(n) ==
  /\ Readable /\ n \in DOMAIN graphs /\ graphs[n] # 0
  /\ OneSession(n)
  /\ users' = [users EXCEPT ![graphs[n]] = 1]
  /\ UNCHANGED <<disk, up, next, graphs, open, op, drop, past, faults, crashes>>

\* The last reference of a graph that is no longer in graphs_ closes it.
Release(i) ==
  /\ up /\ users[i] = 1
  /\ users' = [users EXCEPT ![i] = 0]
  /\ IF \E n \in DOMAIN graphs : graphs[n] = i THEN UNCHANGED <<open, dirs, drop>>
     ELSE /\ open' = open \ {i}
          /\ dirs' = IF i \in drop THEN Only(dirs, DOMAIN dirs \ {i}) ELSE dirs
          /\ drop' = drop \ {i}
  /\ UNCHANGED <<meta, history, up, next, graphs, op, past, faults, crashes>>

\* The next entry of the log is applied, which goes on until the graph is
\* closed.
Apply(n) ==
  /\ up /\ n \in DOMAIN graphs \cap Raft /\ graphs[n] \in open
  /\ dirs[graphs[n]].apply < MaxIndex
  /\ dirs' = [dirs EXCEPT ![graphs[n]].apply = @ + 1]
  /\ UNCHANGED <<meta, history, Memory, open, op, past, faults, crashes>>

-----------------------------------------------------------------------------
(* Deletion.                                                               *)

\* StopRaft and the removal from the metadata, which may throw.
DeleteGraph(n) ==
  /\ Quiet /\ n \in DOMAIN graphs /\ graphs[n] # 0
  /\ LET i == graphs[n]
     IN  /\ WriteMeta(Metadata(Only(meta.graphs, DOMAIN meta.graphs \ {i}), meta.next))
         /\ dropped' = dropped \cup {i}
         /\ op' = Operation("delete", n, i, 0)
  /\ UNCHANGED <<dirs, Memory, open, reserved, nulled, torn, faults, crashes>>

\* graphs_.erase destroys the graph unless sessions still use it.
EraseGraph ==
  /\ op.pc = "delete"
  /\ graphs' = Only(graphs, DOMAIN graphs \ {op.name})
  /\ IF users[op.id] = 0
     THEN /\ open' = open \ {op.id}
          /\ dirs' = Only(dirs, DOMAIN dirs \ {op.id})
          /\ drop' = drop
     ELSE drop' = drop \cup {op.id} /\ UNCHANGED <<open, dirs>>
  /\ op' = Idle
  /\ UNCHANGED <<meta, history, up, next, users, past, faults, crashes>>

-----------------------------------------------------------------------------
(* The installation of a snapshot: a checkpoint of the leader's data that  *)
(* has applied the log up to index.                                        *)

\* The checks that read only: the graph exists and uses Raft.
BeginInstall(n, index) ==
  /\ Quiet /\ n \in DOMAIN graphs \cap Raft /\ graphs[n] # 0
  /\ op' = Operation("wait", n, graphs[n], index)
  /\ UNCHANGED <<disk, Memory, open, past, faults, crashes>>

\* What leaves everything as it was: the graph is still used at the deadline,
\* the checkpoint or its index is wrong, or a directory has the next id.
InstallRefused ==
  /\ op.pc = "wait"
  /\ \/ (users[op.id] = 1 \/ next \in DOMAIN dirs) /\ UNCHANGED faults
     \/ Fault
  /\ op' = Idle
  /\ UNCHANGED <<disk, Memory, open, past, crashes>>

\* The id is reserved by a synced write before any file is made.
ReserveId ==
  /\ op.pc = "wait" /\ users[op.id] = 0 /\ next \notin DOMAIN dirs /\ next <= MaxId
  /\ SyncMeta(Metadata(meta.graphs, next + 1))
  /\ next' = next + 1
  /\ reserved' = reserved \cup {next}
  /\ op' = [op EXCEPT !.pc = "reserved", !.new = next]
  /\ UNCHANGED <<dirs, up, graphs, open, users, drop, dropped, nulled, torn, faults, crashes>>

\* RebuildExternalIndexes and create_directory throw outside the try block.
ReserveThrows ==
  /\ op.pc = "reserved" /\ Fault
  /\ op' = Idle
  /\ UNCHANGED <<disk, Memory, open, past, crashes>>

MakeDir ==
  /\ op.pc = "reserved"
  /\ dirs' = Put(dirs, op.new, Fresh)
  /\ op' = [op EXCEPT !.pc = "made"]
  /\ UNCHANGED <<meta, history, Memory, open, past, faults, crashes>>

\* The checkpoint is renamed into the new directory.
MoveData ==
  /\ op.pc = "made"
  /\ dirs' = [dirs EXCEPT ![op.new].apply = op.index]
  /\ op' = [op EXCEPT !.pc = "moved"]
  /\ UNCHANGED <<meta, history, Memory, open, past, faults, crashes>>

CreateRaftLogStorageFromSnapshot ==
  /\ op.pc = "moved"
  /\ dirs' = [dirs EXCEPT ![op.new].log = op.index]
  /\ op' = [op EXCEPT !.pc = "logged"]
  /\ UNCHANGED <<meta, history, Memory, open, past, faults, crashes>>

\* Mutant: the old directory is emptied before the new graph is published.
MutCloseOld ==
  /\ op.pc = "logged"
  /\ graphs' = [graphs EXCEPT ![op.name] = 0]
  /\ open' = open \ {op.id}
  /\ dirs' = [dirs EXCEPT ![op.id] = Fresh]
  /\ op' = [op EXCEPT !.pc = "closed"]
  /\ UNCHANGED <<meta, history, up, next, users, drop, past, faults, crashes>>

\* iter->second.reset(): Raft stops and the old graph is closed.
CloseOld ==
  /\ op.pc = "logged"
  /\ graphs' = [graphs EXCEPT ![op.name] = 0]
  /\ open' = open \ {op.id}
  /\ op' = [op EXCEPT !.pc = "closed"]
  /\ UNCHANGED <<disk, up, next, users, drop, past, faults, crashes>>

OpenNew ==
  /\ op.pc = "closed"
  /\ open' = open \cup {op.new}
  /\ op' = [op EXCEPT !.pc = "replacing"]
  /\ UNCHANGED <<disk, Memory, past, faults, crashes>>

Replaced == Put(Only(meta.graphs, DOMAIN meta.graphs \ {op.id}), op.new, op.name)

\* Mutant: the batch is written without sync.
MutPublishNew ==
  /\ op.pc = "replacing"
  /\ WriteMeta(Metadata(Replaced, meta.next))
  /\ graphs' = [graphs EXCEPT ![op.name] = op.new]
  /\ op' = [op EXCEPT !.pc = "published"]
  /\ UNCHANGED <<dirs, up, next, open, users, drop, past, faults, crashes>>

\* One synced batch removes the old graph's metadata and puts the new one's.
PublishNew ==
  /\ op.pc = "replacing"
  /\ SyncMeta(Metadata(Replaced, meta.next))
  /\ graphs' = [graphs EXCEPT ![op.name] = op.new]
  /\ op' = [op EXCEPT !.pc = "published"]
  /\ UNCHANGED <<dirs, up, next, open, users, drop, past, faults, crashes>>

\* The old directory is removed; a failure is only logged.
RemoveOld ==
  /\ op.pc = "published"
  /\ \/ dirs' = Only(dirs, DOMAIN dirs \ {op.id}) /\ UNCHANGED faults
     \/ Fault /\ UNCHANGED dirs
  /\ op' = Idle
  /\ UNCHANGED <<meta, history, Memory, open, past, crashes>>

\* Any step of the try block throws; a replacement that is open is destroyed.
InstallThrows ==
  /\ op.pc \in {"made", "moved", "logged", "closed", "replacing"} /\ Fault
  /\ open' = open \ {op.new}
  /\ op' = [op EXCEPT !.pc = "catch"]
  /\ UNCHANGED <<disk, Memory, past, crashes>>

\* The handler opens the old graph again if it was closed.
ReopenOld ==
  /\ op.pc = "catch"
  /\ IF graphs[op.name] = 0
     THEN graphs' = [graphs EXCEPT ![op.name] = op.id] /\ open' = open \cup {op.id}
     ELSE UNCHANGED <<graphs, open>>
  /\ op' = [op EXCEPT !.pc = "reopened"]
  /\ UNCHANGED <<disk, up, next, users, drop, past, faults, crashes>>

\* Opening it throws out of the handler: the null handle stays in graphs_.
ReopenThrows ==
  /\ op.pc = "catch" /\ graphs[op.name] = 0 /\ Fault
  /\ nulled' = nulled \cup {op.name}
  /\ op' = Idle
  /\ UNCHANGED <<disk, Memory, open, reserved, dropped, torn, crashes>>

RemoveNew ==
  /\ op.pc = "reopened"
  /\ \/ dirs' = Only(dirs, DOMAIN dirs \ {op.new}) /\ UNCHANGED faults
     \/ Fault /\ UNCHANGED dirs
  /\ op' = Idle
  /\ UNCHANGED <<meta, history, Memory, open, past, crashes>>

-----------------------------------------------------------------------------
(* Crashes and restart.                                                    *)

\* What was in memory is gone.
Stopped ==
  /\ up /\ faults + crashes < MaxFaults /\ crashes' = crashes + 1
  /\ up' = FALSE /\ op' = Idle
  /\ graphs' = <<>> /\ open' = {} /\ users' = [i \in Ids |-> 0] /\ drop' = {}
  /\ nulled' = {}
  /\ UNCHANGED <<next, reserved, dropped, faults>>

\* The process ends: what it wrote, synced or not, stays.
Crash == Stopped /\ UNCHANGED <<disk, torn>>

\* A power loss: data/ and raft/ are two databases, written without sync into
\* directories that are not synced either, so that each loses what it loses.
LoseFiles ==
  \E kept \in SUBSET DOMAIN dirs : \E unlogged \in SUBSET kept :
     \E apply \in [kept -> 0 .. MaxIndex] :
        /\ \A i \in kept : apply[i] <= dirs[i].apply
        /\ dirs' = [i \in kept |-> [apply |-> apply[i],
                                    log |-> IF i \in unlogged THEN NoLog ELSE dirs[i].log]]
        /\ torn' = torn \cup {i \in DOMAIN dirs : i \in kept => dirs'[i] # dirs[i]}
        /\ Cardinality(torn') <= MaxTorn
        /\ TearOrphans \/ torn' \subseteq torn \cup DOMAIN meta'.graphs

\* The machine stops: any suffix of the unsynced metadata writes is lost, and
\* whatever the directories lose.  (A directory that was removed stays so: back
\* again, it would be one more that nothing refers to.)
PowerLoss ==
  /\ Stopped
  /\ \E m \in history : meta' = m /\ history' = {m}
  /\ LoseFiles

\* GraphManager::Open: NextGraphID, then every graph of the metadata; without
\* any, the default graph is created as CreateGraph does.  (A graph that a power
\* loss tore may also end the process here, at every attempt: it stays down.)
Open ==
  /\ ~up /\ up' = TRUE
  /\ next' = meta.next
  /\ IF meta.graphs # <<>>
     THEN /\ graphs' = [n \in {meta.graphs[i] : i \in DOMAIN meta.graphs} |->
                          CHOOSE i \in DOMAIN meta.graphs : meta.graphs[i] = n]
          /\ open' = DOMAIN meta.graphs
          /\ dirs' = [i \in DOMAIN dirs \cup DOMAIN meta.graphs |->
                        IF i \in DOMAIN dirs THEN dirs[i] ELSE Fresh]
          /\ op' = Idle
     ELSE /\ meta.next <= MaxId
          /\ OpenDir(meta.next)
          /\ open' = {meta.next}
          /\ op' = Operation("opened", Default, meta.next, 0)
          /\ UNCHANGED graphs
  /\ UNCHANGED <<meta, history, users, drop, past, faults, crashes>>

-----------------------------------------------------------------------------
Install ==
  \/ InstallRefused \/ ReserveId \/ ReserveThrows \/ MakeDir \/ MoveData
  \/ CreateRaftLogStorageFromSnapshot \/ CloseOld \/ OpenNew \/ PublishNew \/ RemoveOld
  \/ InstallThrows \/ ReopenOld \/ ReopenThrows \/ RemoveNew

Admin ==
  \/ \E n \in Names : CreateGraph(n) \/ DeleteGraph(n)
  \/ StartGraphRaft \/ CreateThrows \/ PublishGraph \/ EraseGraph

-----------------------------------------------------------------------------
\* Whatever crash or power loss comes next, the catalog that it leaves gives
\* a name to one graph only, and each graph has its directory, where the Raft
\* log of a replicated graph begins no later than the index its data has
\* applied: creation, deletion and the replacement of a graph write in the right
\* order.  Two kinds of graphs are excepted: those whose files a power loss has
\* torn (nothing in a directory is synced), and those that were deleted, which
\* is not synced, so that a power loss may bring them back, empty.
CatalogRecoverable ==
  \A m \in history \cup {meta} :
     /\ \A i, j \in DOMAIN m.graphs : m.graphs[i] = m.graphs[j] => i = j
     /\ \A i \in DOMAIN m.graphs \ (dropped \cup torn) :
          i \in DOMAIN dirs /\ (m.graphs[i] \in Raft => dirs[i].log <= dirs[i].apply)

\* Sessions and graphs_ never refer to a graph that is closed or whose
\* directory is gone: a directory is removed only after its last handle is
\* closed.
OpenDirsExist ==
  /\ open \subseteq DOMAIN dirs
  /\ \A i \in Ids : users[i] > 0 => i \in open
  /\ up /\ op = Idle =>
       \A n \in DOMAIN graphs :
          /\ graphs[n] = 0 <=> n \in nulled
          /\ graphs[n] # 0 => graphs[n] \in open /\ graphs[n] \in DOMAIN meta.graphs

\* "A crash before publication can leave an orphan directory, but future
\* graph creation will not reuse it": an id reserved by an installation is
\* never the next id again, after any crash or power loss.
ReservedIdsNotReused ==
  \A i \in reserved : i < next /\ \A m \in history \cup {meta} : i < m.next

\* The catalog on disk, the directories and the open handles fit together at
\* every point a crash can strike.
GraphsSound == CatalogRecoverable /\ OpenDirsExist /\ ReservedIdsNotReused
=============================================================================
