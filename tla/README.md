# TLA+ specifications of rocksgraph

rocksgraph is a replicated graph database.  Clients speak Bolt to a session handler
(`server/bolt_handler.cc`); queries are parsed, rewritten, planned and kept in a plan
cache (`ast/`, `ir/`, `planner/`, `runtime/`) and executed inside transactions of a graph
over RocksDB (`graphdb/`); a graph may be replicated in full by a Raft group
(`raft_driver/`, with the Raft core, a port of etcd's, in `etcd_raft/`).  This directory
holds TLA+ models of those parts, the TLC configurations that check them, and proofs
that TLAPS checks.  Every definition is translated from the source; `PROJECT.json` maps
each one to its lines, and lists the hazards of the code with the properties that watch
them.  Paths below, also of docs and tests, are relative to `src/`.

## 1. The system

| part | source | hard behaviour | modules |
|---|---|---|---|
| Raft core | `etcd_raft/raft.h`, `tracker/`, `quorum/` | lost, late, repeated and reordered messages; restarts; divergent logs | `RaftBase`, `RaftCore` |
| Configuration changes | `etcd_raft/confchange/`, `server/graph_manager.cc` | checks and proposals are separate steps; a leader applies its own removal | `RaftReconf` |
| Raft log and storage | `etcd_raft/log.h`, `log_unstable.h`, `raft_driver/raft_log_store.cc` | writes in progress overtaken by truncation; compaction; restarts | `RaftLog`, `AbstractLog` |
| Proposal pipeline | `raft_driver/raft_driver.cc` | timeout against apply, rejection against apply, `Stop()` against everything | `RaftProposals` |
| Graph manager | `server/graph_manager.cc` | crash or failure between catalog, directory and handles | `GraphManager` |
| Snapshots | `server/graph_manager_snapshot.cc`, `server/http_server.cc`, `server/raft_server.cc` | retries, lost reports, installation of a graph in use | `SnapshotTransfer` |
| Ids | `graphdb/id_generator.cc` | two leaders handing out ids; lock-free counters | `IdGenerator` |
| Property indexes | `graphdb/graph_db_index_build.cc`, `graph_db_property_index.cc`, `index.cc` | writers racing the build | `PropertyIndex` |
| Search indexes | `graphdb/graph_db_search_index.cc`, `index.cc`, `vector_store.cc` | timers, checkpoints, two mutexes and two threads waiting on each other | `SearchIndex` |
| Bolt session | `server/bolt_handler.cc`, `bolt_session.h`, `bolt/worker_pool.h` | IO thread racing the worker strand | `BoltSession` |
| Plan cache | `runtime/plan_cache.cc`, `query_executor.cc` | compilation overtaken by `Clear` or by an index change | `PlanCache` |
| Front end | `ast/` | rewrites that must keep the meaning | `Rewriters`, `QueryIR`, `Validator` |
| IR and planner | `ir/`, `planner/` | every plan the costs may choose must compute the same | `QueryIR`, `LogicalPlan`, `Planner` |
| Runtime | `runtime/` | operators that share rows, orders and a graph they change | `LogicalPlan`, `Executor`, `Scans`, `Aggregates`, `Writes`, `Procedures`, `Evaluator`, `Expressions`, `BuiltinFunctions` |
| Values | `value/value.cc`, `value/temporal.cc` | overflow, NaN, calendars, time zones | `Values`, `Temporal`, `Durations` |

The request path composes them: a Bolt session executes a query with a cached plan in a
transaction, whose commit proposes one entry; the Raft core replicates it; the apply
thread of every replica writes it and fulfils the promise of the proposer.

## 2. Modules

**RaftBase, RaftCore.**  `node[n]` is the raft object of a replica: term, vote, role,
leader, log, commit index, votes, progress records.  `Step`, `Hup`, `StepProp`,
`StepTransferLeader`, `BcastHeartbeat` and `StepCheckQuorum` are the functions of `raft.h`
that the raft thread calls; each returns the new object with the messages it queued.  An
action of `RaftCore` is one task of a raft thread: the call, and then the whole of
`CheckReady` (persist, send, apply, advance).  `disk[n]` is what it persisted: the term, the
vote, the commit index and the log.  What `Advance` then makes of the answers that a replica
owes itself (its own vote, the acknowledgement of its own entries) is not there before the
next `CheckReady`, and a restart begins from `disk`.  `net` holds everything ever sent, so a
message may be lost, delayed, overtaken or delivered again.

Where a module has *scenarios*, a scenario is a record of the state that is found and of
what may happen to it; a run explores all of them, chosen in `Init`.

**RaftReconf.**  A membership operation asks the raft thread who leads, reads `node_infos_`
and checks, and proposes: three steps, with the raft threads in between.

**RaftLog, AbstractLog.**  One node's log: the unstable entries over the RocksDB log store,
the cycle `Ready`, write, post, `Advance`, the apply thread, compaction and a restart at
any point.  `AbstractLog` says what its user relies on: one log whose committed part never
changes, and entries executed once and in order.  `ImplementsAbstractLog` is the refinement.

**RaftProposals.**  The variables are the members that `promise_mutex_` protects, the
queues of the raft and the apply thread, the log and the answers of the callers.  A
section under the mutex is one action; a caller's wait, its timeout and its removal of
the promise are separate ones.  `CheckReady` is here only what it does to promises, log
cursors and operations; compaction, the captured snapshot and the barrier with which
`Stop()` waits for the timers (`raft_driver.cc:669`) are not.  `RaftProposalsProofs` and
`RaftProposalsSafety` hold the theorems.

**GraphManager, SnapshotTransfer.**  The catalog in the metadata database, the directories
`graph<id>`, the handles and their users; creation, deletion and installation are cut at
every file operation, database write and handle that is opened or closed.  A crash keeps
unsynced writes.  A power loss takes back some of those to the metadata (`history`) and
tears directories, in which nothing is ever synced: the directory, its Raft log or what its
data has applied is lost, each for itself (`LoseFiles`, remembered in `torn`).
`SnapshotTransfer` extends it with the leader's progress and snapshot table and the follower's slot, queue
and import task: trigger, download, installation, cleaning up, report.  The theorems are in
`GraphManagerProofs` (creation, deletion, crashes, and an installation up to the closing of
the old graph) and `SnapshotTransferProofs` (the rest, and the import).

**IdGenerator.**  `GetNextEntityId` is cut at every load, store and compare-exchange of the
three counters, `ApplyMetaRecord` at every counter it raises, because the one runs without
a lock against the other.  The Raft group is abstracted to what the modules above show of
it: one log, in which a proposal of the leader ends up or is lost with the leadership, and
which every replica applies in order and in its own time.

**PropertyIndex.**  The variables are the column families (`data`, `entries`, `wal`,
`meta`), the objects in memory (`idx`, `cur`), the posted builds (`strand`) and the write
batches of the transactions.  The build is cut at its snapshot, at the end of the scan, at
each of its locked sections and at the unlocked `ApplyWAL`.  A commit is one action: it
holds the commit mutex whenever it has pending updates, and RocksDB writes a batch at once.

**SearchIndex.**  Full-text and vector indexes are never written by a
transaction: a commit appends to a log that a timer applies.  With raft, commits and index
changes are entries that one apply thread executes; a commit waits for it while it holds
the commit mutex, which is the reason for `Settles`.  The first part of the module is the
vector store: the maps in memory, the file of vectors and the record of the maps.  `missed`
names the vertices for which the code gives up the index (section 6); `CreateOther` is an
index of another kind, whose build occupies the strand.

**BoltSession.**  The IO thread reads requests, counts interrupts and cancels tokens; the
strand executes one task at a time.  A handler is cut where it checks for an interrupt and
where it calls the database, which is where the IO thread can matter.  A request that is not
well formed is one whose handler throws, as its other errors do.  The theorems are in
`BoltSessionProofs` and `BoltSessionSafety`.

**PlanCache.**  One action is one section under `mutex_`; the compiler runs between two of
them, so that `Clear` and index changes come in between.  The theorems are in
`PlanCacheProofs` and `PlanCacheSafety`.

**The query engine** is a set of operators, one module per stage, in the order of
`QueryExecutor`: `Rewriters` and `Validator` (syntax trees to syntax trees, types and
errors), `QueryIR` (the symbols of a statement, query graphs and horizons), `Planner` over
`LogicalPlan` (all plans that the planner may choose: costs are abstracted, so each choice
between candidates is a choice of the model; then slots, barriers and checks of the
physical plan), `Executor` with `Scans` (and expansions), `Aggregates`, `Writes` and
`Procedures` (what each operator makes of its rows and of the graph), and below them
`Evaluator`, `Expressions`, `BuiltinFunctions`, `Values`, `Temporal` and `Durations`.  `CypherReference` models no
code: it says what a statement means, clause by clause over sets of matches.  It shares
with the engine the values, the functions and the primitives that read and write a graph,
so a fault in these is for `ValuesOrdered` and `TemporalConsistent` to find, not for the
comparison.  Where the engine is known to depart from the meaning, `MCQueries` says so in a
predicate on the statement or on the plan (`Departs`, `LosesUnmatched`, `Overstates`,
`MeansTwoThings`) that the properties except by name; the statements include at least one
for each of these departures.  These modules use RECURSIVE operators and hold no theorems.

`MC...` modules give the constants their values, list scenarios and cases, and state the
properties that are about a composition.

## 3. Runs

| run | instance | what it shows |
|---|---|---|
| `raft` | four scenarios: 3 voters, two of which campaign at once; 3 voters restarted with divergent logs, two that cannot reach each other; 2 voters with a write, any two of heartbeat, check-quorum, transfer and restart, and disconnected peers; a single voter | one leader per term and votes that are remembered (`VotesSound`); leaders are complete and replicas apply the same entries; progress is sound and no `ERAFT_FATAL` is reached (`StateSound`); nothing stored is taken back, and nothing is executed or acknowledged before it is stored (`Durable`) |
| `raft_reconf` | four scenarios: any one operation and a leadership transfer; an operation on the old and one on the new leader; a node that joins; two removals of which a voter does not know yet | leaders stay complete across configurations; one change at a time, and `node_infos_` names what raft uses (`ConfigurationSound`) |
| `raft_log` | terms 1 and 2, four entries, one restart, reads of every size | reads across the stored and the unstable part are exact and none of the fatal checks fails (`LogSound`); the node implements `AbstractLog` |
| `proposals` | 2 proposals, one a conf change, against all threads and `Stop()` | accounting and promises are exact; success means applied; `Stop()` closes a quiet driver; every accepted proposal ends |
| `plan_cache` | 2 threads, 3 calls, capacity 0 or 1 | plans are fresh, compilations are shared, calls return |
| `bolt_session` | any 3 requests, 2 in flight | answers in order, no stale cancel, no leaked transaction, true answers, and both answers and rollbacks come in the end |
| `ids` | four scenarios of 2 threads: without raft, with a restart; one replica, with a restart and a timeout; labels on a leader; a leader that is deposed and elected again | an id is returned once, a label has one id, counters stay within `int64_t` |
| `ids_failover` | 2 replicas, an election | *violated*: section 5 |
| `index` | five scenarios of 2 transactions on 2 vertices: index unique or not, deleted and created again, the process restarted | a published index holds exactly the committed values of the vertices it was told of; no index stays unfinished |
| `snapshot` | a local and a replicated graph, 3 directory ids, 1 checkpoint at a time, any 2 failures, crashes or power losses, the latter tearing at most one directory of the catalog | whatever is struck, the catalog names each graph once and, unless it was torn or deleted, with a directory whose log fits its data; ids and handles stay sound (`GraphsSound`); an installation is all or nothing but for what a power loss tears; the slot is released; the leader is told unless something failed |
| `search` | nine scenarios: text with a failure and a restart, deleted beside another index, with raft and deletion, with raft and a restart, with `ClearData`; vectors with restarts and failing checkpoints, over no vectors with a restart and `ClearData`, deleted and created again, the same with raft | an index answers exactly for every vertex that it has not given up (`IndexExact`), a loaded store is whole (`StoreWhole`), and everything settles but for one mutual wait (`Settles`) |
| `queries` | 312 statements on small graphs with property indexes, under every plan, and cases of values and temporal values; a step takes up one of them, and the properties are about that step | but for the named departures, results, order and graph are those of `CypherReference`; each rewriter keeps the meaning; the validator accepts what can be planned and infers types that hold; calls do what they are registered for; values sort and group consistently; temporal values agree with the calendar and with each other |

*Bounds.*  Three voters are the least with a majority that is neither one nor all; two
terms above the stored one let a candidate be overtaken once; a log of three or four
entries has room for two conflicting suffixes.  Some scenarios start from stored states
that a crash of two leaders leaves behind, because reaching them from the bootstrap costs
depth and shows nothing more.  A single pending proposal cannot interfere with another;
two can.  The two of `proposals` fit the limits together, so that the refusals for size
and for backpressure do not occur in the run; the theorems of section 4 cover them, except
for `BytesExact`.  Three Bolt requests are a transaction with an interrupt in it.  Ranges
of two ids below a maximum of five make every second call refill and the third range
overflow.  Two vertices and two values are what a uniqueness conflict and its absence need.
Three directories are a local graph, a replicated one and its replacement; two failures are
one in an installation and one in the recovery from it; `MaxTorn` = 1 and `TearOrphans` =
FALSE let power losses tear one directory, of those that the catalog names; the theorems
are about any number, orphans included.  Integers of `queries` are
bounded at 128 (32 for `int32_t`) and a second has eight nanoseconds, so that overflow and
carries happen within small sets; floats are halves with NaN and the infinities, and print
with `Precision` = 2 digits where C++ prints 6.  `DurationLimit` = 2^24 stands for the range
of `int64_t` in durations and `MaximumYear` = 40000 for the 999999999 of the code: the one
is exceeded by products of the cases, the other lies beyond the years that
`std::chrono::year` can hold.

*Fairness.*  `RaftProposals`: the raft thread, the apply thread and the waiting callers
take their steps (they block only on the queues modelled, and a wait is bounded by
`proposal_timeout`); elections, ticks and `Stop()` calls are not forced, except that a
`Stop()` that began goes on.  `PlanCache`: threads run and compilers terminate.
`BoltSession`: the strand and the IO thread run; nobody has to send, disconnect or stop the
pool.  `SearchIndex`: the assistant pool runs what was posted, timers expire, the apply
thread applies and commits time out (`ProposeRaftRequestAndWait` bounds them, at
`raft_driver.cc:908`); without the timeout `Settles` would fail, since the entry that
deletes an index waits for the commit mutex of a commit whose own entry is behind it.
Strong fairness of `Finish` says that who waits for a mutex gets it between two callbacks of
a timer, which are an interval apart.
`SnapshotTransfer`: threads that hold a mutex go on, the import thread works its queue, and
a server that stopped is started again.  `WaitEnds` claims nothing after a failure.

Deadlock is not checked: requests, budgets and logs are finite, so every model may stop.
Symmetry is not used: the runs with liveness forbid it and the others are small.

## 4. Proofs

The theorems hold for every value of the constants that the named assumptions allow.  These
say no more than that limits are natural numbers, that sets of proposals are finite, and
that markers of the model are not members of the sets they mark.  For each component an
inductive invariant `IInv` implies the properties; it was checked with TLC before it was
proved.  A proof has one lemma or step per action, and a PTL step at the end.

**RaftProposals** (`ProposalsAssumption`, `LimitsAssumption`: any proposals of any sizes, any
limits, any log length).  `RaftProposalsProofs` proves

* `TypeCorrect`: `Spec => []TypeOK`;
* `AccountingIsExact`: a context counts against the limits exactly while one of the queues
  of the driver holds it;
* `PromisesAreKept`: a caller whose promise is unset still has its context in the driver.

None of these is inductive alone.  `IInv` adds that a context is in one place only
(`pending_promise_`, prepared batch, apply queue, apply thread: `Ownership`), what is
being applied (`Applying`), and the order of the raft node's cursors (`NodeOrder`).
`RaftProposalsSafety` proves, on top of `IInv`,

* `StopIsQuiet`: `Stop()` closes the log storage only when both threads are done with it,
  nothing is registered or accounted, and no caller is left with an unset promise.
  `StopInv` says what each step of `Stop()` has established, and where its barriers are: at
  most one in the raft queue, and nothing behind the one in the apply queue;
* `AnswersAreTrue`: success is answered only for the request at the answered and applied
  index, and a refused or dropped request is never appended, under any leadership changes
  and truncations.  `SlotInv` says that a task is posted once; `LogInv` that posted and
  prepared operations are in log order, and that each carries the entry of its index in the
  part of the log that cannot be replaced.

**PlanCache** (`PlanCacheAssumption`: any threads and queries, any capacities, any number of
calls, of `Clear` and of index changes).  `PlanCacheSafety` proves

* `NoStalePlanIsServed` (`CacheSound`): no call returns and no entry holds a plan that was
  compiled before the last `Clear` or for an older catalog than its key names; `entries_`
  and `lru_` hold the same keys, each once, and not more than the capacity;
* `OneCompilationPerKey` (`SingleFlight`): between two calls of `Clear` one caller compiles a
  key.

`IInv` is `CacheSound` with what it needs of the calls under way: the compilation that a
thread performs or waits for answers its key and began after the last `Clear` before the
call (`Owners`, `Waiters`), and `in_flight_` names exactly those that are not published
(`Registered`).  Without them a thread could publish what another one invalidated.

**GraphManager, SnapshotTransfer** (`GraphManagerAssumption`, `TransferAssumption`: any names,
directory ids and indexes, any number of faults, crashes, power losses and torn directories).
`SnapshotTransferProofs` proves

* `CatalogSurvivesCrashes` (`GraphsSound`): whatever crash or power loss comes next, the
  catalog that it leaves names each graph once, and each graph that was not deleted and that
  no power loss tore has its directory and a Raft log that fits its data; handles have
  directories, and no reserved id is used again, whatever a power loss tears;
* `SlotIsReleased` (`SlotReleased`): the slot of an import is held while it waits or runs,
  and not longer, whichever of its steps fails;
* `InstallationIsAtomic` (`InstallAtomic`), an action property: the data under a name goes
  back to an earlier index only when a snapshot is published, the graph is deleted, or a
  power loss undoes its creation or tears its files, neither of which is synced.

`ManagerInv` says what an operation has established at each of its steps (`CreateOK`,
`DeleteOK`, `InstallOK`, `NewOK`), because a crash may strike there; that every catalog a
power loss may bring back is consistent (`OnDisk`), not only the current one; and that
handles, table and metadata agree up to the operation under way (`Memorised`, `Handles`,
`Table`).  `ImportInv` says that one import is under way and that the installation is its
own.

**BoltSession** (`BoltAssumption`: any number of requests, in flight and in all, and of rows).
`BoltSessionSafety` proves

* `RequestsAnsweredInOrder` (`AnsweredInOrder`): requests are answered in the order they
  came, each once, whatever path a handler takes and however a RESET overtakes it;
* `InterruptsAreExact` (`InterruptsExact`): an interrupt cancels the query that runs and none
  that is dispatched after the RESET;
* `NoTransactionIsLeaked` (`SessionSound`): between requests the state of the session tells
  what it holds, and a transaction that is active is held by someone who will end it;
* `ClientIsToldTheTruth` (`AnswersAreTrue`): a request that was answered with IGNORED or
  FAILURE had committed nothing before its answer, and a COMMIT that was answered with
  SUCCESS did commit.

They rest on `SessionInvariant`: `Spec => []IInv`, whose six parts build on each other.
`OrderInv`: every request is in one place (answered, posted, with the task, on the strand,
or with the IO thread), in the order of their numbers.  `InterruptInv`: the counter of
interrupts is the number of RESETs that were read and not dispatched, plus one for a close;
the number of RESETs is given as a function of the position, since counting is an
induction over data.  `TokenInv`: the installed token is cancelled by a pending interrupt
and by nothing else.  `SessionInv`: what a handler finds where it goes on after the IO
thread ran, and that every open query has the installed token.  `FateInv`: what the session
holds is active, what is active is held, and only requests that were dispatched began a
transaction.  `AnswersInv`: an answer that is posted is true already, and stays true until
it is sent, because a request is answered once.

The SMT encoding of sequences of tlapm 1.4.5 contains `(DOMAIN s = 1..n) <=> (Len(s) = n)`
for every value `s`, although `Len` is unspecified outside sequences.  The proofs do not
depend on it: they were also checked with the implication from left to right alone.

*Only model-checked.*  Liveness under fairness (`ProposalsEnd`, `CallsReturn`, `SessionsEnd`,
`WaitEnds`, `Settles`) and everything about `ENABLED`: TLAPS does not prove them here.
`BytesExact` is a sum over a set, and the reference values of `raft_log` and the laws of
`queries` are about recursive definitions: they need induction over data.  The Raft core and
its configurations, the refinement of `AbstractLog`, the id generator and both kinds of
indexes have scenarios as constants, which fix what may happen; an invariant for every
state they may be found in has not been stated.

## 5. Finding

`ids_failover`: a test expects ids to grow when the replica that hands them out is replaced
(`tests/graphdb/graph_db_test.cc:247`).  A replica takes the next range from a counter that
it raises when it applies the entry of the leader, and nothing makes a new leader apply what
it inherited before it serves: elected in between, it stores the same range again and
returns ids that its predecessor returned.  The counters are then stored without a
comparison, which undoes what the apply thread had raised.

## 6. Other disagreements and observations

Read from the code while modelling it; the hazards of `PROJECT.json` refer to them.  No
violation run shows these.  A name in brackets is the predicate or the history variable by
which a property excepts the case: a run reaches it, and the property claims nothing of it.
What has no name is outside the scenarios and statements of the runs, so that nothing here
is checked of it.

*Where the code departs from a text of the repository*

* `raft_driver/raft_log_store.cc:113` writes the hard state with the default
  `WriteOptions`, that is without `sync`, and `CheckReady` then sends the vote, which a
  loss of power can undo.  `etcd_raft/raft.h:702`: "It would be incorrect to publish a vote
  in an election before that vote has been synced to stable storage locally".
* `server/graph_manager.cc:531`: `RemoveManagedRaftNode` checks leader and voters before it
  proposes, and nobody checks again.  On node 2, while node 1 leads, removing node 2 passes;
  leadership moves to node 2 and node 1 is removed; now the first call proposes, and
  applying the entry ends the process ("removed all voters"), also after each restart.
  `README.md:262`: "The last voter cannot be removed or demoted".
* `graphdb/graph_db_index_build.cc:96`: the snapshot of a build does not wait for active
  transactions.  One that wrote before the index existed has no pending update when it
  commits (`transaction.cc:464`), so that two vertices may share a value under a unique
  index that is ready (`docs/builtin_procedures.md:90`).  `PublishedExact` names these
  vertices (`missed`), and those that a transaction wrote both before and after the
  publication: the update that it logged first is written last.
* `server/http_server.cc:421`: a follower reports at most three times, a trigger that is
  lost or throws is only logged (`raft_server.cc:57`), and the leader reports a failure
  itself only without a connection (`raft_driver.cc:1160`).  The progress of the follower
  then stays in the snapshot state, although `raft.h:107` says the application "MUST report
  back".
* `OPTIONAL MATCH` as a nested apply over a filter that does not hand on the columns both
  sides share: a row counts as matched before the mappings are merged
  (`runtime/physical_executor_join.cc:1210`), so that one without a match is lost, as in
  `MATCH (n:A) OPTIONAL MATCH (n)-[r:K]->(m:B)-[:L]->(x)` (`LosesUnmatched`).
* A standalone `CALL` of a procedure that writes has no result columns, since only plans
  that end in `ProduceResults` or do not write keep theirs (`runtime/physical_plan.cc:500`);
  `README.md:226` shows such a call with `YIELD node_id, role, raft_index`.
* A vector index that is published over an empty snapshot is stored as READY with the
  position of its log but without a checkpoint (`graphdb/index.cc:1714`); a restart starts
  behind the vectors committed during the build.  `ClearData` leaves the same state
  (`Forgotten`).

*Indexes.*  Deleting an index and building another wait for each other's mutex and strand
(`MutualWait`).  A restarted or newly elected replica numbers the records of its search log
anew (`Renumbered`).  A text index whose records cannot be deleted after the commit of its
documents applies them twice (`TrimFails`).  A write that did not know of the index, or that
was made while an earlier one, timed out, was still to be applied, leaves an old document
(`Untold`).  `ResetForClear` sets the number of active callbacks to zero while one may
run.  Empty strings are documents when loaded, but not when updated.  `KnnSearch`, `Load`
and `ApplyWAL` use a vector store without asking whether it was released.  Full-text and
vector scans return vertices without asking whether they still exist.

*Graphs and snapshots.*  A creation that fails or crashes after its directory was opened
leaves `graph<next>`, which the next creation reuses with its Raft log, and which makes
later installations fail.  Creations and deletions are not synced, and neither is anything
in a directory (`torn`): after a power loss the published catalog may name a replacement
whose files are lost, when the old directory has been removed already, and a graph's data
and its Raft log, separate databases, may have lost different amounts.  `RaftDriver::Run`
ends the process when the applied index is beyond the committed one, and with an empty log
and no initial peers it bootstraps nothing.  A deletion that fails
in the metadata leaves the graph's Raft group stopped; two failures in a row can leave a
name without a handle.  An installation resets the hard state, and may install a checkpoint
older than the data.  A follower whose graph is deleted and created again stays behind
under the same leader.

*Statements.*  An ordering is taken to hold although a projection rebinds its variable or a
write changes it (`StaleOrder`).  Consecutive updating clauses, and the projection of a part
that writes what it returns, run row by row (`RowByRow`).  `MERGE ... ON MATCH` writes while
it iterates, and a `MERGE` of two undirected relationships may match one of them twice
(`MergeMismatches`).  `MATCH` after `OPTIONAL MATCH` in one part joins the required pattern
(`RequiredAfterOptional`).  Shortest paths miss undirected cycles, and with a least length
of two or more may miss others (`LosesShortest`).  `SET n.x = EXISTS {...}` followed by
`RETURN *` returns a helper column (`ReturnsHelper`).  `EXISTS` inside a quantifier is
evaluated before its variable is bound, and in a `WHERE` it finds no plan
(`SubqueryInQuantifier`).  Hash joins compare by grouping equality, so that NaN joins with
NaN.  `UNION` with a branch that returns nothing is an internal error.  Creating an index by
`CALL` is not undone by a rollback.

*Types.*  The validator infers an integer for the power of integers, which is a float; a
float for one that multiplies a duration and for a sum of no floats; a known type for
`coalesce`, for `reduce` and for lists with an unknown part (`Overstates`).  It keeps the
type of a variable from before a projection, so that `WITH id(n) AS n WHERE n - 1 > 0` is
refused (`MeansTwoThings`).

*Values.*  Maps are ordered by their printed text, in which a double has six digits:
`{a: 1000000}` and `{a: 1000000.0}` are equal but sorted apart, and lists of such maps have
no strict weak order (`MapMisprinted`).  The same holds of negative zero, which the floats
of the model lack.

*Temporal values.*  Between date-times of different offsets the months are counted in local
time and may overshoot, the rest pointing back.  The year 0 counts as no year.  A text with
a named zone that contains a sign keeps the offset 0.  The second of two equal local times
in a change of offset cannot be named.  Conversions pass through `std::chrono::year`, which
has 16 bits, while years up to 999999999 are accepted.  A duration of more than 2^63
nanoseconds is printed as a text that the parser refuses; its arithmetic in `long double`
rounds from about 2^33 seconds on; and months and days of maps and texts are cast to
integers without a check.

## 7. Not modelled

* *External libraries*: RocksDB (atomic batches, snapshots and key locks as its users see
  them), tantivy, the vector library, brpc and asio.  Disk errors that the code answers
  with `LOG_FATAL` end the process, which is a restart here.
* *Code without a caller*: read-only requests, asynchronous storage writes and joint
  configurations of the Raft library, and its storage in memory.
* *Bytes*: the Bolt encoding, handshake, chunks and write batches, the keys and values in
  RocksDB, the archive of a snapshot.  They are sequential conversions; the models have
  values where they have bytes.
* *Generated code* (the parser, protobuf) and the builder of the syntax tree, which follows
  the grammar rule by rule: statements are given as syntax trees.
* *Costs and cardinalities* of the planner, which decide among plans that are all checked.
* *Edge property indexes*, which repeat the code of vertex property indexes, and property
  indexes under raft, edge ids, edge types and property names, which use the code of vertex
  ids and labels for other counters.
* *The ring of inflight messages* and the reconnects of peers: they delay and lose messages,
  which the network of `RaftCore` does in any case.
* *Flags, logging, statistics and the command-line tools*, which no behaviour reads back.
