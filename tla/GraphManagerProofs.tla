------------------------- MODULE GraphManagerProofs -------------------------
(***************************************************************************)
(* The inductive invariant of the catalog of graphs, and the steps that    *)
(* create, use, delete and open graphs, that fail or that crash, and those *)
(* that install a snapshot as long as the old graph is open.               *)
(* SnapshotTransferProofs has the rest of the installation.                *)
(***************************************************************************)
EXTENDS GraphManager, TLAPS

\* The operations by what they have done so far.
Creating == {"opened", "started"}
Copying == {"reserved", "made", "moved", "logged"}
Swapping == {"closed", "replacing"}
Undoing == {"catch", "reopened"}
Installing == {"wait", "published"} \cup Copying \cup Swapping \cup Undoing

Operations ==
  [pc : {"idle", "delete"} \cup Creating \cup Installing,
   name : Names, id : Nat, index : 0 .. MaxIndex, new : Nat]

\* A version of the metadata: its ids are below NextGraphID, and no two have
\* the same name.
Consistent(m) ==
  /\ m.next \in Nat \ {0}
  /\ \A i \in DOMAIN m.graphs : i \in Ids /\ m.graphs[i] \in Names /\ i < m.next
  /\ \A i, j \in DOMAIN m.graphs : m.graphs[i] = m.graphs[j] => i = j

\* The metadata that a power loss can leave, and what must be on disk for it.
OnDisk ==
  /\ meta \in history
  /\ \A m \in history : Consistent(m)
  /\ \A i \in DOMAIN dirs : dirs[i] \in [apply : Nat, log : Nat]
  /\ \A i \in DOMAIN dirs \ torn : dirs[i].log = NoLog \/ dirs[i].log <= dirs[i].apply
  /\ \A m \in history : \A i \in DOMAIN m.graphs \ (dropped \cup torn) :
        i \in DOMAIN dirs /\ (m.graphs[i] \in Raft => dirs[i].log # NoLog)
  /\ \A m \in history : dropped = {} =>
        \A i \in DOMAIN m.graphs : i \in DOMAIN meta.graphs /\ meta.graphs[i] = m.graphs[i]

\* A process that does not run has no handles.
Down ==
  /\ op = Idle /\ open = {} /\ DOMAIN graphs = {} /\ nulled = {} /\ drop = {}
  /\ \A i \in Ids : users[i] = 0

\* What the running process knows agrees with the metadata.
Memorised ==
  /\ up \in BOOLEAN /\ next \in Nat /\ reserved \subseteq Nat
  /\ ~up => Down
  /\ up => next = meta.next
  /\ up => \A i \in DOMAIN meta.graphs : meta.graphs[i] \in DOMAIN graphs
  /\ DOMAIN graphs \subseteq Names

\* The handles: what is open has a directory and an id that was taken.
Handles ==
  /\ open \subseteq DOMAIN dirs /\ open \subseteq Ids
  /\ users \in [Ids -> Nat] /\ \A i \in Ids : users[i] > 0 => i \in open
  /\ drop \subseteq dropped
  /\ \A i \in open : i < next \/ (i = op.id /\ op.pc \in Creating)

\* A graph in graphs_ is open and has metadata, unless its deletion is under
\* way; a null handle is one that could not be reopened, or belongs to the
\* installation under way.
Table ==
  /\ \A n \in DOMAIN graphs : graphs[n] # 0 =>
        /\ graphs[n] \in open
        /\ \/ graphs[n] \in DOMAIN meta.graphs /\ meta.graphs[graphs[n]] = n
           \/ op.pc = "delete" /\ n = op.name
  /\ \A n \in DOMAIN graphs : graphs[n] = 0 =>
        n \in nulled \/ (n = op.name /\ op.pc \in Swapping \cup {"catch"})
  /\ \A n \in nulled : n \in DOMAIN graphs /\ graphs[n] = 0
  /\ op.pc \in Installing => op.name \notin nulled

\* The operation under way.
CreateOK ==
  op.pc \in Creating =>
     /\ up /\ op.id = next /\ op.id \in Ids /\ op.id \in open
     /\ op.name \notin DOMAIN graphs /\ users[op.id] = 0
     /\ op.pc = "started" => dirs[op.id].log # NoLog

DeleteOK ==
  op.pc = "delete" =>
     /\ up /\ op.id \in dropped /\ op.id \in Ids
     /\ op.name \in DOMAIN graphs /\ graphs[op.name] = op.id
     /\ \A i \in DOMAIN meta.graphs : i # op.id /\ meta.graphs[i] # op.name

InstallOK ==
  op.pc \in Installing =>
     /\ up /\ op.name \in DOMAIN graphs \cap Raft /\ op.id \in Ids
     /\ op.pc \in {"wait", "reopened"} \cup Copying => graphs[op.name] = op.id
     /\ op.pc \in Swapping => graphs[op.name] = 0
     /\ op.pc = "catch" => graphs[op.name] \in {0, op.id}
     /\ op.pc = "published" => graphs[op.name] = op.new
     /\ op.pc \in Swapping \cup {"published"} => op.id \notin open
     /\ op.pc # "published" => op.id \in DOMAIN meta.graphs /\ meta.graphs[op.id] = op.name
     /\ op.pc = "published" => op.id \notin DOMAIN meta.graphs
     /\ op.pc # "wait" => users[op.id] = 0 /\ op.id \in DOMAIN dirs /\ history = {meta}

\* The new graph, which nothing refers to before its publication.
NewOK ==
  op.pc \in Installing \ {"wait"} =>
     /\ op.new \in Ids /\ op.new < next /\ op.new # op.id /\ users[op.new] = 0
     /\ op.pc = "reserved" => op.new \notin DOMAIN dirs
     /\ op.pc \in {"made", "moved"} => op.new \in DOMAIN dirs /\ dirs[op.new].log = NoLog
     /\ op.pc = "moved" => dirs[op.new].apply = op.index
     /\ op.pc \in Swapping \cup {"logged"} => op.new \in DOMAIN dirs /\ dirs[op.new].log # NoLog
     /\ op.pc \in {"replacing", "published"} => op.new \in open
     /\ op.pc \notin {"replacing", "published"} => op.new \notin open
     /\ op.pc # "published" => op.new \notin DOMAIN meta.graphs

ManagerInv ==
  /\ op \in Operations
  /\ OnDisk /\ Memorised /\ Handles /\ Table
  /\ CreateOK /\ DeleteOK /\ InstallOK /\ NewOK
  /\ ReservedIdsNotReused

USE DEF Creating, Copying, Swapping, Undoing, Installing

-----------------------------------------------------------------------------
(* The state on disk.                                                      *)

\* A change of the directories that keeps those the metadata refers to.
LEMMA DirsKeep ==
  ASSUME OnDisk, meta' = meta, history' = history, dropped' = dropped, torn' = torn,
         \A i \in DOMAIN dirs' :
            /\ dirs'[i] \in [apply : Nat, log : Nat]
            /\ i \in torn \/ dirs'[i].log = NoLog \/ dirs'[i].log <= dirs'[i].apply,
         \A m \in history : \A i \in DOMAIN m.graphs \ (dropped \cup torn) :
            i \in DOMAIN dirs =>
               i \in DOMAIN dirs' /\ (dirs[i].log # NoLog => dirs'[i].log # NoLog)
  PROVE  OnDisk'
<1>1. \A m \in history : \A i \in DOMAIN m.graphs \ (dropped \cup torn) :
        i \in DOMAIN dirs' /\ (m.graphs[i] \in Raft => dirs'[i].log # NoLog)
  BY Zenon DEF OnDisk
<1>. QED
  BY DEF OnDisk

\* GraphDB::Open makes a directory that is not there.
LEMMA FreshDir ==
  /\ Fresh \in [apply : Nat, log : Nat] /\ Fresh.log = NoLog /\ Fresh.apply = 0
  /\ NoLog \in Nat /\ \A i \in 0 .. MaxIndex : i # NoLog /\ i \in Nat
  BY GraphManagerAssumption DEF Fresh, NoLog

-----------------------------------------------------------------------------
(* Creation.                                                               *)

\* CreateGraphWithId opens the directory of the next id, which no metadata has.
LEMMA CreateGraphKeeps ==
  ASSUME ManagerInv, NEW n \in Names, CreateGraph(n)
  PROVE  ManagerInv'
<1>a. up /\ op = Idle /\ n \notin DOMAIN graphs /\ next <= MaxId
  BY Zenon DEF CreateGraph, Quiet
<1>b. next \in Ids /\ next = meta.next
  BY <1>a DEF ManagerInv, Memorised, OnDisk, Consistent, Ids
<1>c. op' \in Operations /\ op'.pc = "opened" /\ op'.name = n /\ op'.id = next
  BY <1>b, GraphManagerAssumption DEF CreateGraph, Operation, Operations, Ids
<1>0. /\ op.pc = "idle" /\ open' = open \cup {next}
      /\ meta' = meta /\ history' = history /\ up' = up /\ next' = next /\ graphs' = graphs
      /\ users' = users /\ drop' = drop /\ reserved' = reserved /\ dropped' = dropped /\ torn' = torn
      /\ nulled' = nulled
  BY <1>a, Zenon DEF CreateGraph, Memory, past, Idle, Operation
<1>1. /\ \A i \in DOMAIN dirs : i \in DOMAIN dirs' /\ dirs'[i] = dirs[i]
      /\ next \in DOMAIN dirs'
      /\ \A i \in DOMAIN dirs' : i \in DOMAIN dirs \/ dirs'[i] = Fresh
  BY Zenon DEF CreateGraph, OpenDir, Put
<1>2. OnDisk'
  BY <1>0, <1>1, FreshDir DEF ManagerInv, OnDisk
<1>3. Memorised'
  BY <1>a, <1>0, Zenon DEF ManagerInv, Memorised
<1>4. Handles'
  BY <1>b, <1>c, <1>0, <1>1, Zenon DEF ManagerInv, Handles
<1>5. Table'
  BY <1>c, <1>0, Zenon DEF ManagerInv, Table
<1>6. CreateOK'
  BY <1>a, <1>b, <1>c, <1>0 DEF ManagerInv, CreateOK, Handles, Memorised
<1>7. DeleteOK' /\ InstallOK' /\ NewOK'
  BY <1>c, Zenon DEF DeleteOK, InstallOK, NewOK
<1>8. ReservedIdsNotReused'
  BY <1>0, Zenon DEF ManagerInv, ReservedIdsNotReused
<1>. QED
  BY <1>c, <1>2, <1>3, <1>4, <1>5, <1>6, <1>7, <1>8, Zenon DEF ManagerInv

\* StartGraphRaft bootstraps a log that begins before everything applied.
LEMMA StartGraphRaftKeeps ==
  ASSUME ManagerInv, StartGraphRaft
  PROVE  ManagerInv'
<1>0. /\ op.pc = "opened" /\ op \in Operations
      /\ open' = open /\ meta' = meta /\ history' = history /\ up' = up /\ next' = next
      /\ graphs' = graphs /\ users' = users /\ drop' = drop /\ reserved' = reserved
      /\ dropped' = dropped /\ torn' = torn /\ nulled' = nulled
  BY Zenon DEF StartGraphRaft, Memory, past, ManagerInv
<1>1. op' \in Operations /\ op'.pc = "started" /\ op'.name = op.name /\ op'.id = op.id
  BY <1>0, Zenon DEF StartGraphRaft, Operations
<1>2. op.id \in DOMAIN dirs /\ dirs[op.id] \in [apply : Nat, log : Nat]
  BY <1>0, Zenon DEF ManagerInv, CreateOK, Handles, OnDisk
<1>3. /\ DOMAIN dirs' = DOMAIN dirs /\ \A i \in DOMAIN dirs : i # op.id => dirs'[i] = dirs[i]
      /\ dirs'[op.id] \in [apply : Nat, log : Nat] /\ dirs'[op.id].apply = dirs[op.id].apply
      /\ dirs'[op.id].log = (IF dirs[op.id].log = NoLog THEN 0 ELSE dirs[op.id].log)
      /\ dirs'[op.id].log # NoLog
  BY <1>2, FreshDir, GraphManagerAssumption DEF StartGraphRaft
<1>4. OnDisk'
  <2>1. \A i \in DOMAIN dirs' :
          /\ dirs'[i] \in [apply : Nat, log : Nat]
          /\ i \in torn \/ dirs'[i].log = NoLog \/ dirs'[i].log <= dirs'[i].apply
    BY <1>3 DEF ManagerInv, OnDisk
  <2>. QED
    BY <1>0, <1>3, <2>1, DirsKeep, Zenon DEF ManagerInv
<1>5. Memorised'
  BY <1>0, Zenon DEF ManagerInv, Memorised, CreateOK
<1>6. Handles'
  BY <1>0, <1>1, <1>3, Zenon DEF ManagerInv, Handles
<1>7. Table'
  BY <1>0, <1>1, Zenon DEF ManagerInv, Table
<1>8. CreateOK'
  BY <1>0, <1>1, <1>3, Zenon DEF ManagerInv, CreateOK
<1>9. DeleteOK' /\ InstallOK' /\ NewOK'
  BY <1>1, Zenon DEF DeleteOK, InstallOK, NewOK
<1>10. ReservedIdsNotReused'
  BY <1>0, Zenon DEF ManagerInv, ReservedIdsNotReused
<1>. QED
  BY <1>1, <1>4, <1>5, <1>6, <1>7, <1>8, <1>9, <1>10, Zenon DEF ManagerInv

\* The id of a creation that failed is not in graphs_.
LEMMA CreateThrowsKeeps ==
  ASSUME ManagerInv, CreateThrows
  PROVE  ManagerInv'
<1>0. /\ op.pc \in Creating /\ op' = Idle /\ open' = open \ {op.id}
      /\ meta' = meta /\ history' = history /\ dirs' = dirs /\ up' = up /\ next' = next
      /\ graphs' = graphs /\ users' = users /\ drop' = drop /\ reserved' = reserved
      /\ dropped' = dropped /\ torn' = torn /\ nulled' = nulled
  BY Zenon DEF CreateThrows, disk, Memory, past
<1>1. op' \in Operations /\ op'.pc = "idle"
  BY <1>0, GraphManagerAssumption DEF Idle, Operation, Operations
<1>2. OnDisk'
  BY <1>0, Zenon DEF ManagerInv, OnDisk
<1>3. Memorised'
  BY <1>0, Zenon DEF ManagerInv, Memorised, CreateOK
<1>4. Handles'
  BY <1>0 DEF ManagerInv, Handles, CreateOK
<1>5. Table'
  <2>1. \A m \in DOMAIN graphs : graphs[m] # 0 => graphs[m] # op.id
    BY <1>0 DEF ManagerInv, Table, CreateOK, OnDisk, Consistent, Memorised, Ids
  <2>. QED
    BY <1>0, <1>1, <2>1, Zenon DEF ManagerInv, Table
<1>6. CreateOK' /\ DeleteOK' /\ InstallOK' /\ NewOK'
  BY <1>1, Zenon DEF CreateOK, DeleteOK, InstallOK, NewOK
<1>7. ReservedIdsNotReused'
  BY <1>0, Zenon DEF ManagerInv, ReservedIdsNotReused
<1>. QED
  BY <1>1, <1>2, <1>3, <1>4, <1>5, <1>6, <1>7, Zenon DEF ManagerInv

\* The batch of a creation adds a new id and a new name, above the ids before.
LEMMA PublishGraphKeeps ==
  ASSUME ManagerInv, PublishGraph
  PROVE  ManagerInv'
<1>0. /\ op.pc \in Creating /\ (op.name \in Raft => op.pc = "started") /\ op' = Idle
      /\ meta' = Metadata(Put(meta.graphs, op.id, op.name), op.id + 1)
      /\ history' = history \cup {meta'}
      /\ graphs' = Put(graphs, op.name, op.id)
      /\ next' = IF next < op.id + 1 THEN op.id + 1 ELSE next
      /\ dirs' = dirs /\ open' = open /\ up' = up /\ users' = users /\ drop' = drop
      /\ reserved' = reserved /\ dropped' = dropped /\ torn' = torn /\ nulled' = nulled
  BY Zenon DEF PublishGraph, WriteMeta, past
<1>1. op' \in Operations /\ op'.pc = "idle"
  BY <1>0, GraphManagerAssumption DEF Idle, Operation, Operations
<1>2. /\ up /\ op.id = next /\ next = meta.next /\ next \in Ids /\ op.name \in Names
      /\ op.name \notin DOMAIN graphs /\ op.id \in open /\ op.id \in DOMAIN dirs
      /\ op.pc = "started" => dirs[op.id].log # NoLog
  BY <1>0, Zenon DEF ManagerInv, CreateOK, Memorised, Handles, Operations
<1>3. /\ meta'.next = next + 1 /\ next' = next + 1
      /\ DOMAIN meta'.graphs = DOMAIN meta.graphs \cup {next}
      /\ meta'.graphs[next] = op.name /\ next \notin DOMAIN meta.graphs
      /\ \A i \in DOMAIN meta.graphs : meta'.graphs[i] = meta.graphs[i]
      /\ DOMAIN graphs' = DOMAIN graphs \cup {op.name} /\ graphs'[op.name] = next
      /\ \A m \in DOMAIN graphs : graphs'[m] = graphs[m]
  <2>1. next \notin DOMAIN meta.graphs /\ next \in Nat
    BY <1>2 DEF ManagerInv, OnDisk, Consistent, Ids
  <2>2. meta'.next = next + 1 /\ meta'.graphs = Put(meta.graphs, next, op.name)
    BY <1>0, <1>2, Zenon DEF Metadata
  <2>3. /\ DOMAIN meta'.graphs = DOMAIN meta.graphs \cup {next} /\ meta'.graphs[next] = op.name
        /\ \A i \in DOMAIN meta.graphs : i # next => meta'.graphs[i] = meta.graphs[i]
    BY <2>2, Zenon DEF Put
  <2>4. /\ DOMAIN graphs' = DOMAIN graphs \cup {op.name} /\ graphs'[op.name] = next
        /\ \A m \in DOMAIN graphs : m # op.name => graphs'[m] = graphs[m]
    BY <1>0, <1>2, Zenon DEF Put
  <2>. QED
    BY <1>0, <1>2, <2>1, <2>2, <2>3, <2>4
<1>4. Consistent(meta')
  <2>1. Consistent(meta) /\ \A i \in DOMAIN meta.graphs : meta.graphs[i] # op.name
    BY <1>2, Zenon DEF ManagerInv, OnDisk, Memorised
  <2>. QED
    BY <1>2, <1>3, <2>1 DEF Consistent, Ids
<1>5. OnDisk'
  <2>1. \A m \in history' : \A i \in DOMAIN m.graphs \ (dropped \cup torn) :
          i \in DOMAIN dirs /\ (m.graphs[i] \in Raft => dirs[i].log # NoLog)
    BY <1>0, <1>2, <1>3 DEF ManagerInv, OnDisk
  <2>2. \A m \in history' : dropped = {} =>
          \A i \in DOMAIN m.graphs : i \in DOMAIN meta'.graphs /\ meta'.graphs[i] = m.graphs[i]
    BY <1>0, <1>3 DEF ManagerInv, OnDisk
  <2>. QED
    BY <1>0, <1>4, <2>1, <2>2 DEF ManagerInv, OnDisk
<1>6. Memorised'
  BY <1>0, <1>2, <1>3 DEF ManagerInv, Memorised, Ids
<1>7. Handles'
  BY <1>0, <1>2 DEF ManagerInv, Handles, Ids
<1>8. Table'
  BY <1>0, <1>1, <1>2, <1>3 DEF ManagerInv, Table, Ids
<1>9. CreateOK' /\ DeleteOK' /\ InstallOK' /\ NewOK'
  BY <1>1 DEF CreateOK, DeleteOK, InstallOK, NewOK
<1>10. ReservedIdsNotReused'
  <2>1. ReservedIdsNotReused /\ next \in Nat /\ reserved \subseteq Nat
    BY Zenon DEF ManagerInv, Memorised
  <2>2. \A m \in history' \cup {meta'} : m \in history \/ m.next = next + 1
    BY <1>0, <1>3, Zenon
  <2>3. next' = next + 1 /\ reserved' = reserved
    BY <1>0, <1>3, Zenon
  <2>. QED
    BY <2>1, <2>2, <2>3 DEF ReservedIdsNotReused
<1>. QED
  BY <1>1, <1>5, <1>6, <1>7, <1>8, <1>9, <1>10 DEF ManagerInv

-----------------------------------------------------------------------------
(* Use.                                                                    *)

\* Sessions share only graphs that are open.
LEMMA OpenGraphKeeps ==
  ASSUME ManagerInv, NEW n \in Names, OpenGraph(n)
  PROVE  ManagerInv'
<1>0. /\ up /\ op.pc \in Creating \cup {"idle"} /\ n \in DOMAIN graphs /\ graphs[n] # 0
      /\ users' = [users EXCEPT ![graphs[n]] = 1]
      /\ meta' = meta /\ history' = history /\ dirs' = dirs /\ up' = up /\ next' = next
      /\ graphs' = graphs /\ open' = open /\ op' = op /\ drop' = drop /\ reserved' = reserved
      /\ dropped' = dropped /\ torn' = torn /\ nulled' = nulled
  BY DEF OpenGraph, Readable, Idle, Operation, disk, past
<1>1. graphs[n] \in open /\ graphs[n] \in DOMAIN meta.graphs
  BY <1>0, Zenon DEF ManagerInv, Table
<1>2. OnDisk' /\ Memorised' /\ Table'
  BY <1>0 DEF ManagerInv, OnDisk, Memorised, Table
<1>3. Handles'
  BY <1>0, <1>1, Zenon DEF ManagerInv, Handles
<1>4. CreateOK'
  <2>1. op.pc \in Creating => graphs[n] # op.id
    BY <1>1 DEF ManagerInv, CreateOK, OnDisk, Consistent, Memorised, Ids
  <2>. QED
    BY <1>0, <2>1, Zenon DEF ManagerInv, CreateOK, Handles
<1>5. DeleteOK' /\ InstallOK' /\ NewOK'
  BY <1>0, Zenon DEF DeleteOK, InstallOK, NewOK
<1>6. ReservedIdsNotReused' /\ op' \in Operations
  BY <1>0, Zenon DEF ManagerInv, ReservedIdsNotReused
<1>. QED
  BY <1>2, <1>3, <1>4, <1>5, <1>6, Zenon DEF ManagerInv

\* The last session of a deleted graph closes it and removes its directory.
LEMMA ReleaseKeeps ==
  ASSUME ManagerInv, NEW i \in Ids, Release(i)
  PROVE  ManagerInv'
<1>0. /\ up /\ users[i] = 1 /\ users' = [users EXCEPT ![i] = 0]
      /\ meta' = meta /\ history' = history /\ up' = up /\ next' = next
      /\ graphs' = graphs /\ op' = op /\ reserved' = reserved
      /\ dropped' = dropped /\ torn' = torn /\ nulled' = nulled
  BY Zenon DEF Release, past
<1>1. /\ users' \in [Ids -> Nat] /\ users'[i] = 0 /\ \A j \in Ids \ {i} : users'[j] = users[j]
  BY <1>0, Zenon DEF ManagerInv, Handles
<1>2. \/ open' = open /\ dirs' = dirs /\ drop' = drop
      \/ /\ \A n \in DOMAIN graphs : graphs[n] # i
         /\ open' = open \ {i} /\ drop' = drop \ {i}
         /\ dirs' = dirs \/ (i \in drop /\ dirs' = Only(dirs, DOMAIN dirs \ {i}))
  BY Zenon DEF Release
<1>3. /\ \A j \in DOMAIN dirs' : j \in DOMAIN dirs /\ dirs'[j] = dirs[j]
      /\ \A j \in DOMAIN dirs : j \in DOMAIN dirs' \/ (j = i /\ i \in drop /\ i \notin open')
  BY <1>2, Zenon DEF Only
<1>4. OnDisk'
  BY <1>0, <1>3 DEF ManagerInv, OnDisk, Handles
<1>5. Memorised'
  BY <1>0, Zenon DEF ManagerInv, Memorised
<1>6. Handles'
  BY <1>0, <1>2, <1>3 DEF ManagerInv, Handles
<1>7. Table'
  BY <1>0, <1>2, Zenon DEF ManagerInv, Table
<1>8. CreateOK'
  <2>1. op.pc \in Creating => op.id # i /\ op.id \in open /\ op.id \in DOMAIN dirs
    BY <1>0 DEF ManagerInv, CreateOK, Handles
  <2>. QED
    BY <1>0, <1>2, <1>3, <2>1 DEF ManagerInv, CreateOK
<1>9. DeleteOK'
  BY <1>0, Zenon DEF ManagerInv, DeleteOK
<1>10. InstallOK'
  <2>1. op.pc \in Installing \ {"wait"} => op.id # i
    BY <1>0 DEF ManagerInv, InstallOK
  <2>. QED
    BY <1>0, <1>2, <1>3 DEF ManagerInv, InstallOK
<1>11. NewOK'
  <2>1. op.pc \in Installing \ {"wait"} => op.new # i
    BY <1>0 DEF ManagerInv, NewOK
  <2>. QED
    BY <1>0, <1>2, <1>3 DEF ManagerInv, NewOK
<1>12. ReservedIdsNotReused' /\ op' \in Operations
  BY <1>0, Zenon DEF ManagerInv, ReservedIdsNotReused
<1>. QED
  BY <1>4, <1>5, <1>6, <1>7, <1>8, <1>9, <1>10, <1>11, <1>12, Zenon DEF ManagerInv

\* Applying an entry changes the applied index of an open directory.
LEMMA ApplyKeeps ==
  ASSUME ManagerInv, NEW n \in Names, Apply(n)
  PROVE  ManagerInv'
<1>. DEFINE i == graphs[n]
<1>0. /\ up /\ n \in DOMAIN graphs /\ i \in open
      /\ meta' = meta /\ history' = history /\ up' = up /\ next' = next /\ users' = users
      /\ drop' = drop /\ open' = open /\ graphs' = graphs /\ op' = op /\ reserved' = reserved
      /\ dropped' = dropped /\ torn' = torn /\ nulled' = nulled
  BY Zenon DEF Apply, Memory, past
<1>1. i \in DOMAIN dirs /\ dirs[i] \in [apply : Nat, log : Nat]
  BY <1>0, Zenon DEF ManagerInv, Handles, OnDisk
<1>2. /\ DOMAIN dirs' = DOMAIN dirs /\ \A j \in DOMAIN dirs : j # i => dirs'[j] = dirs[j]
      /\ dirs'[i] \in [apply : Nat, log : Nat] /\ dirs'[i].apply = dirs[i].apply + 1
      /\ dirs'[i].log = dirs[i].log
  BY <1>1 DEF Apply
<1>. HIDE DEF i
<1>3. OnDisk'
  <2>1. \A j \in DOMAIN dirs' :
          /\ dirs'[j] \in [apply : Nat, log : Nat]
          /\ j \in torn \/ dirs'[j].log = NoLog \/ dirs'[j].log <= dirs'[j].apply
    BY <1>2 DEF ManagerInv, OnDisk
  <2>. QED
    BY <1>0, <1>2, <2>1, DirsKeep, Zenon DEF ManagerInv
<1>4. Memorised' /\ Table'
  BY <1>0, Zenon DEF ManagerInv, Memorised, Table
<1>5. Handles'
  BY <1>0, <1>2, Zenon DEF ManagerInv, Handles
<1>6. CreateOK' /\ DeleteOK'
  BY <1>0, <1>2, Zenon DEF ManagerInv, CreateOK, DeleteOK, Handles
<1>7. InstallOK'
  BY <1>0, <1>2, Zenon DEF ManagerInv, InstallOK
<1>8. NewOK'
  BY <1>0, <1>2, Zenon DEF ManagerInv, NewOK
<1>9. ReservedIdsNotReused' /\ op' \in Operations
  BY <1>0, Zenon DEF ManagerInv, ReservedIdsNotReused
<1>. QED
  BY <1>3, <1>4, <1>5, <1>6, <1>7, <1>8, <1>9, Zenon DEF ManagerInv

-----------------------------------------------------------------------------
(* Deletion.                                                               *)

\* DeleteGraph removes the metadata first; the directory may go afterwards.
LEMMA DeleteGraphKeeps ==
  ASSUME ManagerInv, NEW n \in Names, DeleteGraph(n)
  PROVE  ManagerInv'
<1>. DEFINE i == graphs[n]
<1>0. /\ up /\ op.pc = "idle" /\ n \in DOMAIN graphs /\ i # 0
      /\ meta' = Metadata(Only(meta.graphs, DOMAIN meta.graphs \ {i}), meta.next)
      /\ history' = history \cup {meta'} /\ dropped' = dropped \cup {i} /\ torn' = torn
      /\ op' = Operation("delete", n, i, 0)
      /\ dirs' = dirs /\ up' = up /\ next' = next /\ graphs' = graphs /\ open' = open
      /\ users' = users /\ drop' = drop /\ reserved' = reserved /\ nulled' = nulled
  BY Zenon DEF DeleteGraph, Quiet, Idle, Operation, WriteMeta, Memory
<1>1. i \in open /\ i \in Ids /\ i \in DOMAIN meta.graphs /\ meta.graphs[i] = n
  BY <1>0, Zenon DEF ManagerInv, Table, Handles
<1>a. op' = Operation("delete", n, i, 0)
  BY <1>0, Zenon
<1>2. op' \in Operations /\ op'.pc = "delete" /\ op'.name = n /\ op'.id = i
  BY <1>a, <1>1, GraphManagerAssumption DEF Operation, Operations, Ids
<1>3. /\ meta'.next = meta.next /\ DOMAIN meta'.graphs = DOMAIN meta.graphs \ {i}
      /\ \A j \in DOMAIN meta'.graphs : meta'.graphs[j] = meta.graphs[j]
  BY <1>0, Zenon DEF Metadata, Only
<1>. HIDE DEF i
<1>4. Consistent(meta')
  <2>1. Consistent(meta)
    BY Zenon DEF ManagerInv, OnDisk
  <2>. QED
    BY <1>3, <2>1, Zenon DEF Consistent
<1>5. OnDisk'
  <2>1. \A m \in history' : \A j \in DOMAIN m.graphs \ (dropped' \cup torn) :
          j \in DOMAIN dirs /\ (m.graphs[j] \in Raft => dirs[j].log # NoLog)
    <3>. SUFFICES ASSUME NEW m \in history', NEW j \in DOMAIN m.graphs \ (dropped' \cup torn)
                  PROVE  j \in DOMAIN dirs /\ (m.graphs[j] \in Raft => dirs[j].log # NoLog)
      BY Zenon
    <3>1. CASE m \in history
      BY <1>0, <3>1, Zenon DEF ManagerInv, OnDisk
    <3>2. CASE m = meta'
      BY <1>0, <1>3, <3>2, Zenon DEF ManagerInv, OnDisk
    <3>. QED
      BY <1>0, <3>1, <3>2, Zenon
  <2>. QED
    BY <1>0, <1>4, <2>1, Zenon DEF ManagerInv, OnDisk
<1>6. Memorised'
  BY <1>0, <1>3, Zenon DEF ManagerInv, Memorised
<1>7. Handles'
  BY <1>0, Zenon DEF ManagerInv, Handles
<1>8. Table'
  <2>1. \A m \in DOMAIN graphs : graphs[m] = i => m = n
    BY <1>0 DEF ManagerInv, Table, i
  <2>. QED
    BY <1>0, <1>2, <1>3, <2>1, ZenonT(30) DEF ManagerInv, Table
<1>9. DeleteOK'
  <2>1. \A j \in DOMAIN meta'.graphs : meta'.graphs[j] # n
    BY <1>1, <1>3 DEF ManagerInv, OnDisk, Consistent
  <2>. QED
    BY <1>0, <1>1, <1>2, <1>3, <2>1, Zenon DEF DeleteOK, i
<1>10. CreateOK' /\ InstallOK' /\ NewOK'
  BY <1>2, Zenon DEF CreateOK, InstallOK, NewOK
<1>11. ReservedIdsNotReused'
  BY <1>0, <1>3, Zenon DEF ManagerInv, ReservedIdsNotReused
<1>. QED
  BY <1>2, <1>5, <1>6, <1>7, <1>8, <1>9, <1>10, <1>11, Zenon DEF ManagerInv

\* The directory of a deleted graph goes once no session uses it.
LEMMA EraseGraphKeeps ==
  ASSUME ManagerInv, EraseGraph
  PROVE  ManagerInv'
<1>0. /\ op.pc = "delete" /\ graphs' = Only(graphs, DOMAIN graphs \ {op.name}) /\ op' = Idle
      /\ meta' = meta /\ history' = history /\ up' = up /\ next' = next /\ users' = users
      /\ reserved' = reserved /\ dropped' = dropped /\ torn' = torn /\ nulled' = nulled
  BY Zenon DEF EraseGraph, past
<1>1. op' \in Operations /\ op'.pc = "idle"
  BY <1>0, GraphManagerAssumption DEF Idle, Operation, Operations
<1>2. /\ up /\ op.id \in dropped /\ op.id \in Ids /\ op.name \in DOMAIN graphs
      /\ graphs[op.name] = op.id /\ op.name \notin nulled
      /\ \A i \in DOMAIN meta.graphs : i # op.id /\ meta.graphs[i] # op.name
  BY <1>0 DEF ManagerInv, DeleteOK, Table, Ids
<1>3. DOMAIN graphs' = DOMAIN graphs \ {op.name} /\ \A n \in DOMAIN graphs' : graphs'[n] = graphs[n]
  BY <1>0, Zenon DEF Only
<1>4. \/ /\ users[op.id] = 0 /\ open' = open \ {op.id} /\ drop' = drop
         /\ dirs' = Only(dirs, DOMAIN dirs \ {op.id})
      \/ drop' = drop \cup {op.id} /\ open' = open /\ dirs' = dirs
  BY Zenon DEF EraseGraph
<1>5. /\ \A j \in DOMAIN dirs' : j \in DOMAIN dirs /\ dirs'[j] = dirs[j]
      /\ \A j \in DOMAIN dirs : j \in DOMAIN dirs' \/ (j = op.id /\ op.id \notin open')
      /\ \A j \in open : j \in open' \/ (j = op.id /\ users[op.id] = 0)
      /\ open' \subseteq open /\ drop' \subseteq dropped
  BY <1>2, <1>4, Zenon DEF Only, ManagerInv, Handles
<1>6. OnDisk'
  BY <1>0, <1>2, <1>5 DEF ManagerInv, OnDisk
<1>7. Memorised'
  BY <1>0, <1>2, <1>3, Zenon DEF ManagerInv, Memorised
<1>8. Handles'
  BY <1>0, <1>5 DEF ManagerInv, Handles
<1>9. Table'
  <2>1. \A n \in DOMAIN graphs' : graphs[n] # 0 => graphs[n] # op.id
    BY <1>2, <1>3, Zenon DEF ManagerInv, Table
  <2>2. \A n \in DOMAIN graphs' : graphs'[n] # 0 =>
          graphs'[n] \in open' /\ graphs'[n] \in DOMAIN meta.graphs /\ meta.graphs[graphs'[n]] = n
    BY <1>3, <1>5, <2>1, Zenon DEF ManagerInv, Table
  <2>3. \A n \in DOMAIN graphs' : graphs'[n] = 0 => n \in nulled
    BY <1>3, Zenon DEF ManagerInv, Table
  <2>4. \A n \in nulled : n \in DOMAIN graphs' /\ graphs'[n] = 0
    BY <1>2, <1>3, Zenon DEF ManagerInv, Table
  <2>. QED
    BY <1>0, <1>1, <2>2, <2>3, <2>4, Zenon DEF Table
<1>10. CreateOK' /\ DeleteOK' /\ InstallOK' /\ NewOK'
  BY <1>1 DEF CreateOK, DeleteOK, InstallOK, NewOK
<1>11. ReservedIdsNotReused'
  BY <1>0, Zenon DEF ManagerInv, ReservedIdsNotReused
<1>. QED
  BY <1>1, <1>6, <1>7, <1>8, <1>9, <1>10, <1>11 DEF ManagerInv

-----------------------------------------------------------------------------
(* Crashes and restart.                                                    *)

\* What a power loss takes from the directories, it marks as torn.
LEMMA FilesLost ==
  ASSUME OnDisk, LoseFiles
  PROVE  /\ DOMAIN dirs' \subseteq DOMAIN dirs /\ torn \subseteq torn'
         /\ \A i \in DOMAIN dirs' : dirs'[i] \in [apply : Nat, log : Nat]
         /\ \A i \in DOMAIN dirs \ torn' : i \in DOMAIN dirs' /\ dirs'[i] = dirs[i]
<1>0. PICK kept \in SUBSET DOMAIN dirs :
        \E unlogged \in SUBSET kept : \E apply \in [kept -> 0 .. MaxIndex] :
           /\ dirs' = [i \in kept |-> [apply |-> apply[i],
                                       log |-> IF i \in unlogged THEN NoLog ELSE dirs[i].log]]
           /\ torn' = torn \cup {i \in DOMAIN dirs : i \in kept => dirs'[i] # dirs[i]}
  BY Zenon DEF LoseFiles
<1>1. PICK unlogged \in SUBSET kept, apply \in [kept -> 0 .. MaxIndex] :
        /\ dirs' = [i \in kept |-> [apply |-> apply[i],
                                    log |-> IF i \in unlogged THEN NoLog ELSE dirs[i].log]]
        /\ torn' = torn \cup {i \in DOMAIN dirs : i \in kept => dirs'[i] # dirs[i]}
  BY <1>0, Zenon
<1>2. DOMAIN dirs' = kept /\ \A i \in kept : dirs'[i] \in [apply : Nat, log : Nat]
  <2>1. \A i \in kept : /\ apply[i] \in Nat /\ dirs[i].log \in Nat
                        /\ dirs'[i] = [apply |-> apply[i],
                                       log |-> IF i \in unlogged THEN NoLog ELSE dirs[i].log]
    BY <1>1, FreshDir, Zenon DEF OnDisk
  <2>. QED
    BY <1>1, <2>1, FreshDir, Zenon
<1>. QED
  BY <1>1, <1>2, Zenon

\* A crash keeps the metadata; a power loss leaves one of its earlier versions.
LEMMA CrashKeeps ==
  ASSUME ManagerInv, Crash \/ PowerLoss
  PROVE  ManagerInv'
<1>0. /\ meta' \in history /\ ((history' = history /\ meta' = meta) \/ history' = {meta'})
      /\ up' = FALSE /\ op' = Idle /\ graphs' = <<>> /\ open' = {} /\ drop' = {} /\ nulled' = {}
      /\ users' = [i \in Ids |-> 0] /\ next' = next /\ reserved' = reserved
      /\ dropped' = dropped
  BY Zenon DEF Crash, PowerLoss, Stopped, ManagerInv, OnDisk, disk
<1>a. /\ DOMAIN dirs' \subseteq DOMAIN dirs /\ torn \subseteq torn'
      /\ \A i \in DOMAIN dirs' : dirs'[i] \in [apply : Nat, log : Nat]
      /\ \A i \in DOMAIN dirs \ torn' : i \in DOMAIN dirs' /\ dirs'[i] = dirs[i]
  BY FilesLost, Zenon DEF Crash, PowerLoss, ManagerInv, OnDisk, disk
<1>1. op' \in Operations /\ op'.pc = "idle"
  BY <1>0, GraphManagerAssumption DEF Idle, Operation, Operations
<1>2. OnDisk'
  <2>1. \A i \in DOMAIN dirs' \ torn' : dirs'[i].log = NoLog \/ dirs'[i].log <= dirs'[i].apply
    BY <1>a, Zenon DEF ManagerInv, OnDisk
  <2>2. \A m \in history : \A i \in DOMAIN m.graphs \ (dropped \cup torn') :
          i \in DOMAIN dirs' /\ (m.graphs[i] \in Raft => dirs'[i].log # NoLog)
    BY <1>a, Zenon DEF ManagerInv, OnDisk
  <2>. QED
    BY <1>0, <1>a, <2>1, <2>2, Zenon DEF ManagerInv, OnDisk
<1>3. DOMAIN graphs' = {} /\ users' \in [Ids -> Nat] /\ \A i \in Ids : users'[i] = 0
  BY <1>0
<1>4. Memorised'
  BY <1>0, <1>3, Zenon DEF ManagerInv, Memorised, Down
<1>5. Handles' /\ Table'
  BY <1>0 DEF Handles, Table
<1>6. CreateOK' /\ DeleteOK' /\ InstallOK' /\ NewOK'
  BY <1>1, Zenon DEF CreateOK, DeleteOK, InstallOK, NewOK
<1>7. ReservedIdsNotReused'
  BY <1>0, Zenon DEF ManagerInv, ReservedIdsNotReused
<1>. QED
  BY <1>1, <1>2, <1>4, <1>5, <1>6, <1>7, Zenon DEF ManagerInv

\* A start finds the directories of all graphs, or makes them anew.
LEMMA OpenKeeps ==
  ASSUME ManagerInv, Open
  PROVE  ManagerInv'
<1>0. /\ ~up /\ up' = TRUE /\ next' = meta.next
      /\ meta' = meta /\ history' = history /\ users' = users /\ drop' = drop
      /\ reserved' = reserved /\ dropped' = dropped /\ torn' = torn /\ nulled' = nulled
  BY Zenon DEF Open, past
<1>1. Down /\ meta \in history /\ Consistent(meta) /\ users \in [Ids -> Nat]
  BY <1>0, Zenon DEF ManagerInv, Memorised, OnDisk, Handles
<1>2. ReservedIdsNotReused'
  BY <1>0, Zenon DEF ManagerInv, ReservedIdsNotReused
<1>3. CASE meta.graphs # <<>>
  <2>0. open' = DOMAIN meta.graphs /\ op' = Idle
    BY <1>3, Zenon DEF Open
  <2>a. graphs' = [n \in {meta.graphs[i] : i \in DOMAIN meta.graphs} |->
                     CHOOSE i \in DOMAIN meta.graphs : meta.graphs[i] = n]
    BY <1>3, Zenon DEF Open
  <2>1. op' \in Operations /\ op'.pc = "idle"
    BY <2>0, GraphManagerAssumption DEF Idle, Operation, Operations
  <2>2. /\ DOMAIN dirs' = DOMAIN dirs \cup DOMAIN meta.graphs
        /\ \A i \in DOMAIN dirs : dirs'[i] = dirs[i]
        /\ \A i \in DOMAIN dirs' : i \in DOMAIN dirs \/ dirs'[i] = Fresh
    BY <1>3, Zenon DEF Open
  <2>3. \A n \in DOMAIN graphs' : /\ graphs'[n] \in DOMAIN meta.graphs
                                  /\ meta.graphs[graphs'[n]] = n
    BY <2>a, Zenon
  <2>4. \A i \in DOMAIN meta.graphs : meta.graphs[i] \in DOMAIN graphs'
    BY <2>a, Zenon
  <2>5. OnDisk'
    BY <1>0, <2>2, FreshDir DEF ManagerInv, OnDisk
  <2>6. DOMAIN graphs' \subseteq Names
    BY <1>1, <2>3 DEF Consistent
  <2>7. Memorised'
    BY <1>0, <1>1, <2>4, <2>6, Zenon DEF ManagerInv, Memorised, Consistent
  <2>8. Handles'
    BY <1>0, <1>1, <2>0, <2>2 DEF Handles, Down, Consistent
  <2>9. Table'
    <3>1. \A n \in DOMAIN graphs' : graphs'[n] \in open' /\ graphs'[n] # 0
      BY <1>1, <2>0, <2>3 DEF Consistent, Ids
    <3>. QED
      BY <1>0, <1>1, <2>3, <3>1, Zenon DEF Table, Down
  <2>10. CreateOK' /\ DeleteOK' /\ InstallOK' /\ NewOK'
    BY <2>1 DEF CreateOK, DeleteOK, InstallOK, NewOK
  <2>. QED
    BY <1>2, <2>1, <2>5, <2>7, <2>8, <2>9, <2>10, Zenon DEF ManagerInv
<1>4. CASE meta.graphs = <<>>
  <2>0. /\ meta.next <= MaxId /\ open' = {meta.next} /\ graphs' = graphs
        /\ op' = Operation("opened", Default, meta.next, 0)
    BY <1>4, Zenon DEF Open
  <2>1. meta.next \in Ids /\ DOMAIN meta.graphs = {}
    BY <1>1, <1>4, <2>0 DEF Consistent, Ids
  <2>2. op' \in Operations /\ op'.pc = "opened" /\ op'.name = Default /\ op'.id = meta.next
    BY <2>0, <2>1, GraphManagerAssumption DEF Operation, Operations, Ids
  <2>3. /\ \A i \in DOMAIN dirs : i \in DOMAIN dirs' /\ dirs'[i] = dirs[i]
        /\ meta.next \in DOMAIN dirs'
        /\ \A i \in DOMAIN dirs' : i \in DOMAIN dirs \/ dirs'[i] = Fresh
    BY <1>4, Zenon DEF Open, OpenDir, Put
  <2>4. OnDisk'
    BY <1>0, <2>3, FreshDir DEF ManagerInv, OnDisk
  <2>5. Memorised'
    BY <1>0, <1>1, <2>0, <2>1, Zenon DEF ManagerInv, Memorised, Consistent, Down
  <2>6. Handles'
    BY <1>0, <1>1, <2>0, <2>1, <2>2, <2>3 DEF Handles, Down
  <2>7. Table'
    BY <1>0, <1>1, <2>0, Zenon DEF Table, Down
  <2>8. CreateOK'
    BY <1>0, <1>1, <2>0, <2>1, <2>2, Zenon DEF CreateOK, Down
  <2>9. DeleteOK' /\ InstallOK' /\ NewOK'
    BY <2>2, Zenon DEF DeleteOK, InstallOK, NewOK
  <2>. QED
    BY <1>2, <2>2, <2>4, <2>5, <2>6, <2>7, <2>8, <2>9, Zenon DEF ManagerInv
<1>. QED
  BY <1>3, <1>4, Zenon

-----------------------------------------------------------------------------
(* The installation of a snapshot, until the old graph is closed: every    *)
(* step keeps the catalog of graphs recoverable, whichever of them fails.  *)

\* An operation that ends with the catalog and the handles as they should be.
LEMMA EndKeeps ==
  ASSUME ManagerInv, op' = Idle, OnDisk', up, up' = up, next' = next, meta' = meta,
         graphs' = graphs, open' = open, users' = users, drop' = drop,
         reserved' = reserved, dropped' = dropped, torn' = torn, history' = history,
         open \subseteq DOMAIN dirs', op.pc \notin Creating \cup {"delete"},
         nulled' = nulled \/ nulled' = nulled \cup {op.name},
         graphs[op.name] = 0 <=> op.name \in nulled',
         op.name \in DOMAIN graphs
  PROVE  ManagerInv'
<1>1. op' \in Operations /\ op'.pc = "idle"
  BY GraphManagerAssumption DEF Idle, Operation, Operations
<1>2. Memorised'
  BY Zenon DEF ManagerInv, Memorised
<1>3. Handles'
  BY Zenon DEF ManagerInv, Handles
<1>4. Table'
  BY <1>1, Zenon DEF ManagerInv, Table
<1>5. CreateOK' /\ DeleteOK' /\ InstallOK' /\ NewOK'
  BY <1>1, Zenon DEF CreateOK, DeleteOK, InstallOK, NewOK
<1>6. ReservedIdsNotReused'
  BY Zenon DEF ManagerInv, ReservedIdsNotReused
<1>. QED
  BY <1>1, <1>2, <1>3, <1>4, <1>5, <1>6, Zenon DEF ManagerInv

\* An installation begins with a graph that has a handle and metadata.
LEMMA BeginInstallKeeps ==
  ASSUME ManagerInv, NEW n \in Names, NEW x \in 0 .. MaxIndex, BeginInstall(n, x)
  PROVE  ManagerInv'
<1>0. /\ up /\ op.pc = "idle" /\ n \in DOMAIN graphs \cap Raft /\ graphs[n] # 0
      /\ op' = Operation("wait", n, graphs[n], x)
      /\ meta' = meta /\ history' = history /\ dirs' = dirs /\ up' = up /\ next' = next
      /\ graphs' = graphs /\ open' = open /\ users' = users /\ drop' = drop
      /\ reserved' = reserved /\ dropped' = dropped /\ torn' = torn /\ nulled' = nulled
  BY Zenon DEF BeginInstall, Quiet, Idle, Operation, disk, Memory, past
<1>1. /\ graphs[n] \in open /\ graphs[n] \in Ids /\ n \notin nulled
      /\ graphs[n] \in DOMAIN meta.graphs /\ meta.graphs[graphs[n]] = n
  BY <1>0, Zenon DEF ManagerInv, Table, Handles
<1>2. op' \in Operations /\ op'.pc = "wait" /\ op'.name = n /\ op'.id = graphs[n]
  BY <1>0, <1>1 DEF Operation, Operations, Ids
<1>3. OnDisk' /\ Memorised' /\ Handles'
  BY <1>0, Zenon DEF ManagerInv, OnDisk, Memorised, Handles
<1>4. Table'
  BY <1>0, <1>2, Zenon DEF ManagerInv, Table
<1>5. InstallOK'
  BY <1>0, <1>1, <1>2, Zenon DEF InstallOK
<1>6. CreateOK' /\ DeleteOK' /\ NewOK'
  BY <1>2, Zenon DEF CreateOK, DeleteOK, NewOK
<1>7. ReservedIdsNotReused'
  BY <1>0, Zenon DEF ManagerInv, ReservedIdsNotReused
<1>. QED
  BY <1>2, <1>3, <1>4, <1>5, <1>6, <1>7, Zenon DEF ManagerInv

\* A refusal, or an exception before the try block, changes nothing.
LEMMA InstallRefusedKeeps ==
  ASSUME ManagerInv, InstallRefused \/ ReserveThrows
  PROVE  ManagerInv'
<1>0. /\ op.pc \in {"wait", "reserved"} /\ op' = Idle
      /\ meta' = meta /\ history' = history /\ dirs' = dirs /\ up' = up /\ next' = next
      /\ graphs' = graphs /\ open' = open /\ users' = users /\ drop' = drop
      /\ reserved' = reserved /\ dropped' = dropped /\ torn' = torn /\ nulled' = nulled
  BY Zenon DEF InstallRefused, ReserveThrows, disk, Memory, past
<1>1. OnDisk' /\ open \subseteq DOMAIN dirs'
  BY <1>0, Zenon DEF ManagerInv, OnDisk, Handles
<1>2. up /\ op.name \in DOMAIN graphs /\ graphs[op.name] # 0 /\ op.name \notin nulled
  BY <1>0, Zenon DEF ManagerInv, InstallOK, Table, Ids
<1>. QED
  BY <1>0, <1>1, <1>2, EndKeeps, Zenon

\* The next id is taken in memory and, by a synced write, on disk.
LEMMA ReserveIdKeeps ==
  ASSUME ManagerInv, ReserveId
  PROVE  ManagerInv'
<1>0. /\ op.pc = "wait" /\ users[op.id] = 0 /\ next \notin DOMAIN dirs /\ next <= MaxId
      /\ meta' = Metadata(meta.graphs, next + 1) /\ history' = {meta'} /\ next' = next + 1
      /\ reserved' = reserved \cup {next} /\ op' = [op EXCEPT !.pc = "reserved", !.new = next]
      /\ dirs' = dirs /\ up' = up /\ graphs' = graphs /\ open' = open /\ users' = users
      /\ drop' = drop /\ dropped' = dropped /\ torn' = torn /\ nulled' = nulled
  BY Zenon DEF ReserveId, SyncMeta
<1>1. /\ up /\ next = meta.next /\ next \in Ids /\ Consistent(meta) /\ op \in Operations
      /\ op.name \in DOMAIN graphs \cap Raft /\ graphs[op.name] = op.id /\ op.id \in Ids
      /\ op.id \in DOMAIN meta.graphs /\ meta.graphs[op.id] = op.name
      /\ op.id \in open /\ op.id \in DOMAIN dirs /\ op.id # 0
  BY <1>0 DEF ManagerInv, InstallOK, Memorised, OnDisk, Consistent, Handles, Table, Ids
<1>2. /\ op' \in Operations /\ op'.pc = "reserved" /\ op'.name = op.name /\ op'.id = op.id
      /\ op'.new = next
  <2>1. next \in Nat
    BY Zenon DEF ManagerInv, Memorised
  <2>. QED
    BY <1>0, <1>1, <2>1, Zenon DEF Operations
<1>3. meta'.graphs = meta.graphs /\ meta'.next = next + 1
  BY <1>0, Zenon DEF Metadata
<1>4. next \notin DOMAIN meta.graphs /\ next \notin open /\ users[next] = 0 /\ next # op.id
  BY <1>1 DEF Consistent, ManagerInv, Handles, Ids
<1>5. Consistent(meta')
  BY <1>1, <1>3 DEF Consistent, Ids
<1>6. OnDisk'
  BY <1>0, <1>3, <1>5 DEF ManagerInv, OnDisk
<1>7. Memorised'
  BY <1>0, <1>1, <1>3 DEF ManagerInv, Memorised, Ids
<1>8. Handles'
  BY <1>0, <1>1 DEF ManagerInv, Handles, Ids
<1>9. Table'
  BY <1>0, <1>3 DEF ManagerInv, Table
<1>10. InstallOK'
  BY <1>0, <1>1, <1>3 DEF InstallOK
<1>11. NewOK'
  BY <1>0, <1>1, <1>3, <1>4 DEF NewOK, Ids
<1>12. CreateOK' /\ DeleteOK'
  BY <1>2, Zenon DEF CreateOK, DeleteOK
<1>13. ReservedIdsNotReused'
  BY <1>0, <1>3 DEF ManagerInv, Memorised, ReservedIdsNotReused, Ids
<1>. QED
  BY <1>2, <1>6, <1>7, <1>8, <1>9, <1>10, <1>11, <1>12, <1>13, Zenon DEF ManagerInv

\* The steps that fill the directory of the new graph.
LEMMA CopyKeeps ==
  ASSUME ManagerInv, op.pc \in Copying, op' \in Operations, op'.pc \in Copying,
         op'.name = op.name, op'.id = op.id, op'.new = op.new,
         DOMAIN dirs' = DOMAIN dirs \cup {op.new},
         \A j \in DOMAIN dirs : j # op.new => dirs'[j] = dirs[j],
         dirs'[op.new] \in [apply : Nat, log : Nat],
         dirs'[op.new].log = NoLog \/ dirs'[op.new].log <= dirs'[op.new].apply,
         NewOK',
         meta' = meta, history' = history, up' = up, next' = next, graphs' = graphs,
         open' = open, users' = users, drop' = drop, reserved' = reserved,
         dropped' = dropped, torn' = torn, nulled' = nulled
  PROVE  ManagerInv'
<1>1. op.new \notin DOMAIN meta.graphs /\ op.new # op.id /\ history = {meta}
  BY Zenon DEF ManagerInv, NewOK, InstallOK
<1>2. OnDisk'
  <2>1. \A i \in DOMAIN dirs' :
          /\ dirs'[i] \in [apply : Nat, log : Nat]
          /\ i \in torn \/ dirs'[i].log = NoLog \/ dirs'[i].log <= dirs'[i].apply
    BY Zenon DEF ManagerInv, OnDisk
  <2>. QED
    BY <1>1, <2>1, DirsKeep, Zenon DEF ManagerInv
<1>3. Memorised'
  BY Zenon DEF ManagerInv, Memorised, InstallOK
<1>4. Handles'
  BY Zenon DEF ManagerInv, Handles
<1>5. Table'
  BY Zenon DEF ManagerInv, Table
<1>6. InstallOK'
  BY Zenon DEF ManagerInv, InstallOK
<1>7. CreateOK' /\ DeleteOK'
  BY Zenon DEF CreateOK, DeleteOK
<1>8. ReservedIdsNotReused'
  BY Zenon DEF ManagerInv, ReservedIdsNotReused
<1>. QED
  BY <1>2, <1>3, <1>4, <1>5, <1>6, <1>7, <1>8, Zenon DEF ManagerInv

\* The directory of the reserved id is new, so that it replaces none.
LEMMA MakeDirKeeps ==
  ASSUME ManagerInv, MakeDir
  PROVE  ManagerInv'
<1>0. /\ op.pc = "reserved" /\ dirs' = Put(dirs, op.new, Fresh)
      /\ op \in Operations /\ op' = [op EXCEPT !.pc = "made"]
      /\ meta' = meta /\ history' = history /\ up' = up /\ next' = next /\ graphs' = graphs
      /\ open' = open /\ users' = users /\ drop' = drop /\ reserved' = reserved
      /\ dropped' = dropped /\ torn' = torn /\ nulled' = nulled
  BY Zenon DEF MakeDir, Memory, past, ManagerInv
<1>1. /\ op' \in Operations /\ op'.pc = "made" /\ op'.name = op.name /\ op'.id = op.id
      /\ op'.new = op.new
  BY <1>0, Zenon DEF Operations
<1>2. /\ DOMAIN dirs' = DOMAIN dirs \cup {op.new} /\ dirs'[op.new] = Fresh
      /\ \A j \in DOMAIN dirs : j # op.new => dirs'[j] = dirs[j]
  BY <1>0, Zenon DEF Put
<1>3. NewOK'
  BY <1>0, <1>2, FreshDir DEF ManagerInv, NewOK
<1>. QED
  BY <1>0, <1>1, <1>2, <1>3, FreshDir, CopyKeeps, Zenon

\* The checkpoint is moved into the new directory.
LEMMA MoveDataKeeps ==
  ASSUME ManagerInv, MoveData
  PROVE  ManagerInv'
<1>0. /\ op.pc = "made" /\ dirs' = [dirs EXCEPT ![op.new].apply = op.index]
      /\ op \in Operations /\ op' = [op EXCEPT !.pc = "moved"]
      /\ meta' = meta /\ history' = history /\ up' = up /\ next' = next /\ graphs' = graphs
      /\ open' = open /\ users' = users /\ drop' = drop /\ reserved' = reserved
      /\ dropped' = dropped /\ torn' = torn /\ nulled' = nulled
  BY Zenon DEF MoveData, Memory, past, ManagerInv
<1>1. /\ op' \in Operations /\ op'.pc = "moved" /\ op'.name = op.name /\ op'.id = op.id
      /\ op'.new = op.new /\ op'.index = op.index /\ op.index \in Nat
  BY <1>0 DEF Operations
<1>2. /\ op.new \in DOMAIN dirs /\ dirs[op.new] \in [apply : Nat, log : Nat]
      /\ dirs[op.new].log = NoLog
  BY <1>0, Zenon DEF ManagerInv, NewOK, OnDisk
<1>3. /\ DOMAIN dirs' = DOMAIN dirs /\ \A j \in DOMAIN dirs : j # op.new => dirs'[j] = dirs[j]
      /\ dirs'[op.new] \in [apply : Nat, log : Nat] /\ dirs'[op.new].apply = op.index
      /\ dirs'[op.new].log = NoLog
  BY <1>0, <1>1, <1>2, Zenon
<1>4. NewOK'
  BY <1>0 DEF ManagerInv, NewOK
<1>. QED
  BY <1>0, <1>1, <1>2, <1>4, CopyKeeps, Zenon

\* The new Raft log begins at the index that the checkpoint has applied.
LEMMA CreateRaftLogKeeps ==
  ASSUME ManagerInv, CreateRaftLogStorageFromSnapshot
  PROVE  ManagerInv'
<1>0. /\ op.pc = "moved" /\ dirs' = [dirs EXCEPT ![op.new].log = op.index]
      /\ op \in Operations /\ op' = [op EXCEPT !.pc = "logged"]
      /\ meta' = meta /\ history' = history /\ up' = up /\ next' = next /\ graphs' = graphs
      /\ open' = open /\ users' = users /\ drop' = drop /\ reserved' = reserved
      /\ dropped' = dropped /\ torn' = torn /\ nulled' = nulled
  BY Zenon DEF CreateRaftLogStorageFromSnapshot, Memory, past, ManagerInv
<1>1. /\ op' \in Operations /\ op'.pc = "logged" /\ op'.name = op.name /\ op'.id = op.id
      /\ op'.new = op.new /\ op.index \in Nat /\ op.index # NoLog
  BY <1>0, FreshDir, Zenon DEF Operations
<1>2. /\ op.new \in DOMAIN dirs /\ dirs[op.new] \in [apply : Nat, log : Nat]
      /\ dirs[op.new].apply = op.index
  BY <1>0, Zenon DEF ManagerInv, NewOK, OnDisk
<1>3. /\ DOMAIN dirs' = DOMAIN dirs /\ \A j \in DOMAIN dirs : j # op.new => dirs'[j] = dirs[j]
      /\ dirs'[op.new] \in [apply : Nat, log : Nat] /\ dirs'[op.new].apply = op.index
      /\ dirs'[op.new].log = op.index
  BY <1>0, <1>2, Zenon
<1>4. NewOK'
  BY <1>0, <1>1 DEF ManagerInv, NewOK
<1>5. dirs'[op.new].log <= dirs'[op.new].apply
  BY <1>1, <1>3
<1>. QED
  BY <1>0, <1>1, <1>2, <1>3, <1>4, <1>5, CopyKeeps, Zenon
=============================================================================
