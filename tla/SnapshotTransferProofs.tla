----------------------- MODULE SnapshotTransferProofs -----------------------
(***************************************************************************)
(* The catalog of graphs survives every failing step, crash and power      *)
(* loss, an import never keeps its slot, and an installation is atomic,    *)
(* for any names, ids, indexes and numbers of faults.                      *)
(***************************************************************************)
EXTENDS SnapshotTransfer, GraphManagerProofs

\* The import: one at a time, and the installation is part of it.
Tasks ==
  [pc : {"none", "asked", "loaded", "installing", "installed", "failed", "report"},
   index : 0 .. MaxIndex, own : BOOLEAN, attempts : Nat]

Importing == {"asked", "loaded", "installing", "installed", "failed"}

ImportInv ==
  /\ slot \in BOOLEAN /\ queue \in BOOLEAN /\ task \in Tasks
  /\ SlotReleased
  /\ queue => task.pc \notin Importing
  /\ op.pc \in Installing => task.pc = "installing"

IInv == ManagerInv /\ ImportInv /\ crashes \in Nat

USE DEF Creating, Copying, Swapping, Undoing, Installing

-----------------------------------------------------------------------------
(* The installation of a snapshot, from the closing of the old graph on.   *)

\* From the closing of the old graph to the publication of the new one
\* graphs_ holds a null handle.
LEMMA CloseOldKeeps ==
  ASSUME ManagerInv, CloseOld
  PROVE  ManagerInv'
<1>0. /\ op.pc = "logged" /\ graphs' = [graphs EXCEPT ![op.name] = 0] /\ open' = open \ {op.id}
      /\ op \in Operations /\ op' = [op EXCEPT !.pc = "closed"]
      /\ meta' = meta /\ history' = history /\ dirs' = dirs /\ up' = up /\ next' = next
      /\ users' = users /\ drop' = drop /\ reserved' = reserved
      /\ dropped' = dropped /\ torn' = torn /\ nulled' = nulled
  BY Zenon DEF CloseOld, disk, past, ManagerInv
<1>1. /\ op' \in Operations /\ op'.pc = "closed" /\ op'.name = op.name /\ op'.id = op.id
      /\ op'.new = op.new
  BY <1>0, Zenon DEF Operations
<1>2. /\ op.name \in DOMAIN graphs /\ graphs[op.name] = op.id /\ op.id \in DOMAIN meta.graphs
      /\ meta.graphs[op.id] = op.name /\ users[op.id] = 0 /\ op.id \in Ids
  BY <1>0, Zenon DEF ManagerInv, InstallOK
<1>3. /\ DOMAIN graphs' = DOMAIN graphs /\ graphs'[op.name] = 0
      /\ \A n \in DOMAIN graphs : n # op.name => graphs'[n] = graphs[n]
  BY <1>0, <1>2, Zenon
<1>4. OnDisk'
  BY <1>0, Zenon DEF ManagerInv, OnDisk
<1>5. Memorised'
  BY <1>0, Zenon DEF ManagerInv, Memorised, InstallOK
<1>6. Handles'
  BY <1>0, <1>2 DEF ManagerInv, Handles
<1>7. Table'
  <2>1. \A n \in DOMAIN graphs : n # op.name => graphs[n] # op.id
    BY <1>2 DEF ManagerInv, Table, Ids
  <2>. QED
    BY <1>0, <2>1 DEF ManagerInv, Table
<1>8. InstallOK'
  BY <1>0 DEF ManagerInv, InstallOK
<1>9. NewOK'
  BY <1>0 DEF ManagerInv, NewOK
<1>10. CreateOK' /\ DeleteOK'
  BY <1>1, Zenon DEF CreateOK, DeleteOK
<1>11. ReservedIdsNotReused'
  BY <1>0, Zenon DEF ManagerInv, ReservedIdsNotReused
<1>. QED
  BY <1>1, <1>4, <1>5, <1>6, <1>7, <1>8, <1>9, <1>10, <1>11, Zenon DEF ManagerInv

\* Opening the new graph, and destroying it when a step throws.
LEMMA OpenNewKeeps ==
  ASSUME ManagerInv, OpenNew \/ InstallThrows
  PROVE  ManagerInv'
<1>0. /\ \/ op.pc = "closed" /\ op' = [op EXCEPT !.pc = "replacing"] /\ open' = open \cup {op.new}
         \/ /\ op.pc \in {"made", "moved", "logged", "closed", "replacing"}
            /\ op' = [op EXCEPT !.pc = "catch"] /\ open' = open \ {op.new}
      /\ op \in Operations
      /\ meta' = meta /\ history' = history /\ dirs' = dirs /\ up' = up /\ next' = next
      /\ graphs' = graphs /\ users' = users /\ drop' = drop /\ reserved' = reserved
      /\ dropped' = dropped /\ torn' = torn /\ nulled' = nulled
  BY Zenon DEF OpenNew, InstallThrows, disk, Memory, past, ManagerInv
<1>1. /\ op' \in Operations /\ op'.name = op.name /\ op'.id = op.id /\ op'.new = op.new
      /\ \/ op.pc = "closed" /\ op'.pc = "replacing" /\ open' = open \cup {op.new}
         \/ op'.pc = "catch" /\ open' = open \ {op.new}
  BY <1>0, Zenon DEF Operations
<1>2. /\ op.new \in Ids /\ op.new \in DOMAIN dirs /\ op.new # op.id /\ users[op.new] = 0
      /\ op.new \notin DOMAIN meta.graphs /\ op.new < next
  BY <1>0, Zenon DEF ManagerInv, NewOK
<1>3. OnDisk'
  BY <1>0, Zenon DEF ManagerInv, OnDisk
<1>4. Memorised'
  BY <1>0, Zenon DEF ManagerInv, Memorised, InstallOK
<1>5. Handles'
  BY <1>0, <1>2 DEF ManagerInv, Handles
<1>6. Table'
  BY <1>0, <1>1, <1>2, Zenon DEF ManagerInv, Table
<1>7. InstallOK'
  BY <1>0, <1>1, <1>2, Zenon DEF ManagerInv, InstallOK
<1>8. NewOK'
  BY <1>0, <1>1, Zenon DEF ManagerInv, NewOK
<1>9. CreateOK' /\ DeleteOK'
  BY <1>1, Zenon DEF CreateOK, DeleteOK
<1>10. ReservedIdsNotReused'
  BY <1>0, Zenon DEF ManagerInv, ReservedIdsNotReused
<1>. QED
  BY <1>1, <1>3, <1>4, <1>5, <1>6, <1>7, <1>8, <1>9, <1>10, Zenon DEF ManagerInv

\* The publication: one synced batch, so that every later crash finds either
\* the old graph or the new one.
LEMMA PublishNewKeeps ==
  ASSUME ManagerInv, PublishNew
  PROVE  ManagerInv'
<1>0. /\ op.pc = "replacing" /\ meta' = Metadata(Replaced, meta.next) /\ history' = {meta'}
      /\ graphs' = [graphs EXCEPT ![op.name] = op.new]
      /\ op \in Operations /\ op' = [op EXCEPT !.pc = "published"]
      /\ dirs' = dirs /\ up' = up /\ next' = next /\ open' = open /\ users' = users
      /\ drop' = drop /\ reserved' = reserved /\ dropped' = dropped /\ torn' = torn /\ nulled' = nulled
  BY Zenon DEF PublishNew, SyncMeta, past, ManagerInv
<1>1. /\ op' \in Operations /\ op'.pc = "published" /\ op'.name = op.name /\ op'.id = op.id
      /\ op'.new = op.new
  BY <1>0, Zenon DEF Operations
<1>2. /\ up /\ op.name \in DOMAIN graphs \cap Raft /\ op.id \in Ids /\ op.id \notin open
      /\ op.id \in DOMAIN meta.graphs /\ meta.graphs[op.id] = op.name /\ users[op.id] = 0
      /\ op.id \in DOMAIN dirs /\ history = {meta} /\ Consistent(meta) /\ next = meta.next
  BY <1>0, Zenon DEF ManagerInv, InstallOK, OnDisk, Memorised
<1>3. /\ op.new \in Ids /\ op.new < next /\ op.new # op.id /\ users[op.new] = 0 /\ op.new \in open
      /\ op.new \in DOMAIN dirs /\ dirs[op.new].log # NoLog /\ op.new \notin DOMAIN meta.graphs
  BY <1>0, Zenon DEF ManagerInv, NewOK
<1>4. /\ meta'.next = meta.next
      /\ DOMAIN meta'.graphs = (DOMAIN meta.graphs \ {op.id}) \cup {op.new}
      /\ meta'.graphs[op.new] = op.name
      /\ \A i \in DOMAIN meta.graphs \ {op.id} : meta'.graphs[i] = meta.graphs[i]
  BY <1>0, <1>3, Zenon DEF Metadata, Replaced, Put, Only
<1>5. /\ DOMAIN graphs' = DOMAIN graphs /\ graphs'[op.name] = op.new
      /\ \A n \in DOMAIN graphs : n # op.name => graphs'[n] = graphs[n]
  BY <1>0, <1>2, Zenon
<1>6. \A i \in DOMAIN meta.graphs : meta.graphs[i] = op.name => i = op.id
  BY <1>2, Zenon DEF Consistent
<1>7. Consistent(meta')
  BY <1>2, <1>3, <1>4 DEF Consistent, Operations
<1>8. OnDisk'
  BY <1>0, <1>3, <1>4, <1>7 DEF ManagerInv, OnDisk
<1>9. Memorised'
  BY <1>0, <1>2, <1>4, Zenon DEF ManagerInv, Memorised
<1>10. Handles'
  BY <1>0, Zenon DEF ManagerInv, Handles
<1>11. Table'
  <2>1. op.new # 0 /\ op.name \notin nulled
    BY <1>0, <1>3 DEF ManagerInv, Table, Ids
  <2>2. \A n \in DOMAIN graphs : n # op.name /\ graphs[n] # 0 => graphs[n] # op.id /\ graphs[n] # op.new
    BY <1>2, <1>3, Zenon DEF ManagerInv, Table
  <2>. QED
    BY <1>0, <1>3, <1>4, <2>1, <2>2 DEF ManagerInv, Table
<1>12. InstallOK'
  BY <1>0, <1>2, <1>3, <1>4 DEF InstallOK
<1>13. NewOK'
  BY <1>0, <1>3 DEF NewOK
<1>14. CreateOK' /\ DeleteOK'
  BY <1>1, Zenon DEF CreateOK, DeleteOK
<1>15. ReservedIdsNotReused'
  BY <1>0, <1>4, Zenon DEF ManagerInv, ReservedIdsNotReused
<1>. QED
  BY <1>1, <1>8, <1>9, <1>10, <1>11, <1>12, <1>13, <1>14, <1>15, Zenon DEF ManagerInv

\* The directory that is removed at the end is one that nothing refers to: the
\* old one after the publication, the new one after a failure.
LEMMA RemoveKeeps ==
  ASSUME ManagerInv, RemoveOld \/ RemoveNew
  PROVE  ManagerInv'
<1>. DEFINE i == IF op.pc = "published" THEN op.id ELSE op.new
<1>0. /\ op.pc \in {"published", "reopened"} /\ op' = Idle
      /\ dirs' = dirs \/ dirs' = Only(dirs, DOMAIN dirs \ {i})
      /\ meta' = meta /\ history' = history /\ up' = up /\ next' = next
      /\ graphs' = graphs /\ open' = open /\ users' = users /\ drop' = drop
      /\ reserved' = reserved /\ dropped' = dropped /\ torn' = torn /\ nulled' = nulled
  BY Zenon DEF RemoveOld, RemoveNew, Memory, past
<1>1. i \notin open /\ i \notin DOMAIN meta.graphs /\ history = {meta}
  BY <1>0, Zenon DEF ManagerInv, InstallOK, NewOK
<1>2. up /\ op.name \in DOMAIN graphs /\ graphs[op.name] # 0 /\ op.name \notin nulled
  BY <1>0, Zenon DEF ManagerInv, InstallOK, NewOK, Table, Ids
<1>. HIDE DEF i
<1>3. /\ \A j \in DOMAIN dirs' : j \in DOMAIN dirs /\ dirs'[j] = dirs[j]
      /\ \A j \in DOMAIN dirs : j \in DOMAIN dirs' \/ j = i
  BY <1>0, Zenon DEF Only
<1>4. OnDisk'
  BY <1>0, <1>1, <1>3 DEF ManagerInv, OnDisk
<1>5. open \subseteq DOMAIN dirs'
  BY <1>1, <1>3, Zenon DEF ManagerInv, Handles
<1>. QED
  BY <1>0, <1>2, <1>4, <1>5, EndKeeps, Zenon

\* The handler of a failed installation opens the old graph again.
LEMMA ReopenOldKeeps ==
  ASSUME ManagerInv, ReopenOld
  PROVE  ManagerInv'
<1>0. /\ op.pc = "catch" /\ op \in Operations /\ op' = [op EXCEPT !.pc = "reopened"]
      /\ \/ graphs' = [graphs EXCEPT ![op.name] = op.id] /\ open' = open \cup {op.id}
         \/ graphs[op.name] # 0 /\ graphs' = graphs /\ open' = open
      /\ meta' = meta /\ history' = history /\ dirs' = dirs /\ up' = up /\ next' = next
      /\ users' = users /\ drop' = drop /\ reserved' = reserved
      /\ dropped' = dropped /\ torn' = torn /\ nulled' = nulled
  BY Zenon DEF ReopenOld, disk, past, ManagerInv
<1>1. /\ op' \in Operations /\ op'.pc = "reopened" /\ op'.name = op.name /\ op'.id = op.id
      /\ op'.new = op.new
  BY <1>0, Zenon DEF Operations
<1>2. /\ up /\ op.name \in DOMAIN graphs \cap Raft /\ graphs[op.name] \in {0, op.id}
      /\ op.id \in Ids /\ op.id \in DOMAIN dirs /\ op.id \in DOMAIN meta.graphs
      /\ meta.graphs[op.id] = op.name /\ op.id # 0 /\ op.id < next /\ op.name \notin nulled
  BY <1>0 DEF ManagerInv, InstallOK, OnDisk, Consistent, Memorised, Table, Ids
<1>3. /\ DOMAIN graphs' = DOMAIN graphs /\ graphs'[op.name] = op.id
      /\ \A n \in DOMAIN graphs : n # op.name => graphs'[n] = graphs[n]
      /\ open' \subseteq open \cup {op.id} /\ open \subseteq open' /\ op.id \in open'
  BY <1>0, <1>2, Zenon DEF ManagerInv, Table
<1>4. OnDisk'
  BY <1>0, Zenon DEF ManagerInv, OnDisk
<1>5. Memorised'
  BY <1>0, <1>2, Zenon DEF ManagerInv, Memorised
<1>6. Handles'
  BY <1>0, <1>2, Zenon DEF ManagerInv, Handles
<1>7. Table'
  BY <1>0, <1>2 DEF ManagerInv, Table
<1>8. InstallOK'
  BY <1>0 DEF ManagerInv, InstallOK
<1>9. NewOK'
  BY <1>0 DEF ManagerInv, NewOK
<1>10. CreateOK' /\ DeleteOK'
  BY <1>1, Zenon DEF CreateOK, DeleteOK
<1>11. ReservedIdsNotReused'
  BY <1>0, Zenon DEF ManagerInv, ReservedIdsNotReused
<1>. QED
  BY <1>1, <1>4, <1>5, <1>6, <1>7, <1>8, <1>9, <1>10, <1>11, Zenon DEF ManagerInv

\* A graph that cannot be reopened leaves its null handle in graphs_.
LEMMA ReopenThrowsKeeps ==
  ASSUME ManagerInv, ReopenThrows
  PROVE  ManagerInv'
<1>0. /\ op.pc = "catch" /\ graphs[op.name] = 0 /\ nulled' = nulled \cup {op.name} /\ op' = Idle
      /\ meta' = meta /\ history' = history /\ dirs' = dirs /\ up' = up /\ next' = next
      /\ graphs' = graphs /\ open' = open /\ users' = users /\ drop' = drop
      /\ reserved' = reserved /\ dropped' = dropped /\ torn' = torn
  BY Zenon DEF ReopenThrows, disk, Memory
<1>1. OnDisk' /\ open \subseteq DOMAIN dirs'
  BY <1>0, Zenon DEF ManagerInv, OnDisk, Handles
<1>2. up /\ op.name \in DOMAIN graphs
  BY <1>0, Zenon DEF ManagerInv, InstallOK
<1>. QED
  BY <1>0, <1>1, <1>2, EndKeeps, Zenon

-----------------------------------------------------------------------------
(* The composition with the import and the leader.                         *)

\* The steps of the leader, of the network and of the import leave the manager.
LEMMA ManagerStutters ==
  ASSUME ManagerInv, UNCHANGED Local
  PROVE  ManagerInv'
<1>0. /\ meta' = meta /\ history' = history /\ dirs' = dirs /\ up' = up /\ next' = next
      /\ graphs' = graphs /\ open' = open /\ users' = users /\ op' = op /\ drop' = drop
      /\ reserved' = reserved /\ dropped' = dropped /\ torn' = torn /\ nulled' = nulled
  BY Zenon DEF Local, disk, past
<1>1. OnDisk' /\ Memorised' /\ Handles' /\ Table'
  BY <1>0, Zenon DEF ManagerInv, OnDisk, Memorised, Down, Handles, Table
<1>2. CreateOK' /\ DeleteOK' /\ InstallOK' /\ NewOK'
  BY <1>0, Zenon DEF ManagerInv, CreateOK, DeleteOK, InstallOK, NewOK
<1>. QED
  BY <1>0, <1>1, <1>2, Zenon DEF ManagerInv, ReservedIdsNotReused

\* Creation, deletion and the start of the server are no installations.
LEMMA AdminSteps ==
  ASSUME ManagerInv, Admin \/ Open
  PROVE  ManagerInv' /\ op'.pc \notin Installing
<1>1. ASSUME NEW n \in Names, CreateGraph(n)
      PROVE  ManagerInv' /\ op'.pc \notin Installing
  BY <1>1, CreateGraphKeeps, Zenon DEF CreateGraph, Operation
<1>2. ASSUME NEW n \in Names, DeleteGraph(n)
      PROVE  ManagerInv' /\ op'.pc \notin Installing
  BY <1>2, DeleteGraphKeeps, Zenon DEF DeleteGraph, Operation
<1>3. CASE StartGraphRaft
  BY <1>3, StartGraphRaftKeeps, Zenon DEF StartGraphRaft, ManagerInv, Operations
<1>4. CASE CreateThrows
  BY <1>4, CreateThrowsKeeps, Zenon DEF CreateThrows, Idle, Operation
<1>5. CASE PublishGraph
  BY <1>5, PublishGraphKeeps, Zenon DEF PublishGraph, Idle, Operation
<1>6. CASE EraseGraph
  BY <1>6, EraseGraphKeeps, Zenon DEF EraseGraph, Idle, Operation
<1>7. CASE Open
  BY <1>7, OpenKeeps DEF Open, Idle, Operation
<1>. QED
  BY <1>1, <1>2, <1>3, <1>4, <1>5, <1>6, <1>7, Zenon DEF Admin

\* A step of ReplaceGraphFromSnapshot goes on with it or ends it.
LEMMA InstallSteps ==
  ASSUME ManagerInv, Install
  PROVE  ManagerInv' /\ op.pc \in Installing /\ (op'.pc \in Installing \/ op' = Idle)
<1>1. CASE InstallRefused \/ ReserveThrows
  BY <1>1, InstallRefusedKeeps, Zenon DEF InstallRefused, ReserveThrows
<1>2. CASE ReserveId
  BY <1>2, ReserveIdKeeps, Zenon DEF ReserveId, ManagerInv, Operations
<1>3. CASE MakeDir
  BY <1>3, MakeDirKeeps, Zenon DEF MakeDir, ManagerInv, Operations
<1>4. CASE MoveData
  BY <1>4, MoveDataKeeps, Zenon DEF MoveData, ManagerInv, Operations
<1>5. CASE CreateRaftLogStorageFromSnapshot
  BY <1>5, CreateRaftLogKeeps, Zenon DEF CreateRaftLogStorageFromSnapshot, ManagerInv, Operations
<1>6. CASE CloseOld
  BY <1>6, CloseOldKeeps, Zenon DEF CloseOld, ManagerInv, Operations
<1>7. CASE OpenNew \/ InstallThrows
  BY <1>7, OpenNewKeeps, Zenon DEF OpenNew, InstallThrows, ManagerInv, Operations
<1>8. CASE PublishNew
  BY <1>8, PublishNewKeeps, Zenon DEF PublishNew, ManagerInv, Operations
<1>9. CASE RemoveOld \/ RemoveNew
  BY <1>9, RemoveKeeps, Zenon DEF RemoveOld, RemoveNew
<1>10. CASE ReopenOld
  BY <1>10, ReopenOldKeeps, Zenon DEF ReopenOld, ManagerInv, Operations
<1>11. CASE ReopenThrows
  BY <1>11, ReopenThrowsKeeps, Zenon DEF ReopenThrows
<1>. QED
  BY <1>1, <1>2, <1>3, <1>4, <1>5, <1>6, <1>7, <1>8, <1>9, <1>10, <1>11, Zenon DEF Install

\* Every step of the system keeps the manager's invariant; only the steps of
\* the import bring it to an installation.
LEMMA ManagerSteps ==
  ASSUME ManagerInv, ImportInv, TransferNext
  PROVE  ManagerInv'
<1>1. CASE (Admin \/ Open) /\ UNCHANGED transfer
  BY <1>1, AdminSteps, Zenon
<1>2. ASSUME NEW n \in Names, OpenGraph(n)
      PROVE  ManagerInv'
  BY <1>2, OpenGraphKeeps, Zenon
<1>3. ASSUME NEW i \in Ids, Release(i)
      PROVE  ManagerInv'
  BY <1>3, ReleaseKeeps, Zenon
<1>4. CASE Replicated
  BY <1>4, ApplyKeeps, TransferAssumption, GraphManagerAssumption, Zenon DEF Replicated
<1>5. CASE ReplaceGraph
  <2>1. CASE BeginInstall(Graph, task.index)
    <3>1. task.index \in 0 .. MaxIndex /\ Graph \in Names
      BY TransferAssumption, GraphManagerAssumption, Zenon DEF ImportInv, Tasks
    <3>. QED
      BY <2>1, <3>1, BeginInstallKeeps, Zenon
  <2>2. CASE UNCHANGED vars
    BY <2>2, ManagerStutters, Zenon DEF vars, Local
  <2>. QED
    BY <1>5, <2>1, <2>2, Zenon DEF ReplaceGraph
<1>6. CASE InstallStep
  BY <1>6, InstallSteps, Zenon DEF InstallStep
<1>7. CASE FollowerStops
  BY <1>7, CrashKeeps, Zenon DEF FollowerStops
<1>8. CASE \/ HandleSnapshotTrigger \/ AskSnapshot \/ Download \/ CleanUp \/ Report
           \/ SendAppend \/ LoseTrigger
  <2>1. UNCHANGED Local
    BY <1>8, Zenon DEF HandleSnapshotTrigger, AskSnapshot, Download, CleanUp, Report, SendAppend,
                LoseTrigger, vars, Local
  <2>. QED
    BY <2>1, ManagerStutters, Zenon
<1>. QED
  BY <1>1, <1>2, <1>3, <1>4, <1>5, <1>6, <1>7, <1>8, Zenon DEF TransferNext, Follower

\* An import that has ended, one way or the other.
LEMMA TaskValues ==
  /\ NoTask \in Tasks /\ NoTask.pc = "none"
  /\ \A o \in BOOLEAN : Failed(o) \in Tasks /\ Failed(o).pc = "failed"
  /\ \A x \in 0 .. MaxIndex : Task("asked", x, FALSE) \in Tasks
  /\ \A x : Task("asked", x, FALSE).pc = "asked"
  /\ Task("report", 0, FALSE) \in Tasks /\ Task("report", 0, FALSE).pc = "report"
  BY GraphManagerAssumption DEF NoTask, Failed, Task, Tasks

\* The slot is taken when a trigger is accepted and stays taken until the
\* import is cleaned up; the one thread of updates_ runs one import.
LEMMA ImportSteps ==
  ASSUME ManagerInv, ImportInv, TransferNext
  PROVE  ImportInv'
<1>0. /\ slot \in BOOLEAN /\ queue \in BOOLEAN /\ task \in Tasks
      /\ slot <=> queue \/ task.pc \in Importing
      /\ queue => task.pc \notin Importing
      /\ op.pc \in Installing => task.pc = "installing"
  BY Zenon DEF ImportInv, SlotReleased, Importing
<1>a. SUFFICES /\ slot' \in BOOLEAN /\ queue' \in BOOLEAN /\ task' \in Tasks
               /\ slot' <=> queue' \/ task'.pc \in Importing
               /\ queue' => task'.pc \notin Importing
               /\ op'.pc \in Installing => task'.pc = "installing"
  BY Zenon DEF ImportInv, SlotReleased, Importing
<1>1. CASE (Admin \/ Open) /\ UNCHANGED transfer
  BY <1>0, <1>1, AdminSteps, Zenon DEF transfer
<1>2. CASE (\E n \in Names : OpenGraph(n)) /\ UNCHANGED transfer
  BY <1>0, <1>2, Zenon DEF transfer, OpenGraph
<1>3. CASE (\E i \in Ids : Release(i)) /\ UNCHANGED transfer
  BY <1>0, <1>3, Zenon DEF transfer, Release
<1>4. CASE Replicated
  BY <1>0, <1>4, Zenon DEF Replicated, Apply, transfer
<1>5. CASE HandleSnapshotTrigger
  BY <1>0, <1>5, Zenon DEF HandleSnapshotTrigger, vars
<1>6. CASE AskSnapshot
  <2>1. /\ op' = op /\ slot' = slot /\ queue /\ queue' = FALSE /\ task.pc = "none"
    BY <1>6, TaskValues, Zenon DEF AskSnapshot, Local
  <2>2. task' \in Tasks /\ task'.pc \in {"asked", "failed"}
    <3>1. \A x \in Compacted .. MaxIndex : x \in 0 .. MaxIndex
      BY TransferAssumption
    <3>2. task' = Failed(FALSE) \/ \E x \in Compacted .. MaxIndex : task' = Task("asked", x, FALSE)
      BY <1>6, Zenon DEF AskSnapshot
    <3>. QED
      BY <3>1, <3>2, TaskValues, Zenon
  <2>. QED
    BY <1>0, <2>1, <2>2, Zenon DEF Importing
<1>7. CASE Download
  <2>1. op' = op /\ slot' = slot /\ queue' = queue /\ task.pc = "asked"
    BY <1>7, Zenon DEF Download, Local
  <2>2. task' \in Tasks /\ task'.pc \in {"loaded", "failed"}
    BY <1>0, <1>7, TaskValues, ZenonT(30) DEF Download, Tasks
  <2>. QED
    BY <1>0, <2>1, <2>2, Zenon DEF Importing
<1>8. CASE ReplaceGraph
  <2>1. slot' = slot /\ queue' = queue /\ task.pc = "loaded"
    BY <1>8, Zenon DEF ReplaceGraph
  <2>2. \/ task' \in Tasks /\ task'.pc = "installing"
        \/ task' \in Tasks /\ task'.pc = "failed" /\ op' = op
    BY <1>0, <1>8, TaskValues, ZenonT(30) DEF ReplaceGraph, Tasks, vars
  <2>. QED
    BY <1>0, <2>1, <2>2, Zenon DEF Importing
<1>9. CASE InstallStep
  <2>1. slot' = slot /\ queue' = queue /\ task.pc = "installing"
    BY <1>0, <1>9, InstallSteps, Zenon DEF InstallStep
  <2>2. CASE op'.pc # "idle"
    BY <1>0, <1>9, <2>1, <2>2 DEF InstallStep, Importing
  <2>3. CASE op'.pc = "idle"
    <3>1. task' \in Tasks /\ task'.pc \in {"installed", "failed"}
      BY <1>0, <1>9, <2>3, TaskValues, Zenon DEF InstallStep, Tasks
    <3>. QED
      BY <1>0, <2>1, <2>3, <3>1, Zenon DEF Importing
  <2>. QED
    BY <2>2, <2>3, Zenon
<1>10. CASE CleanUp
  <2>1. /\ op' = op /\ slot' = FALSE /\ queue' = queue /\ task.pc \in {"installed", "failed"}
        /\ task' = Task("report", 0, FALSE)
    BY <1>10, Zenon DEF CleanUp, Local
  <2>. QED
    BY <1>0, <2>1, TaskValues, Zenon DEF Importing
<1>11. CASE Report
  <2>1. /\ op' = op /\ slot' = slot /\ queue' = queue /\ task.pc = "report"
    BY <1>11, Zenon DEF Report, Local
  <2>2. task' \in Tasks /\ task'.pc \in {"none", "report"}
    BY <1>0, <1>11, TaskValues DEF Report, Again, Tasks
  <2>. QED
    BY <1>0, <2>1, <2>2, Zenon DEF Importing
<1>12. CASE FollowerStops
  <2>1. op' = Idle /\ slot' = FALSE /\ queue' = FALSE /\ task' = NoTask
    BY <1>12, Zenon DEF FollowerStops, Crash, PowerLoss, Stopped
  <2>2. Idle.pc = "idle"
    BY Zenon DEF Idle, Operation
  <2>. QED
    BY <2>1, <2>2, TaskValues, Zenon DEF Importing
<1>13. CASE SendAppend \/ LoseTrigger
  BY <1>0, <1>13 DEF SendAppend, LoseTrigger, vars, Local
<1>. QED
  BY <1>1, <1>2, <1>3, <1>4, <1>5, <1>6, <1>7, <1>8, <1>9, <1>10, <1>11, <1>12, <1>13, Zenon
     DEF TransferNext, Follower

\* The empty server.
LEMMA InitSound ==
  ASSUME TransferInit
  PROVE  IInv
<1>0. /\ meta = Metadata(<<>>, 1) /\ history = {meta} /\ dirs = <<>> /\ up = FALSE /\ next = 1
      /\ graphs = <<>> /\ open = {} /\ users = [i \in Ids |-> 0] /\ op = Idle /\ drop = {}
      /\ reserved = {} /\ dropped = {} /\ nulled = {} /\ torn = {} /\ crashes = 0
      /\ slot = FALSE /\ queue = FALSE /\ task = NoTask
  BY Zenon DEF TransferInit, Init
<1>1. DOMAIN dirs = {} /\ DOMAIN graphs = {} /\ DOMAIN meta.graphs = {} /\ meta.next = 1
  BY <1>0 DEF Metadata
<1>2. op \in Operations /\ op.pc = "idle"
  BY <1>0, GraphManagerAssumption DEF Idle, Operation, Operations
<1>3. OnDisk
  BY <1>0, <1>1 DEF OnDisk, Consistent
<1>a. Memorised
  BY <1>0, <1>1, Zenon DEF Memorised, Down
<1>4. Handles /\ Table
  BY <1>0 DEF Handles, Table
<1>5. CreateOK /\ DeleteOK /\ InstallOK /\ NewOK
  BY <1>2, Zenon DEF CreateOK, DeleteOK, InstallOK, NewOK
<1>6. ManagerInv
  BY <1>0, <1>2, <1>3, <1>a, <1>4, <1>5, Zenon DEF ManagerInv, ReservedIdsNotReused
<1>7. ImportInv
  BY <1>0, <1>2, TaskValues, Zenon DEF ImportInv, SlotReleased, Importing
<1>. QED
  BY <1>0, <1>6, <1>7, Zenon DEF IInv

\* Every step of the follower, of the leader and of the network.
LEMMA StepSound ==
  ASSUME IInv, [TransferNext]_all
  PROVE  IInv'
<1>1. CASE TransferNext
  <2>1. ManagerInv' /\ ImportInv'
    BY <1>1, ManagerSteps, ImportSteps, Zenon DEF IInv
  <2>2. crashes' \in Nat
    <3>1. crashes' = crashes \/ crashes' = crashes + 1
      BY <1>1, Zenon DEF TransferNext, Admin, CreateGraph, DeleteGraph, StartGraphRaft, CreateThrows,
           PublishGraph, EraseGraph, Open, OpenGraph, Release, Replicated, Apply, Follower,
           HandleSnapshotTrigger, AskSnapshot, Download, ReplaceGraph, BeginInstall, InstallStep,
           Install, InstallRefused, ReserveId, ReserveThrows, MakeDir, MoveData,
           CreateRaftLogStorageFromSnapshot, CloseOld, OpenNew, PublishNew, RemoveOld,
           InstallThrows, ReopenOld, ReopenThrows, RemoveNew, CleanUp, Report, FollowerStops,
           Crash, PowerLoss, Stopped, SendAppend, LoseTrigger, vars, Local
    <3>. QED
      BY <3>1 DEF IInv
  <2>. QED
    BY <2>1, <2>2, Zenon DEF IInv
<1>2. CASE UNCHANGED all
  <2>1. ManagerInv'
    BY <1>2, ManagerStutters, Zenon DEF IInv, all, vars, Local
  <2>2. ImportInv' /\ crashes' \in Nat
    BY <1>2, Zenon DEF IInv, ImportInv, SlotReleased, all, vars, transfer
  <2>. QED
    BY <2>1, <2>2, Zenon DEF IInv
<1>. QED
  BY <1>1, <1>2, Zenon

\* IInv is an inductive invariant of the follower and its leader.
LEMMA Inductive == TransferSpec => []IInv
  BY InitSound, StepSound, PTL DEF TransferSpec

\* The invariant says what the properties say.
LEMMA Implied ==
  ASSUME IInv
  PROVE  GraphsSound /\ SlotReleased
<1>1. CatalogRecoverable
  <2>1. \A i \in DOMAIN dirs \ torn : dirs[i].log # NoLog => dirs[i].log <= dirs[i].apply
    BY Zenon DEF IInv, ManagerInv, OnDisk
  <2>2. \A m \in history \cup {meta} : m \in history
    BY Zenon DEF IInv, ManagerInv, OnDisk
  <2>. QED
    BY <2>1, <2>2, Zenon DEF IInv, ManagerInv, OnDisk, Consistent, CatalogRecoverable
<1>2. OpenDirsExist
  <2>1. op = Idle => op.pc = "idle"
    BY DEF Idle, Operation
  <2>. QED
    BY <2>1, Zenon DEF IInv, ManagerInv, Handles, Table, OpenDirsExist
<1>. QED
  BY <1>1, <1>2, Zenon DEF IInv, ManagerInv, ImportInv, GraphsSound

\* At every point where a crash or a power loss can strike, the catalog that
\* it leaves names each graph once, and each graph that was not deleted and
\* whose files no power loss tore has its directory and its log; no handle of
\* GraphManager refers to a directory that is gone, and no id reserved by an
\* installation is reused, whatever a power loss takes.
THEOREM CatalogSurvivesCrashes == TransferSpec => []GraphsSound
  BY Inductive, Implied, PTL

\* updating_graphs_ holds the graph exactly while an import waits or runs.
THEOREM SlotIsReleased == TransferSpec => []SlotReleased
  BY Inductive, Implied, PTL

-----------------------------------------------------------------------------
(* What is under a name.                                                   *)

\* As long as no graph was deleted, a step other than the publication of a
\* snapshot keeps what every graph of the metadata has applied, unless it is a
\* power loss that tears the graph's directory.
LEMMA DirsGrow ==
  ASSUME IInv, TransferNext, op.pc # "replacing", dropped = {}, dropped' = {}
  PROVE  \A i \in DOMAIN meta.graphs \cap DOMAIN dirs :
            \/ i \in DOMAIN dirs' /\ dirs'[i].apply >= dirs[i].apply
            \/ crashes' # crashes /\ i \in torn'
<1> DEFINE Named == DOMAIN meta.graphs \cap DOMAIN dirs
           Grow == \A i \in Named : i \in DOMAIN dirs' /\ dirs'[i].apply >= dirs[i].apply
<1>0. /\ \A i \in DOMAIN dirs : dirs[i] \in [apply : Nat, log : Nat]
      /\ \A i \in Named : i \in DOMAIN meta.graphs /\ i \in DOMAIN dirs
      /\ drop = {}
  BY Zenon DEF IInv, ManagerInv, OnDisk, Handles
<1>1. ASSUME dirs' = dirs
      PROVE  Grow
  BY <1>0, <1>1
<1>2. ASSUME NEW i, i \notin DOMAIN dirs, NEW d, dirs' = Put(dirs, i, d)
      PROVE  Grow
  BY <1>0, <1>2 DEF Put
<1>3. ASSUME NEW i, i \notin DOMAIN meta.graphs, dirs' = Only(dirs, DOMAIN dirs \ {i})
      PROVE  Grow
  BY <1>0, <1>3 DEF Only
<1>4. ASSUME \E n \in Names : CreateGraph(n)
      PROVE  Grow
  BY <1>1, <1>2, <1>4, Zenon DEF CreateGraph, OpenDir
<1>5. ASSUME StartGraphRaft
      PROVE  Grow
  <2>1. dirs' = [dirs EXCEPT ![op.id].log = IF @ = NoLog THEN 0 ELSE @]
    BY <1>5, Zenon DEF StartGraphRaft
  <2>. QED
    BY <1>0, <2>1
<1>6. ASSUME EraseGraph
      PROVE  Grow
  <2>1. op.id \in dropped
    BY <1>6, Zenon DEF EraseGraph, IInv, ManagerInv, DeleteOK
  <2>. QED
    BY <2>1, Zenon
<1>7. ASSUME Open
      PROVE  Grow
  <2>1. CASE meta.graphs # <<>>
    BY <1>0, <1>7 DEF Open
  <2>2. CASE ~(meta.graphs # <<>>)
    BY <2>2 DEF Open, OpenDir
  <2>. QED
    BY <2>1
<1>8. ASSUME \E i \in Ids : Release(i)
      PROVE  Grow
  BY <1>0, <1>8 DEF Release
<1>9. ASSUME Replicated
      PROVE  Grow
  <2>1. dirs' = [dirs EXCEPT ![graphs[Graph]].apply = @ + 1]
    BY <1>9, Zenon DEF Replicated, Apply
  <2>. QED
    BY <1>0, <2>1
<1>10. ASSUME Install
       PROVE  Grow
  <2>0. op.pc \in Installing
    BY <1>10, InstallSteps, Zenon DEF IInv
  <2>1. op.pc \in Installing \ {"wait", "published"} => op.new \notin DOMAIN meta.graphs
    BY Zenon DEF IInv, ManagerInv, NewOK
  <2>2. CASE MakeDir
    <3>1. op.new \notin DOMAIN dirs
      BY <2>2, Zenon DEF MakeDir, IInv, ManagerInv, NewOK
    <3>. QED
      BY <1>2, <2>2, <3>1, Zenon DEF MakeDir
  <2>3. CASE MoveData \/ CreateRaftLogStorageFromSnapshot
    <3>1. op.new \notin DOMAIN meta.graphs
      BY <2>1, <2>3, Zenon DEF MoveData, CreateRaftLogStorageFromSnapshot
    <3>2. DOMAIN dirs' = DOMAIN dirs /\ \A i \in DOMAIN dirs \ {op.new} : dirs'[i] = dirs[i]
      BY <2>3, Zenon DEF MoveData, CreateRaftLogStorageFromSnapshot
    <3>. QED
      BY <1>0, <3>1, <3>2
  <2>4. CASE RemoveOld
    <3>1. op.id \notin DOMAIN meta.graphs
      BY <2>4, Zenon DEF RemoveOld, IInv, ManagerInv, InstallOK
    <3>. QED
      BY <1>1, <1>3, <2>4, <3>1, Zenon DEF RemoveOld
  <2>5. CASE RemoveNew
    BY <1>1, <1>3, <2>0, <2>1, <2>5, Zenon DEF RemoveNew
  <2>6. CASE \/ InstallRefused \/ ReserveId \/ ReserveThrows \/ CloseOld \/ OpenNew \/ PublishNew
             \/ InstallThrows \/ ReopenOld \/ ReopenThrows
    BY <1>1, <2>6, Zenon DEF InstallRefused, ReserveId, ReserveThrows, CloseOld, OpenNew, PublishNew,
                      InstallThrows, ReopenOld, ReopenThrows, disk
  <2>. QED
    BY <1>10, <2>2, <2>3, <2>4, <2>5, <2>6, Zenon DEF Install
<1>11. ASSUME \/ (\E n \in Names : DeleteGraph(n) \/ OpenGraph(n)) \/ CreateThrows \/ PublishGraph
              \/ BeginInstall(Graph, task.index) \/ Crash \/ UNCHANGED Local
       PROVE  Grow
  BY <1>1, <1>11, Zenon DEF DeleteGraph, OpenGraph, CreateThrows, PublishGraph, BeginInstall, Crash,
                     disk, Local
<1>12. ASSUME HandleSnapshotTrigger \/ ReplaceGraph \/ SendAppend
       PROVE  Grow
  <2>1. BeginInstall(Graph, task.index) \/ UNCHANGED Local
    BY <1>12, Zenon DEF HandleSnapshotTrigger, ReplaceGraph, SendAppend, vars, Local
  <2>. QED
    BY <1>11, <2>1, Zenon
<1>13. ASSUME AskSnapshot \/ Download \/ CleanUp \/ Report \/ LoseTrigger
       PROVE  Grow
  BY <1>11, <1>13, Zenon DEF AskSnapshot, Download, CleanUp, Report, LoseTrigger
<1>14. ASSUME PowerLoss, NEW i \in Named, i \notin torn'
       PROVE  i \in DOMAIN dirs' /\ dirs'[i].apply >= dirs[i].apply
  <2>1. i \in DOMAIN dirs' /\ dirs'[i] = dirs[i]
    BY <1>0, <1>14, FilesLost, Zenon DEF PowerLoss, IInv, ManagerInv
  <2>. QED
    BY <1>0, <2>1
<1>15. PowerLoss => crashes' # crashes
  BY DEF PowerLoss, Stopped, IInv
<1>16. Grow \/ PowerLoss
  <2>. HIDE DEF Grow
  <2>. QED
    BY <1>4, <1>5, <1>6, <1>7, <1>8, <1>9, <1>10, <1>11, <1>12, <1>13, Zenon
       DEF TransferNext, Admin, Follower, InstallStep, FollowerStops
<1>. QED
  BY <1>14, <1>15, <1>16, Zenon

\* As long as no graph was deleted, a graph stays in the metadata under its
\* name until a snapshot replaces it, or a power loss undoes its creation.
LEMMA NamesStay ==
  ASSUME IInv, TransferNext, op.pc # "replacing", dropped = {}, dropped' = {}
  PROVE  \/ \A i \in DOMAIN meta.graphs :
              i \in DOMAIN meta'.graphs /\ meta'.graphs[i] = meta.graphs[i]
         \/ /\ crashes' # crashes
            /\ \A i \in DOMAIN meta'.graphs :
                 i \in DOMAIN meta.graphs /\ meta'.graphs[i] = meta.graphs[i]
<1>1. CASE meta'.graphs = meta.graphs
  BY <1>1, Zenon
<1>2. CASE PublishGraph
  <2>1. op.id \notin DOMAIN meta.graphs
    <3>1. op.pc \in Creating
      BY <1>2, Zenon DEF PublishGraph
    <3>2. op.id = meta.next /\ Consistent(meta)
      BY <3>1, Zenon DEF IInv, ManagerInv, CreateOK, Memorised, OnDisk
    <3>. QED
      BY <3>2 DEF Consistent
  <2>2. meta'.graphs = Put(meta.graphs, op.id, op.name)
    BY <1>2, Zenon DEF PublishGraph, WriteMeta, Metadata
  <2>. QED
    BY <2>1, <2>2, Zenon DEF Put
<1>3. CASE PowerLoss
  <2>1. crashes' # crashes /\ meta' \in history
    BY <1>3 DEF PowerLoss, Stopped, IInv
  <2>. QED
    BY <2>1, Zenon DEF IInv, ManagerInv, OnDisk
<1>4. ASSUME NEW n \in Names, DeleteGraph(n)
      PROVE  FALSE
  BY <1>4, Zenon DEF DeleteGraph
<1>5. CASE Install
  <2>1. CASE ReserveId
    BY <2>1, Zenon DEF ReserveId, SyncMeta, Metadata
  <2>2. CASE ~ReserveId
    BY <1>1, <1>5, <2>2, Zenon DEF Install, InstallRefused, ReserveThrows, MakeDir, MoveData,
         CreateRaftLogStorageFromSnapshot, CloseOld, OpenNew, PublishNew, RemoveOld,
         InstallThrows, ReopenOld, ReopenThrows, RemoveNew, disk
  <2>. QED
    BY <2>1, <2>2, Zenon
<1>6. CASE \/ (\E n \in Names : CreateGraph(n)) \/ StartGraphRaft \/ CreateThrows \/ EraseGraph
           \/ Open \/ (\E n \in Names : OpenGraph(n)) \/ (\E i \in Ids : Release(i))
           \/ Replicated \/ Crash
  BY <1>1, <1>6, Zenon DEF CreateGraph, StartGraphRaft, CreateThrows, EraseGraph, Open, OpenGraph,
                    Release, Replicated, Apply, Crash, disk
<1>7. CASE \/ HandleSnapshotTrigger \/ ReplaceGraph \/ SendAppend \/ AskSnapshot \/ Download
           \/ CleanUp \/ Report \/ LoseTrigger
  BY <1>1, <1>7, Zenon DEF HandleSnapshotTrigger, ReplaceGraph, BeginInstall, SendAppend, AskSnapshot,
                    Download, CleanUp, Report, LoseTrigger, vars, Local, disk
<1>. QED
  BY <1>2, <1>3, <1>4, <1>5, <1>6, <1>7, Zenon
     DEF TransferNext, Admin, Follower, InstallStep, FollowerStops

\* The data under a name is that of the one id with the name.
LEMMA NameDataIs ==
  ASSUME IInv
  PROVE  /\ \A n : NameData(n) \in Nat
         /\ \A i \in DOMAIN meta.graphs : i \in DOMAIN dirs => NameData(meta.graphs[i]) = dirs[i].apply
         /\ \A n : NameData(n) # 0 => \E i \in DOMAIN meta.graphs \cap DOMAIN dirs : meta.graphs[i] = n
<1>0. /\ \A i \in DOMAIN dirs : dirs[i].apply \in Nat
      /\ \A i, j \in DOMAIN meta.graphs : meta.graphs[i] = meta.graphs[j] => i = j
  BY Zenon DEF IInv, ManagerInv, OnDisk, Consistent
<1>1. \A n : NameData(n) \in Nat
  BY <1>0, Zenon DEF NameData
<1>2. ASSUME NEW i \in DOMAIN meta.graphs, i \in DOMAIN dirs
      PROVE  NameData(meta.graphs[i]) = dirs[i].apply
  <2>1. (CHOOSE x \in DOMAIN meta.graphs : meta.graphs[x] = meta.graphs[i]) = i
    OBVIOUS
  <2>. QED
    BY <1>2, <2>1, Zenon DEF NameData
<1>3. \A n : NameData(n) # 0 => \E i \in DOMAIN meta.graphs \cap DOMAIN dirs : meta.graphs[i] = n
  BY Zenon DEF NameData
<1>. QED
  BY <1>1, <1>2, <1>3, Zenon

\* A failed or interrupted installation leaves the graph with what it had: the
\* data under the name of a replicated graph goes back only when a snapshot is
\* published, when the graph is deleted, or when a power loss undoes its creation
\* or tears its files.
THEOREM InstallationIsAtomic == TransferSpec => InstallAtomic
<1> DEFINE Data == /\ \A n : NameData(n) \in Nat
                   /\ \A i \in DOMAIN meta.graphs :
                        i \in DOMAIN dirs => NameData(meta.graphs[i]) = dirs[i].apply
                   /\ \A n : NameData(n) # 0 => \E i \in DOMAIN meta.graphs \cap DOMAIN dirs : meta.graphs[i] = n
<1>1. IInv => Data
  BY NameDataIs, Zenon
<1>2. ASSUME IInv, Data, Data', TransferNext, NEW n \in Raft, NameData(n)' < NameData(n),
             op.pc # "replacing", dropped' = dropped, dropped = {}
      PROVE  Undone(n) \/ Torn(n)
  <2>1. PICK i \in DOMAIN meta.graphs \cap DOMAIN dirs : meta.graphs[i] = n
    <3>1. NameData(n) # 0
      BY <1>2
    <3>. QED
      BY <1>2
  <2>0. CASE crashes' # crashes /\ i \in torn'
    BY <2>0, <2>1, Zenon DEF Torn
  <2>2. ASSUME ~(crashes' # crashes /\ i \in torn')
        PROVE  /\ i \in DOMAIN meta.graphs /\ i \in DOMAIN dirs /\ dirs[i].apply \in Nat
               /\ i \in DOMAIN dirs' /\ dirs'[i].apply >= dirs[i].apply
    BY <1>2, <2>2, DirsGrow, Zenon DEF IInv, ManagerInv, OnDisk
  <2>3. NameData(n) = dirs[i].apply
    BY <1>2, <2>1, Zenon
  <2>4. CASE ~(crashes' # crashes /\ i \in torn') /\ i \in DOMAIN meta'.graphs /\ meta'.graphs[i] = meta.graphs[i]
    <3>1. NameData(n)' = dirs'[i].apply
      BY <1>2, <2>1, <2>2, <2>4, Zenon
    <3>2. dirs'[i].apply >= dirs[i].apply /\ dirs[i].apply \in Nat
      BY <2>2, <2>4, Zenon
    <3>3. NameData(n)' < NameData(n) /\ NameData(n)' \in Nat
      BY <1>2, Zenon
    <3>. QED
      BY <2>3, <3>1, <3>2, <3>3
  <2>5. CASE ~(i \in DOMAIN meta'.graphs /\ meta'.graphs[i] = meta.graphs[i])
    <3>1. /\ crashes' # crashes
          /\ \A j \in DOMAIN meta'.graphs :
               j \in DOMAIN meta.graphs /\ meta'.graphs[j] = meta.graphs[j]
      BY <1>2, <2>5, NamesStay, Zenon
    <3>2. \A j \in DOMAIN meta'.graphs : meta'.graphs[j] # n
      BY <1>2, <2>1, <2>5, <3>1 DEF IInv, ManagerInv, OnDisk, Consistent
    <3>. QED
      BY <3>1, <3>2, Zenon DEF Undone
  <2>. QED
    BY <2>0, <2>4, <2>5, Zenon
<1>3. IInv /\ Data /\ Data' /\ [TransferNext]_all =>
        [\A n \in Raft : NameData(n)' < NameData(n) =>
            \/ op.pc = "replacing"
            \/ dropped' # dropped \/ dropped # {}
            \/ Undone(n) \/ Torn(n)]_all
  BY <1>2, Zenon
<1>. QED
  BY <1>1, <1>3, Inductive, PTL DEF TransferSpec, InstallAtomic
=============================================================================
