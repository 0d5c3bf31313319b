-------------------------- MODULE SnapshotTransfer --------------------------
(***************************************************************************)
(* How a follower that is too far behind gets a checkpoint: the leader's   *)
(* MsgSnap is only a trigger, the follower fetches the files over HTTP,    *)
(* installs them with GraphManager, and reports back over HTTP.  This      *)
(* module composes the follower's GraphManager with its import task and    *)
(* with the leader's view of the follower and its table of snapshots.      *)
(*                                                                         *)
(* Graph is the replicated graph.  The leader has compacted the entries    *)
(* up to Compacted; its checkpoints have applied Compacted .. MaxIndex.    *)
(* The leader does not change: a follower that replicates stays so, since  *)
(* rejections below its Match are ignored as stale.                        *)
(***************************************************************************)
EXTENDS GraphManager

CONSTANTS Graph, Compacted, MaxSnapshots, ReportAttempts

ASSUME TransferAssumption == Graph \in Raft /\ Compacted \in Nat

VARIABLES
  progress,  \* the state of the leader's Progress of the follower
  trigger,   \* whether a MsgSnap is on its way
  slot,      \* updating_graphs_ contains Graph
  queue,     \* whether an import waits for the one thread of updates_
  task,      \* the import
  retained   \* snapshots kept by the leader: ids in use or leaked

transfer == <<progress, trigger, slot, queue, task, retained>>
all == <<vars, transfer>>

Task(p, x, o) == [pc |-> p, index |-> x, own |-> o, attempts |-> 0]
NoTask == Task("none", 0, FALSE)

TransferInit ==
  /\ Init
  /\ progress = "probe"
  /\ trigger = FALSE /\ slot = FALSE /\ queue = FALSE /\ task = NoTask
  /\ retained = 0

-----------------------------------------------------------------------------
(* The leader.                                                             *)

\* The follower's log reaches to its applied index; it answers probes while
\* its graph is open.
Answers == Readable /\ Graph \in DOMAIN graphs /\ graphs[Graph] \in open
FollowerLast == dirs[graphs[Graph]].apply

\* maybeSendAppend to a probed follower, whose rejections have led the leader
\* to the end of its log: it replicates if the leader's log still has the next
\* entry, and otherwise sends a snapshot and waits.  Without a connection the
\* driver reports the failure at once, which leads back to probing.
SendAppend ==
  /\ progress = "probe" /\ Answers
  /\ IF FollowerLast + 1 > Compacted
     THEN progress' = "replicate" /\ UNCHANGED trigger
     ELSE \/ progress' = "snapshot" /\ trigger' = TRUE
          \/ UNCHANGED <<progress, trigger>>
  /\ UNCHANGED <<vars, slot, queue, task, retained>>

\* MsgSnapStatus: success or failure, the leader probes again; nothing else
\* ends the wait, and a report out of turn is ignored.
ReportSnapshot ==
  progress' = IF progress = "snapshot" THEN "probe" ELSE progress

-----------------------------------------------------------------------------
(* The follower.                                                           *)

Local == <<disk, up, next, graphs, open, users, op, drop, past, crashes>>

LoseTrigger ==
  /\ trigger /\ Fault
  /\ trigger' = FALSE
  /\ UNCHANGED <<Local, progress, slot, queue, task, retained>>

\* HandleSnapshotTrigger: without the graph it throws, which is only logged;
\* while an import of the graph waits or runs the trigger is ignored.
HandleSnapshotTrigger ==
  /\ trigger /\ Readable
  /\ trigger' = FALSE
  /\ IF Graph \in DOMAIN graphs /\ graphs[Graph] # 0 /\ ~slot
     THEN slot' = TRUE /\ queue' = TRUE
     ELSE UNCHANGED <<slot, queue>>
  /\ UNCHANGED <<vars, progress, task, retained>>

Failed(own) == Task("failed", 0, own)

\* POST /snapshots: the leader forgets the snapshots that are older than an
\* hour and refuses one too many; its answer may be lost.
AskSnapshot ==
  /\ up /\ queue /\ task = NoTask
  /\ queue' = FALSE
  /\ \E kept \in 0 .. retained :
       IF kept < MaxSnapshots
       THEN /\ retained' = kept + 1
            /\ \/ \E index \in Compacted .. MaxIndex :
                    task' = Task("asked", index, FALSE) /\ UNCHANGED faults
               \/ Fault /\ task' = Failed(FALSE)
       ELSE retained' = kept /\ task' = Failed(FALSE) /\ UNCHANGED faults
  /\ UNCHANGED <<Local, progress, trigger, slot>>

\* The files, each with its size and checksum.
Download ==
  /\ up /\ task.pc = "asked"
  /\ \/ task' = [task EXCEPT !.pc = "loaded"] /\ UNCHANGED faults
     \/ Fault /\ task' = Failed(TRUE)
  /\ UNCHANGED <<Local, progress, trigger, slot, queue, retained>>

ReplaceGraph ==
  /\ task.pc = "loaded"
  /\ \/ BeginInstall(Graph, task.index) /\ task' = [task EXCEPT !.pc = "installing"]
     \/ /\ Quiet /\ ~(Graph \in DOMAIN graphs /\ graphs[Graph] # 0)
        /\ task' = Failed(TRUE) /\ UNCHANGED vars
  /\ UNCHANGED <<progress, trigger, slot, queue, retained>>

\* A step of ReplaceGraphFromSnapshot; its return or exception ends it.
InstallStep ==
  /\ Install
  /\ task' = IF op'.pc # "idle" THEN task
             ELSE IF op.pc = "published" THEN [task EXCEPT !.pc = "installed"]
             ELSE Failed(TRUE)
  /\ UNCHANGED <<progress, trigger, slot, queue, retained>>

\* Mutant: an import that failed keeps the slot.
MutCleanUp ==
  /\ up /\ task.pc \in {"installed", "failed"}
  /\ UNCHANGED retained
  /\ slot' = (task.pc = "failed")
  /\ task' = Task("report", 0, FALSE)
  /\ UNCHANGED <<Local, faults, progress, trigger, queue>>

\* DELETE /snapshots/<id>, whose failure is only logged; then the slot is
\* released, before the report.
CleanUp ==
  /\ up /\ task.pc \in {"installed", "failed"}
  /\ LET own == IF task.pc = "failed" THEN task.own ELSE TRUE
     IN  \/ retained' = (IF own /\ retained > 0 THEN retained - 1 ELSE retained) /\ UNCHANGED faults
         \/ own /\ Fault /\ UNCHANGED retained
  /\ slot' = FALSE
  /\ task' = Task("report", 0, FALSE)
  /\ UNCHANGED <<Local, progress, trigger, queue>>

\* An attempt to report: it arrives, it is lost, or only its answer is lost.
Again == IF task.attempts + 1 = ReportAttempts THEN NoTask ELSE [task EXCEPT !.attempts = @ + 1]
Report ==
  /\ up /\ task.pc = "report"
  /\ \/ ReportSnapshot /\ task' = NoTask /\ UNCHANGED faults
     \/ ReportSnapshot /\ task' = Again /\ Fault
     \/ UNCHANGED progress /\ task' = Again /\ Fault
  /\ UNCHANGED <<Local, trigger, slot, queue, retained>>

\* A crash of the follower loses the import and the slot.
FollowerStops ==
  /\ Crash \/ PowerLoss
  /\ task' = NoTask /\ slot' = FALSE /\ queue' = FALSE
  /\ UNCHANGED <<progress, trigger, retained>>

\* The follower applies what the leader replicates.
Replicated == progress = "replicate" /\ Apply(Graph) /\ UNCHANGED transfer

Follower ==
  HandleSnapshotTrigger \/ AskSnapshot \/ Download \/ ReplaceGraph \/ InstallStep \/ CleanUp \/ Report

TransferNext ==
  \/ (Admin \/ Open) /\ UNCHANGED transfer
  \/ (\E n \in Names : OpenGraph(n)) /\ UNCHANGED transfer
  \/ (\E i \in Ids : Release(i)) /\ UNCHANGED transfer
  \/ Replicated
  \/ Follower \/ FollowerStops
  \/ SendAppend \/ LoseTrigger

\* Threads that hold a mutex go on, the import thread works its queue, and a
\* server that stopped is started again.
Progresses == Follower \/ ((StartGraphRaft \/ PublishGraph \/ EraseGraph \/ Open) /\ UNCHANGED transfer)

TransferSpec == TransferInit /\ [][TransferNext]_all /\ WF_all(Progresses)

-----------------------------------------------------------------------------
\* A failed or interrupted installation leaves the graph with what it had:
\* the data under a name goes back to an earlier index only when a snapshot
\* is published, when the graph is deleted, or in a power loss that undoes its
\* creation, whose batch is not synced, or tears its files, which are not synced
\* either.  No exception, no failing clean-up and no crash of the process does.
NameData(n) ==
  LET i == CHOOSE x \in DOMAIN meta.graphs : meta.graphs[x] = n
  IN  IF (\E x \in DOMAIN meta.graphs : meta.graphs[x] = n) /\ i \in DOMAIN dirs
      THEN dirs[i].apply ELSE 0
Undone(n) == crashes' # crashes /\ \A i \in DOMAIN meta'.graphs : meta'.graphs[i] # n
Torn(n) == crashes' # crashes /\ \E i \in torn' \cap DOMAIN meta.graphs : meta.graphs[i] = n
InstallAtomic ==
  [][\A n \in Raft : NameData(n)' < NameData(n) =>
        \/ op.pc = "replacing"
        \/ dropped' # dropped \/ dropped # {}
        \/ Undone(n) \/ Torn(n)]_all

\* updating_graphs_ holds the graph exactly while an import of it waits or
\* runs; a slot that is never released would make the follower ignore every
\* later trigger.
SlotReleased ==
  slot <=> queue \/ task.pc \in {"asked", "loaded", "installing", "installed", "failed"}

\* Unless a step failed, the follower crashed or its graph was deleted, a
\* leader that waits for a snapshot gets a report and resumes, also when the
\* graph is in use and the installation is refused.
WaitEnds ==
  progress = "snapshot" ~>
     \/ progress # "snapshot"
     \/ faults > 0 \/ crashes > 0 \/ dropped # {}
=============================================================================
