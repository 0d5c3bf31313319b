----------------------------- MODULE RaftReconf -----------------------------
(***************************************************************************)
(* Membership changes of a graph: the replicas of RaftCore, and the         *)
(* operations of GraphManager (server/graph_manager.cc) that administrators *)
(* call on any of them.  An operation asks the raft thread who leads, reads *)
(* node_infos_ (and, for a promotion, the status of raft), checks what it   *)
(* read, and only then proposes the change; raft threads go on between any  *)
(* two of these steps.                                                      *)
(***************************************************************************)
EXTENDS RaftCore

CONSTANT Calls    \* for each scenario a sequence of sets of calls, one of which is
                  \* made by each client: records of at (the node called), op (add,
                  \* learner, promote, demote, remove or update) and id

VARIABLE call         \* call[c]: where the operation of client c is

reconfVars == <<vars, call>>

Clients == DOMAIN Calls[sc]

ReconfInit ==
    /\ Init
    /\ call \in {k \in [Clients -> [pc : {"idle"}, leader : {None},
                                     change : UNION Range(Calls[sc])]] :
                    \A c \in Clients : k[c].change \in Calls[sc][c]}

-----------------------------------------------------------------------------
\* GetNodeInfosWithLeader: the raft thread of n answers who leads.
AskLeader(c) ==
    LET r == node[call[c].change.at] IN
    /\ call[c].pc = "idle" /\ ~r.fatal
    /\ call' = [call EXCEPT ![c].pc = "asked", ![c].leader = r.lead]
    /\ UNCHANGED vars

Voters(infos) == {p \in DOMAIN infos : ~infos[p]}

\* GetRaftStatus, at a promotion: here leads, and the learner has caught up.
CaughtUp(r, id) ==
    r.lead = r.id /\ id \in DOMAIN r.prs /\ r.prs[id].match >= r.committed

\* The checks of AddManagedRaftNode, PromoteManagedRaftLearnerNode,
\* RemoveManagedRaftNode, DemoteManagedRaftNode and UpdateManagedRaftNode
Allowed(r, change, leader) ==
    LET id == change.id  infos == r.infos IN
    CASE change.op \in {"add", "learner"} -> id \notin DOMAIN infos
      [] change.op = "promote" ->
            id \in DOMAIN infos /\ infos[id] /\ CaughtUp(r, id)
      [] change.op = "demote" ->
            /\ id \in Voters(infos) /\ id # leader
            /\ Cardinality(Voters(infos)) > 1
      [] change.op = "remove" ->
            /\ id \in DOMAIN infos /\ id # leader
            /\ ~infos[id] => Cardinality(Voters(infos)) > 1
      [] change.op = "update" -> id \in DOMAIN infos /\ id # leader

\* The checks: the call fails, or goes on to ProposeRaftConfChange.
Check(c) ==
    LET k == call[c] IN
    /\ k.pc = "asked"
    /\ call' = [call EXCEPT ![c].pc =
                    IF Allowed(node[k.change.at], k.change, k.leader)
                    THEN "checked" ELSE "done"]
    /\ UNCHANGED vars

ConfOf(change) == Conf(CASE change.op = "promote" -> "add"
                         [] change.op = "demote" -> "learner"
                         [] OTHER -> change.op, change.id)

\* RaftDriver::Propose on the raft thread.
ProposeConfChange(c) ==
    LET n == call[c].change.at IN
    /\ call[c].pc = "checked"
    /\ call' = [call EXCEPT ![c].pc = "done"]
    /\ IF node[n].lead = n
       THEN CheckReady(n, StepProp(node[n], ConfOf(call[c].change)))
       ELSE UNCHANGED <<node, disk, net>>
    /\ UNCHANGED <<sc, timeouts, events>>

ReconfNext ==
    \/ Next /\ UNCHANGED call
    \/ \E c \in Clients : AskLeader(c) \/ Check(c) \/ ProposeConfChange(c)

ReconfSpec == ReconfInit /\ [][ReconfNext]_reconfVars

-----------------------------------------------------------------------------
\* node_infos_, from which the operations decide and the messages get their
\* addresses, names the same voters and learners as the configuration of raft.
InfosMatchConfig ==
    \A n \in Server : LET r == node[n] IN
        ~r.fatal => /\ DOMAIN r.infos = Members(r)
                    /\ r.voters \cap r.learners = {}
                    /\ Voters(r.infos) = r.voters

ConfEntriesAfter(r, i) == {j \in (i + 1)..LastIndex(r) : r.log[j].cmd.kind = "conf"}

\* A leader never has two configuration changes that it has not applied, also
\* when it inherited one from an earlier leader (pendingConfIndex_).
OneChangeAtATime ==
    \A l \in Leaders : Cardinality(ConfEntriesAfter(node[l], node[l].applied)) <= 1

\* Configurations change one at a time, and what the driver keeps of them
\* (node_infos_) follows what raft applies.
ConfigurationSound == InfosMatchConfig /\ OneChangeAtATime

=============================================================================
