------------------------------ MODULE RaftCore ------------------------------
(***************************************************************************)
(* The replicas of one graph: the raft instances of RaftBase, each driven   *)
(* by its RaftDriver, and the network between them.                         *)
(*                                                                         *)
(* One action is one task of a raft thread: a message, a tick, a proposal   *)
(* or a leadership transfer is handed to raft, and then CheckReady persists *)
(* the entries and the hard state, sends the messages, applies what is      *)
(* committed and advances.  What Advance leaves over waits for the next     *)
(* task: until then it is in memory only, and a crash loses it.             *)
(*                                                                         *)
(* The network only remembers what was sent, so that a message may be lost, *)
(* delayed, overtaken or delivered again.                                   *)
(***************************************************************************)
EXTENDS RaftBase

(***************************************************************************)
(* A scenario is a record of                                                *)
(*   node        the replicas as they are found                             *)
(*   value       contents of client proposals                               *)
(*   link        who can reach whom                                         *)
(*   maxTerm, maxLog        bounds on terms and on log length               *)
(*   timeouts    how often each node's election timeout runs out            *)
(*   candidates  how many campaign at a time                                *)
(*   disconnects whether a peer may be found disconnected                   *)
(*   events, maxEvents      what else may happen, and how often in all      *)
(***************************************************************************)
CONSTANT Scenarios

ASSUME ScenarioAssumption ==
    \A k \in DOMAIN Scenarios : LET c == Scenarios[k] IN
        /\ DOMAIN c.node = Server
        /\ c.link \subseteq {{a, b} : a, b \in Server}
        /\ c.timeouts \in [Server -> Nat]

VARIABLES sc,        \* the number of the scenario
          node,      \* node[n]: the raft object of n
          disk,      \* disk[n]: what RaftLogStorage holds
          net,       \* every message sent so far
          timeouts,  \* how often each node's election timeout may still run out
          events     \* how many more of the events may happen

vars == <<sc, node, disk, net, timeouts, events>>

scenario == Scenarios[sc]

\* The hard state and the entries of a raft object
Stored(r) == [term |-> r.term, vote |-> r.vote, committed |-> r.committed, log |-> r.log]

Init == /\ sc \in DOMAIN Scenarios
        /\ node = scenario.node /\ net = {}
        /\ disk = [n \in Server |-> Stored(scenario.node[n])]
        /\ timeouts = scenario.timeouts /\ events = scenario.maxEvents

-----------------------------------------------------------------------------

Bounded(r) == r.term <= scenario.maxTerm /\ LastIndex(r) <= scenario.maxLog

Event(e) == e \in scenario.events /\ events > 0 /\ events' = events - 1

\* stepsOnAdvance_ holds what the instance owes itself in the order of sending:
\* its vote, then the acknowledgements of what it appended.
OwedBefore(a, b) ==
    \/ a.type # "AppResp" /\ b.type = "AppResp"
    \/ a.type = "AppResp" /\ b.type = "AppResp" /\ a.index < b.index

\* CheckReady: the entries and the hard state are stored before a message leaves;
\* a peer without a client gets none, one without a connection is reported, too;
\* Advance steps what the instance owes itself, which is not stored yet.
Ready(n, r, down) ==
    LET own == {m \in r.msgs : m.to = n}
        kept == [r EXCEPT !.msgs = {}]
        sent == IF down = None THEN kept ELSE StepUnreachable(kept, down)
        applied == ApplyCommitted(sent)
    IN  /\ disk' = [disk EXCEPT ![n] = Stored(r)]
        /\ net' = net \cup {m \in r.msgs : m.to \in DOMAIN r.infos \ {n, down}}
        /\ node' = [node EXCEPT ![n] = IF applied.fatal THEN applied
                            ELSE FoldLeft(Step, applied, SetToSortSeq(own, OwedBefore))]

CheckReady(n, r) ==
    /\ Bounded(r) /\ ~node[n].fatal
    /\ \/ Ready(n, r, None)
       \/ /\ scenario.disconnects
          /\ \E down \in {m.to : m \in r.msgs} \ {n} :
                down \in DOMAIN r.infos /\ Ready(n, r, down)

\* RaftDriver::Step; a message that changes nothing is not worth a step
Receive(m) ==
    /\ LET r == Step(node[m.to], m)
       IN  /\ [r EXCEPT !.msgs = @ \ net] # node[m.to]
           /\ CheckReady(m.to, r)
    /\ UNCHANGED <<sc, timeouts, events>>

ReceiveVote(m) == m.type \in {"Vote", "PreVote"} /\ Receive(m)
ReceiveVoteResp(m) == m.type \in {"VoteResp", "PreVoteResp"} /\ Receive(m)
ReceiveApp(m) == m.type = "App" /\ Receive(m)
ReceiveAppResp(m) == m.type = "AppResp" /\ Receive(m)
ReceiveHeartbeat(m) == m.type = "Heartbeat" /\ Receive(m)
ReceiveHeartbeatResp(m) == m.type = "HeartbeatResp" /\ Receive(m)
ReceiveTimeoutNow(m) == m.type = "TimeoutNow" /\ Receive(m)

\* Any tick: CheckReady takes up what the last one left over.
TickIdle(n) ==
    /\ \/ node[n].msgs # {} \/ node[n].applied < node[n].committed
       \/ disk[n] # Stored(node[n])
    /\ CheckReady(n, node[n])
    /\ UNCHANGED <<sc, timeouts, events>>

\* tickElection at the randomized timeout
TickElection(n) ==
    /\ node[n].state # "Leader" /\ Promotable(node[n])
    /\ timeouts[n] > 0
    /\ Cardinality({c \in Server \ {n} : node[c].state \in
                        {"PreCandidate", "Candidate"}}) < scenario.candidates
    /\ CheckReady(n, Hup(node[n], "PreElection"))
    /\ timeouts' = [timeouts EXCEPT ![n] = @ - 1]
    /\ UNCHANGED <<sc, events>>

\* tickHeartbeat at the heartbeat timeout
TickHeartbeat(n) ==
    /\ Event("beat") /\ node[n].state = "Leader"
    /\ CheckReady(n, BcastHeartbeat(node[n]))
    /\ UNCHANGED <<sc, timeouts>>

\* tickHeartbeat at the election timeout, with or without a heartbeat as well
TickCheckQuorum(n) ==
    /\ Event("check") /\ node[n].state = "Leader"
    /\ LET c == StepCheckQuorum(node[n])
       IN  \/ CheckReady(n, c)
           \/ c.state = "Leader" /\ CheckReady(n, BcastHeartbeat(c))
    /\ UNCHANGED <<sc, timeouts>>

\* RaftDriver::Propose on the raft thread: only the leader takes proposals.
Propose(n) ==
    /\ node[n].lead = n /\ node[n].transferee = None
    /\ \E v \in scenario.value :
        /\ \A i \in 1..LastIndex(node[n]) : node[n].log[i].cmd # Data(v)
        /\ CheckReady(n, StepProp(node[n], Data(v)))
    /\ UNCHANGED <<sc, timeouts, events>>

\* RaftDriver::TransferLeader
TransferLeader(n) ==
    /\ Event("transfer") /\ node[n].lead = n
    /\ \E to \in node[n].voters \ {n} :
            CheckReady(n, StepTransferLeader(node[n], to))
    /\ UNCHANGED <<sc, timeouts>>

\* newRaft over the storage, and over what the state machine applied
Reloaded(r, d) == [NewRaft(r.id, d.term, d.vote, d.log, d.committed, r.voters, r.learners)
                   EXCEPT !.applied = r.applied]

\* Mutant: the vote is not part of what is stored.
MutRestartVote(n) ==
    /\ Event("restart")
    /\ node' = [node EXCEPT ![n] = Reloaded(@, [disk[n] EXCEPT !.vote = None])]
    /\ UNCHANGED <<sc, disk, net, timeouts>>

\* The process ends and RaftDriver::Run starts over from what it stored.
Restart(n) ==
    /\ Event("restart")
    /\ node' = [node EXCEPT ![n] = Reloaded(@, disk[n])]
    /\ UNCHANGED <<sc, disk, net, timeouts>>

Next ==
    \/ \E m \in {m \in net : {m.from, m.to} \in scenario.link} :
        \/ ReceiveVote(m) \/ ReceiveVoteResp(m) \/ ReceiveApp(m)
        \/ ReceiveAppResp(m) \/ ReceiveHeartbeat(m) \/ ReceiveHeartbeatResp(m)
        \/ ReceiveTimeoutNow(m)
    \/ \E n \in Server :
        \/ TickIdle(n) \/ TickElection(n) \/ TickHeartbeat(n) \/ TickCheckQuorum(n)
        \/ Propose(n) \/ TransferLeader(n) \/ Restart(n)

Spec == Init /\ [][Next]_vars

-----------------------------------------------------------------------------
(* Properties.                                                             *)

\* Every message is between two of the nodes, about a term and an index that exist.
NetOK ==
    \A m \in net :
        /\ m.from \in Server /\ m.to \in Server /\ m.term \in 0..(scenario.maxTerm + 1)
        /\ m.type \in {"App", "AppResp"} => m.index \in 0..scenario.maxLog

\* The shape of the state; a node applies no more than it committed, and
\* committed no more than it has.
TypeOK ==
    /\ NetOK
    /\ \A n \in Server : LET r == node[n] IN
        /\ r.id = n /\ r.term \in 0..scenario.maxTerm
        /\ r.vote \in Server \cup {None} /\ r.lead \in Server \cup {None}
        /\ r.state \in {"Follower", "PreCandidate", "Candidate", "Leader"}
        /\ LastIndex(r) <= scenario.maxLog
        /\ 0 <= r.applied /\ r.applied <= r.committed
        /\ r.committed <= LastIndex(r)
        /\ r.votes \in [Server -> {"none", "yes", "no"}]
        /\ DOMAIN r.prs \subseteq Server

Leaders == {n \in Server : node[n].state = "Leader"}

\* Two appends of one term never come from two leaders: becomeLeader is
\* reached by at most one node per term, over all of history.
ElectionSafety ==
    LET apps == {m \in net : m.type = "App"}
    IN  \A a, b \in apps : a.term = b.term => a.from = b.from

\* Whatever any node regards as committed is in the log of every leader of
\* the same or a later term than that node's.
LeaderCompleteness ==
    \A l \in Leaders, n \in Server :
        node[l].term >= node[n].term =>
            /\ LastIndex(node[l]) >= node[n].committed
            /\ SubSeq(node[l].log, 1, node[n].committed)
                 = SubSeq(node[n].log, 1, node[n].committed)

\* No two replicas apply different entries at one index.
StateMachineSafety ==
    \A a, b \in Server :
        LET c == Min({node[a].committed, node[b].committed})
        IN  SubSeq(node[a].log, 1, c) = SubSeq(node[b].log, 1, c)

\* Nobody runs into an ERAFT_FATAL of log.h or of a role change.
NoFatal == \A n \in Server : ~node[n].fatal

\* What the leader believes of a peer that is still in its term: the peer's
\* log really matches up to match_, and next_ is just past something that the
\* leader can name, so that no snapshot is asked for.
ProgressSound ==
    \A l \in Leaders : \A p \in Members(node[l]) :
        LET pr == node[l].prs[p] IN
        /\ pr.next \in 1..(LastIndex(node[l]) + 1)
        /\ node[p].term = node[l].term =>
            /\ LastIndex(node[p]) >= pr.match
            /\ SubSeq(node[p].log, 1, pr.match)
                 = SubSeq(node[l].log, 1, pr.match)

\* Whoever granted a vote has stored it, or a later term, and so it stays: the
\* vote is written before the answer leaves (raft::send, CheckReady), and no
\* later change of role and no restart forgets it.
PublishedVoteIsStored ==
    \A m \in net : m.type = "VoteResp" /\ ~m.reject =>
        \/ disk[m.from].term > m.term
        \/ disk[m.from].term = m.term /\ disk[m.from].vote = m.to

\* What a replica stored it keeps, whatever it receives and whenever it
\* restarts: the term, the vote of a term, and the entries it stored as
\* committed.  Nothing else is executed or acknowledged: the term, the vote or
\* the commit index that Advance makes of the replica's own answers are lost in
\* a crash, but before CheckReady has stored them nobody acts on them.
Durable ==
    /\ [][\A n \in Server : LET old == disk[n]  new == disk'[n] IN
            /\ new.term >= old.term
            /\ new.term = old.term /\ old.vote # None => new.vote = old.vote
            /\ new.committed >= old.committed
            /\ SubSeq(new.log, 1, old.committed) = SubSeq(old.log, 1, old.committed)]_vars
    /\ [](\A n \in Server : node[n].applied <= disk[n].committed)
    /\ [](\A m \in net : m.type = "AppResp" /\ ~m.reject /\ m.term = disk[m.from].term =>
            Len(disk[m.from].log) >= m.index)

\* What elections rest on: one leader per term, because no vote that was
\* answered is forgotten (raft::send, CheckReady, becomeLeader).
VotesSound == ElectionSafety /\ PublishedVoteIsStored

\* A replica's state keeps its shape, no ERAFT_FATAL of log.h or of a role
\* change is reached, and what a leader believes of its peers is true.
StateSound == TypeOK /\ NoFatal /\ ProgressSound
=============================================================================
