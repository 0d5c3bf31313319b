------------------------------ MODULE RaftBase ------------------------------
(***************************************************************************)
(* One raft instance of etcd_raft/raft.h with its log (log.h), the progress *)
(* of its peers (tracker/) and its quorums (quorum/), as functions from the *)
(* instance and an input to the instance: pre-vote and check-quorum are on, *)
(* as RaftDriver::Run configures them.  Modules that EXTEND this one say    *)
(* when the functions are called and what carries the messages.             *)
(*                                                                         *)
(* Messages leave through msgs, which RaftDriver::CheckReady empties.  The  *)
(* log is never compacted here, and maxInflightMsgs_ is not reached.        *)
(***************************************************************************)
EXTENDS Integers, FiniteSets, Sequences, FiniteSetsExt, SequencesExt

CONSTANTS Server,      \* the nodes
          None,        \* eraft::None
          MaxEnts      \* entries that fit in one append (maxSizePerMsg_)

ASSUME ServerAssumption == /\ IsFiniteSet(Server)
                           /\ None \notin Server
                           /\ MaxEnts \in Nat \ {0}

-----------------------------------------------------------------------------
(* Entries and the log: log.h with the unstable part already persisted.    *)

Empty == [kind |-> "empty"]                    \* the entry of a new leader
Data(v) == [kind |-> "data", val |-> v]        \* EntryNormal
Conf(op, id) == [kind |-> "conf", op |-> op, id |-> id]   \* EntryConfChange
Boot == Conf("boot", None)          \* all the AddNode entries of Bootstrap
Entry(t, c) == [term |-> t, cmd |-> c]

LastIndex(r) == Len(r.log)
\* RaftLog::term with zeroTermOnOutOfBounds
Term(r, i) == IF i \in 1..LastIndex(r) THEN r.log[i].term ELSE 0
LastTerm(r) == Term(r, LastIndex(r))
MatchTerm(r, i, t) == i <= LastIndex(r) /\ Term(r, i) = t
\* Mutant: whatever the candidate's log holds is good enough.
MutIsUpToDate(r, lasti, t) == TRUE

IsUpToDate(r, lasti, t) ==
    t > LastTerm(r) \/ (t = LastTerm(r) /\ lasti >= LastIndex(r))

\* The largest guess <= index whose term is at most t or is not known.
FindConflictByTerm(r, index, t) ==
    Max({0} \cup {i \in 1..index : i > LastIndex(r) \/ Term(r, i) <= t})

\* ERAFT_FATAL ends the process.
Fatal(r) == [r EXCEPT !.fatal = TRUE]

CommitTo(r, i) ==
    IF i <= r.committed THEN r
    ELSE IF i > LastIndex(r) THEN Fatal(r)
    ELSE [r EXCEPT !.committed = i]

\* findConflict: the first of the entries after index that the log lacks.
FindConflict(r, index, ents) ==
    LET missing == {k \in 1..Len(ents) :
                        ~MatchTerm(r, index + k, ents[k].term)}
    IN  IF missing = {} THEN 0 ELSE index + Min(missing)

\* Mutant: entries that are there stay, also when they conflict.
MutTruncate(r, index, ci, ents) ==
    [r EXCEPT !.log = @ \o SubSeq(ents, Len(@) - index + 1, Len(ents))]

\* RaftLog::append: entries from index ci on replace what the log holds there.
Truncate(r, index, ci, ents) ==
    [r EXCEPT !.log = SubSeq(@, 1, ci - 1)
                        \o SubSeq(ents, ci - index, Len(ents))]

\* Mutant: only heartbeats tell a follower what is committed.
MutMaybeAppend(r, index, commit, ents) ==
    LET ci == FindConflict(r, index, ents)
    IN  IF ci = 0 THEN r ELSE Truncate(r, index, ci, ents)

\* maybeAppend, after its matchTerm check succeeded
MaybeAppend(r, index, commit, ents) ==
    LET ci == FindConflict(r, index, ents)
        appended == IF ci = 0 THEN r
                    ELSE IF ci <= r.committed THEN Fatal(r)
                    ELSE Truncate(r, index, ci, ents)
    IN  CommitTo(appended, Min({commit, index + Len(ents)}))

-----------------------------------------------------------------------------
(* Messages.  msgs holds what the next CheckReady sends; a message to the   *)
(* node itself is stepped by Advance.                                       *)

Send(r, ms) == [r EXCEPT !.msgs = @ \cup ms]

AppResp(r, to, index) ==
    [type |-> "AppResp", from |-> r.id, to |-> to, term |-> r.term,
     index |-> index, reject |-> FALSE]
AppReject(r, to, index, hint) ==
    [type |-> "AppResp", from |-> r.id, to |-> to, term |-> r.term,
     index |-> index, reject |-> TRUE, hint |-> hint,
     logTerm |-> Term(r, hint)]
VoteResp(type, from, to, t, reject) ==
    [type |-> type, from |-> from, to |-> to, term |-> t, reject |-> reject]
TimeoutNow(r, to) ==
    [type |-> "TimeoutNow", from |-> r.id, to |-> to, term |-> r.term]
\* sendHeartbeat never names a commit index beyond what the peer acknowledged.
Heartbeat(r, to) ==
    [type |-> "Heartbeat", from |-> r.id, to |-> to, term |-> r.term,
     commit |-> Min({r.prs[to].match, r.committed})]
HeartbeatResp(r, to) ==
    [type |-> "HeartbeatResp", from |-> r.id, to |-> to, term |-> r.term]

-----------------------------------------------------------------------------
(* Progress of the peers as the leader sees it: tracker/progress.h.         *)

Members(r) == r.voters \cup r.learners
Peers(r) == Members(r) \ {r.id}

NewProgress(next) == [match |-> 0, next |-> next, state |-> "Probe",
                      paused |-> FALSE, active |-> FALSE]
BecomeReplicate(pr) == [pr EXCEPT !.state = "Replicate", !.paused = FALSE,
                                  !.next = pr.match + 1]
BecomeProbe(pr) == [pr EXCEPT !.state = "Probe", !.paused = FALSE,
                              !.next = pr.match + 1]
MaybeUpdate(pr, n) ==
    [pr EXCEPT !.match = Max({@, n}), !.next = Max({@, n + 1}),
               !.paused = @ /\ pr.match >= n]

\* Only a leader reads the progress, and becomeLeader starts it afresh.
NoProgress == [p \in {} |-> NewProgress(0)]

\* The append of the entries from index next on that fit in one message
App(r, p, next) ==
    [type |-> "App", from |-> r.id, to |-> p, term |-> r.term,
     index |-> next - 1, logTerm |-> Term(r, next - 1),
     entries |-> SubSeq(r.log, next, Min({LastIndex(r), next + MaxEnts - 1})),
     commit |-> r.committed]

\* UpdateOnEntriesSend: replication is optimistic, a probe waits for its answer.
UpdateOnEntriesSend(pr, last) ==
    IF pr.state = "Replicate"
    THEN [pr EXCEPT !.next = Max({pr.next, Min({last + 1, pr.next + MaxEnts})})]
    ELSE [pr EXCEPT !.paused = pr.next <= last]

\* maybeSendAppend to each peer of a set
MaybeSendAppend(r, to, sendIfEmpty) ==
    LET last == LastIndex(r)
        S == {p \in to : /\ ~r.prs[p].paused
                         /\ sendIfEmpty \/ r.prs[p].next <= last}
    IN  [r EXCEPT !.prs = [p \in DOMAIN @ |->
                    IF p \in S THEN UpdateOnEntriesSend(@[p], last) ELSE @[p]],
                  !.msgs = @ \cup {App(r, p, r.prs[p].next) : p \in S}]

\* while (maybeSendAppend(p, false)): a probe at most, or all that is left
SendAll(r, p) ==
    LET pr == r.prs[p]
        last == LastIndex(r)
        starts == {i \in pr.next..last : (i - pr.next) % MaxEnts = 0}
    IN  IF pr.state = "Probe" THEN MaybeSendAppend(r, {p}, FALSE)
        ELSE [r EXCEPT !.prs[p].next = Max({pr.next, last + 1}),
                       !.msgs = @ \cup {App(r, p, i) : i \in starts}]

BcastAppend(r) == MaybeSendAppend(r, Peers(r), TRUE)

-----------------------------------------------------------------------------
(* Quorums: quorum/majority.h                                              *)

Quorum(V) == Cardinality(V) \div 2 + 1

\* MajorityConfig::CommittedIndex; a quorum of nobody is never committed to
CommittedIndex(r) ==
    Max({0} \cup {i \in 1..LastIndex(r) :
            Cardinality({p \in r.voters : r.prs[p].match >= i})
                >= Quorum(r.voters)})

\* Mutant: entries of earlier terms are committed by counting replicas.
MutMaybeCommit(r) == CommitTo(r, Max({r.committed, CommittedIndex(r)}))

MaybeCommit(r) ==
    LET mci == CommittedIndex(r)
    IN  IF mci > r.committed /\ Term(r, mci) = r.term
        THEN CommitTo(r, mci) ELSE r

Granted(r) == {p \in r.voters : r.votes[p] = "yes"}
Missing(r) == {p \in r.voters : r.votes[p] = "none"}
VoteWon(r) == Cardinality(Granted(r)) >= Quorum(r.voters)
VoteLost(r) == Cardinality(Granted(r)) + Cardinality(Missing(r))
                    < Quorum(r.voters)
QuorumActive(r) == Cardinality({p \in r.voters : r.prs[p].active})
                        >= Quorum(r.voters)

-----------------------------------------------------------------------------
(* Role changes.                                                           *)

NoVotes == [p \in Server |-> "none"]

Reset(r, t) ==
    [r EXCEPT !.term = t, !.vote = IF r.term = t THEN @ ELSE None,
              !.lead = None, !.transferee = None, !.votes = NoVotes, !.prs = NoProgress, !.pendingConf = 0]

BecomeFollower(r, t, lead) ==
    [Reset(r, t) EXCEPT !.state = "Follower", !.lead = lead]

BecomeCandidate(r) ==
    IF r.state = "Leader" THEN Fatal(r)
    ELSE [Reset(r, r.term + 1) EXCEPT !.state = "Candidate", !.vote = r.id]

BecomePreCandidate(r) ==
    IF r.state = "Leader" THEN Fatal(r)
    ELSE [r EXCEPT !.state = "PreCandidate", !.votes = NoVotes, !.lead = None]

\* appendEntry: the leader's own acknowledgement waits for Advance.
AppendEntry(r, cmd) ==
    LET a == [r EXCEPT !.log = Append(@, Entry(r.term, cmd))]
    IN  Send(a, {AppResp(a, a.id, LastIndex(a))})

\* Mutant: a new leader does not expect a configuration change in its log.
MutBecomeLeader(r) ==
    LET fresh == NewProgress(LastIndex(r) + 1)
        self == [fresh EXCEPT !.match = LastIndex(r), !.active = TRUE]
    IN  AppendEntry([Reset(r, r.term) EXCEPT
                       !.state = "Leader", !.lead = r.id,
                       !.prs = [p \in Members(r) |-> IF p = r.id THEN self ELSE fresh]],
                    Empty)

BecomeLeader(r) ==
    LET fresh == NewProgress(LastIndex(r) + 1)
        self == [fresh EXCEPT !.match = LastIndex(r), !.active = TRUE,
                              !.state = "Replicate"]
        led == [Reset(r, r.term) EXCEPT
                  !.state = "Leader", !.lead = r.id,
                  !.prs = [p \in Members(r) |-> IF p = r.id THEN self
                                                           ELSE fresh],
                  !.pendingConf = LastIndex(r)]
    IN  AppendEntry(led, Empty)

\* campaign: the candidate's own vote is one of the messages.
Campaign(r, kind) ==
    LET c == IF kind = "PreElection" THEN BecomePreCandidate(r)
                                     ELSE BecomeCandidate(r)
        t == IF kind = "PreElection" THEN c.term + 1 ELSE c.term
        Ask(p) == [type |-> IF kind = "PreElection" THEN "PreVote" ELSE "Vote",
                   from |-> c.id, to |-> p, term |-> t,
                   index |-> LastIndex(c), logTerm |-> LastTerm(c),
                   force |-> kind = "Transfer"]
        Own == VoteResp(IF kind = "PreElection" THEN "PreVoteResp"
                                                ELSE "VoteResp",
                        c.id, c.id, t, FALSE)
    IN  Send(c, {Ask(p) : p \in c.voters \ {c.id}}
                  \cup (IF c.id \in c.voters THEN {Own} ELSE {}))

Promotable(r) == r.id \in r.voters
HasUnappliedConfChanges(r) ==
    \E i \in (r.applied + 1)..r.committed : r.log[i].cmd.kind = "conf"

Hup(r, kind) ==
    IF r.state = "Leader" \/ ~Promotable(r) \/ HasUnappliedConfChanges(r)
    THEN r ELSE Campaign(r, kind)

-----------------------------------------------------------------------------
(* Step: what raft does with a message.                                    *)

\* The term check at the top of Step, for a message that is not stale.
AtTerm(r, m) ==
    IF \/ m.term = r.term
       \/ m.type = "PreVote"
       \/ m.type = "PreVoteResp" /\ ~m.reject
    THEN r
    ELSE BecomeFollower(r, m.term,
                        IF m.type \in {"App", "Heartbeat"} THEN m.from
                                                           ELSE None)

\* The lease of Step: time passes between any two tasks, so that a follower may
\* or may not have heard of its leader within electionTimeout_.  A request that
\* it ignores changes nothing; a leader (its electionElapsed_ never gets there)
\* ignores every one that is not forced.
InLease(r) == r.state = "Leader"

\* A message from a lower term: a deposed leader is told the term, and so is
\* a pre-candidate that would otherwise never learn it.
StepStale(r, m) ==
    CASE m.type \in {"App", "Heartbeat"} -> Send(r, {AppResp(r, m.from, 0)})
      [] m.type = "PreVote" ->
            Send(r, {VoteResp("PreVoteResp", r.id, m.from, r.term, TRUE)})
      [] OTHER -> r

\* Mutant: whoever asks in the current term gets the vote.
MutCanVote(r, m) == TRUE

\* MsgVote and MsgPreVote
CanVote(r, m) == \/ r.vote = m.from
                 \/ r.vote = None /\ r.lead = None
                 \/ m.type = "PreVote" /\ m.term > r.term

StepVote(r, m) ==
    LET resp == IF m.type = "Vote" THEN "VoteResp" ELSE "PreVoteResp"
        yes == Send(r, {VoteResp(resp, r.id, m.from, m.term, FALSE)})
    IN  IF ~(CanVote(r, m) /\ IsUpToDate(r, m.index, m.logTerm))
        THEN Send(r, {VoteResp(resp, r.id, m.from, r.term, TRUE)})
        ELSE IF m.type = "Vote"
        THEN [yes EXCEPT !.vote = m.from]
        ELSE yes

\* Msg(Pre)VoteResp at a (pre-)candidate: poll, then act on the outcome.
StepVoteResp(r, m) ==
    LET own == IF r.state = "PreCandidate" THEN "PreVoteResp" ELSE "VoteResp"
        p == [r EXCEPT !.votes[m.from] =
                IF @ # "none" THEN @ ELSE IF m.reject THEN "no" ELSE "yes"]
    IN  IF r.state \notin {"PreCandidate", "Candidate"} \/ m.type # own THEN r
        ELSE IF VoteWon(p)
        THEN IF r.state = "PreCandidate" THEN Campaign(p, "Election")
                                         ELSE BcastAppend(BecomeLeader(p))
        ELSE IF VoteLost(p) THEN BecomeFollower(p, p.term, None)
        ELSE p

HandleAppendEntries(r, m) ==
    IF m.index < r.committed THEN Send(r, {AppResp(r, m.from, r.committed)})
    ELSE IF MatchTerm(r, m.index, m.logTerm)
    THEN LET a == MaybeAppend(r, m.index, m.commit, m.entries)
         IN  Send(a, {AppResp(a, m.from, m.index + Len(m.entries))})
    ELSE LET hint == FindConflictByTerm(r, Min({m.index, LastIndex(r)}),
                                        m.logTerm)
         IN  Send(r, {AppReject(r, m.from, m.index, hint)})

HandleHeartbeat(r, m) ==
    LET c == CommitTo(r, m.commit) IN Send(c, {HeartbeatResp(c, m.from)})

\* A follower hears from its leader; a candidate of the term gives up.
Follow(r, m) ==
    IF r.state = "Follower" THEN [r EXCEPT !.lead = m.from]
    ELSE BecomeFollower(r, m.term, m.from)

\* MsgApp and MsgHeartbeat; a leader has no use for either
StepFromLeader(r, m) ==
    IF r.state = "Leader" THEN r
    ELSE IF m.type = "App" THEN HandleAppendEntries(Follow(r, m), m)
    ELSE HandleHeartbeat(Follow(r, m), m)

\* A rejected append: look further back, unless the rejection is stale.
StepAppReject(r, m) ==
    LET pr == r.prs[m.from]
        probe == IF m.logTerm > 0
                 THEN FindConflictByTerm(r, m.hint, m.logTerm) ELSE m.hint
        back == [pr EXCEPT !.next = Max({1, Min({m.index, probe + 1})}),
                           !.paused = FALSE]
        stale == IF pr.state = "Replicate" THEN m.index <= pr.match
                                           ELSE pr.next - 1 # m.index
        tried == [r EXCEPT !.prs[m.from] =
                    IF pr.state = "Replicate" THEN BecomeProbe(pr) ELSE back]
    IN  IF stale THEN r ELSE MaybeSendAppend(tried, {m.from}, TRUE)

\* An accepted append: more may be committed, and more may be sent.
StepAppAccept(r, m) ==
    LET old == r.prs[m.from]
        upd == MaybeUpdate(old, m.index)
        pr == IF upd.state = "Probe" THEN BecomeReplicate(upd) ELSE upd
        acked == [r EXCEPT !.prs[m.from] = pr]
        c == MaybeCommit(acked)
        sent == IF c.committed > r.committed THEN BcastAppend(c)
                ELSE IF old.paused /\ m.from # r.id
                THEN MaybeSendAppend(c, {m.from}, TRUE) ELSE c
        more == IF m.from = r.id THEN sent
                ELSE SendAll(sent, m.from)
    IN  IF /\ old.match >= m.index
           /\ ~(old.match = m.index /\ old.state = "Probe")
        THEN [r EXCEPT !.prs[m.from] = upd]
        ELSE IF m.from = r.transferee /\ pr.match = LastIndex(r)
        THEN Send(more, {TimeoutNow(r, m.from)})
        ELSE more

Active(r, p) == [r EXCEPT !.prs[p].active = TRUE]

\* MsgAppResp at the leader; anyone else only learns the term from it
StepAppResp(r, m) ==
    IF r.state # "Leader" \/ m.from \notin DOMAIN r.prs THEN r
    ELSE IF m.reject THEN StepAppReject(Active(r, m.from), m)
    ELSE StepAppAccept(Active(r, m.from), m)

\* MsgHeartbeatResp: the peer is alive, so appends to it may flow again.
StepHeartbeatResp(r, m) ==
    LET a == [Active(r, m.from) EXCEPT !.prs[m.from].paused = FALSE]
        pr == r.prs[m.from]
    IN  IF r.state # "Leader" \/ m.from \notin DOMAIN r.prs THEN r
        ELSE IF pr.match < LastIndex(r) \/ pr.state = "Probe"
        THEN MaybeSendAppend(a, {m.from}, TRUE)
        ELSE a

\* MsgTimeoutNow: only a follower starts an election for the transfer.
StepTimeoutNow(r) == IF r.state = "Follower" THEN Hup(r, "Transfer") ELSE r

\* Step for a message that is not older than the instance's term
StepCurrent(r, m) ==
    CASE m.type \in {"Vote", "PreVote"} -> StepVote(r, m)
      [] m.type \in {"VoteResp", "PreVoteResp"} -> StepVoteResp(r, m)
      [] m.type \in {"App", "Heartbeat"} -> StepFromLeader(r, m)
      [] m.type = "AppResp" -> StepAppResp(r, m)
      [] m.type = "HeartbeatResp" -> StepHeartbeatResp(r, m)
      [] m.type = "TimeoutNow" -> StepTimeoutNow(r)

\* RawNode::Step has no use for an answer of a node it does not know.
IsResponse(m) == m.type \in {"AppResp", "VoteResp", "PreVoteResp", "HeartbeatResp"}

Step(r, m) ==
    IF IsResponse(m) /\ m.from \notin Members(r) THEN r
    ELSE IF m.term < r.term THEN StepStale(r, m)
    ELSE IF m.type \in {"Vote", "PreVote"} /\ m.term > r.term
            /\ ~m.force /\ InLease(r)
    THEN r
    ELSE StepCurrent(AtTerm(r, m), m)

-----------------------------------------------------------------------------
(* Local inputs.                                                           *)

\* MsgProp at the leader; leadership transfer drops proposals.  A conf change
\* that is not allowed now is appended as an empty entry.
StepProp(r, cmd) ==
    LET refused == cmd.kind = "conf" /\ r.pendingConf > r.applied
        a == AppendEntry(r, IF refused THEN Empty ELSE cmd)
        p == IF cmd.kind = "conf" /\ ~refused
             THEN [a EXCEPT !.pendingConf = LastIndex(a)] ELSE a
    IN  IF r.transferee # None THEN r ELSE BcastAppend(p)

\* MsgTransferLeader at the leader
StepTransferLeader(r, to) ==
    LET t == [r EXCEPT !.transferee = to]
    IN  IF r.transferee = to THEN r
        ELSE IF r.prs[to].match = LastIndex(r) THEN Send(t, {TimeoutNow(t, to)})
        ELSE MaybeSendAppend(t, {to}, TRUE)

\* MsgBeat
BcastHeartbeat(r) == Send(r, {Heartbeat(r, p) : p \in Peers(r)})

\* MsgUnreachable: optimistic replication to the peer ends, as its last append
\* was probably lost.
StepUnreachable(r, p) ==
    IF r.state = "Leader" /\ p \in DOMAIN r.prs /\ r.prs[p].state = "Replicate"
    THEN [r EXCEPT !.prs[p] = BecomeProbe(@)] ELSE r

\* MsgCheckQuorum, and the transfer that tickHeartbeat gives up with it
StepCheckQuorum(r) ==
    IF QuorumActive(r)
    THEN [r EXCEPT !.transferee = None,
                   !.prs = [p \in DOMAIN @ |->
                        [@[p] EXCEPT !.active = p = r.id]]]
    ELSE BecomeFollower(r, r.term, None)

-----------------------------------------------------------------------------
(* Applying a configuration change: confchange.h for one change at a time,  *)
(* raft::switchToConfig and node_infos_ of the driver.                      *)

\* Changer::apply and Simple; what becomes of the progress of the node
ChangeConfig(r, c) ==
    LET new == [NewProgress(LastIndex(r)) EXCEPT !.active = TRUE]
        voters == CASE c.op = "add" -> r.voters \cup {c.id}
                    [] c.op \in {"learner", "remove"} -> r.voters \ {c.id}
                    [] OTHER -> r.voters
        learners == CASE c.op = "learner" -> r.learners \cup {c.id}
                      [] c.op \in {"add", "remove"} -> r.learners \ {c.id}
                      [] OTHER -> r.learners
    IN  IF voters = {} THEN Fatal(r)
        ELSE [r EXCEPT !.voters = voters, !.learners = learners,
                       !.prs = IF r.state # "Leader" THEN @
                               ELSE [p \in voters \cup learners |->
                                        IF p \in DOMAIN @ THEN @[p] ELSE new]]

\* A leader that is no voter any more steps down; any other one sends what the
\* new configuration lets it commit, or probes the new peer.
SwitchToConfig(r) ==
    LET c == MaybeCommit(r)
        sent == IF c.committed > r.committed THEN BcastAppend(c)
                ELSE MaybeSendAppend(c, Peers(c), FALSE)
    IN  IF r.state # "Leader" THEN r
        ELSE IF r.id \notin r.voters THEN BecomeFollower(r, r.term, None)
        ELSE [sent EXCEPT !.transferee = IF @ \in r.voters THEN @ ELSE None]

\* PrepareApplyOperations keeps node_infos_ beside the configuration.
UpdateNodeInfos(infos, c) ==
    CASE c.op \in {"add", "learner"} ->
            [p \in DOMAIN infos \cup {c.id} |->
                IF p = c.id THEN c.op = "learner" ELSE infos[p]]
      [] c.op = "remove" -> [p \in DOMAIN infos \ {c.id} |-> infos[p]]
      [] OTHER -> infos

ApplyConfChange(r, c) ==
    LET a == ChangeConfig(r, c)
    IN  IF a.fatal THEN a
        ELSE [SwitchToConfig(a) EXCEPT !.infos = UpdateNodeInfos(@, c)]

\* The committed entries of one Ready, in order.
ApplyCommitted(r) ==
    LET ConfEntries == SelectSeq([i \in 1..(r.committed - r.applied) |->
                                    r.log[r.applied + i].cmd],
                                 LAMBDA c : c.kind = "conf")
    IN  IF r.applied = r.committed THEN r
        ELSE [FoldLeft(ApplyConfChange, r, ConfEntries) EXCEPT !.applied = r.committed]

-----------------------------------------------------------------------------
(* A process that starts.                                                  *)

\* newRaft over what storage and state machine kept; a node that never ran
\* has term 0 and nothing else.  infos is node_infos_ of the driver: is_learner
\* of every node it knows.
NewRaft(n, term, vote, log, committed, voters, learners) ==
    [id |-> n, term |-> term, vote |-> vote, log |-> log,
     committed |-> committed, applied |-> committed,
     voters |-> voters, learners |-> learners,
     infos |-> [p \in voters \cup learners |-> p \in learners],
     lead |-> None, state |-> "Follower",
     votes |-> NoVotes, prs |-> NoProgress, transferee |-> None,
     pendingConf |-> 0, msgs |-> {}, fatal |-> FALSE]

\* Bootstrap stores term 1, no vote and this log, and commits it.
BootstrapLog == <<Entry(1, Boot)>>

=============================================================================
