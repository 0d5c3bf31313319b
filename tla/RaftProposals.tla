--------------------------- MODULE RaftProposals ---------------------------
(***************************************************************************)
(* The proposal pipeline of raft_driver/raft_driver.cc.                    *)
(*                                                                         *)
(* A caller thread proposes a request and waits for its promise.  The      *)
(* single raft thread of the shard steps the request into the raft node    *)
(* and later prepares committed entries; the single apply thread applies   *)
(* them; Stop() runs on a thread of its own.  One action is one section    *)
(* under promise_mutex_ with the code around it that no other thread can   *)
(* tell apart: a context erased from pending_promise_ belongs to the       *)
(* thread that erased it, so its SetError is part of the same action.      *)
(*                                                                         *)
(* callback_alive_ is cleared only after stopped_ is set and is only ever  *)
(* read as "!alive || stopped_", so stopped_ alone represents both.        *)
(***************************************************************************)
EXTENDS Integers, Sequences, FiniteSets, FiniteSetsExt

CONSTANTS
    Proposals,                   \* uuids, one per call of Propose
    ConfChanges,                 \* the proposals that are conf changes
    Bytes,                       \* proposal_bytes of each proposal
    max_proposal_bytes,
    max_pending_proposals,
    max_pending_proposal_bytes,
    MaxLog,                      \* bound: entries in the raft log
    Noop,                        \* an entry that carries no request
    Barrier,                     \* the task WaitForIdle posts
    NoContext                    \* an ApplyOperation without a promise

ASSUME ProposalsAssumption ==
    /\ IsFiniteSet(Proposals)
    /\ ConfChanges \subseteq Proposals
    /\ Bytes \in [Proposals -> Nat]
    /\ Noop \notin Proposals /\ Barrier \notin Proposals
    /\ NoContext \notin Proposals
    /\ Barrier \notin [index : Nat, context : Proposals \cup {NoContext}]

ASSUME LimitsAssumption ==
    /\ max_proposal_bytes \in Nat
    /\ max_pending_proposals \in Nat
    /\ max_pending_proposal_bytes \in Nat
    /\ MaxLog \in Nat

VARIABLES
    pending_promise_,        \* uuids registered with the driver
    accounted,               \* contexts with proposal_accounted set
    pending_proposals_,
    pending_proposal_bytes_,
    applied,                 \* the promise "applied" of each context
    caller,                  \* where each proposing thread is
    answer,                  \* what ProposeRaftRequestAndWait returned
    stopped_,
    stopper,                 \* where Stop() is
    raftQueue,               \* tasks posted to raft_service
    raftThread,              \* where the raft thread is
    operations,              \* ApplyOperations being prepared
    leading,                 \* rn_->raft_->id_ = rn_->raft_->lead_
    log,                     \* entries of the raft node
    slot,                    \* index each proposal was appended at, or 0
    committed,
    prepared,                \* last index handed to PrepareApplyOperations
    applyQueue,              \* operations posted to apply_service
    applyThread,
    apply_id_,
    aborted                  \* LOG_FATAL ended the process

promiseVars == <<pending_promise_, accounted, pending_proposals_,
                 pending_proposal_bytes_>>
callerVars  == <<caller, answer>>
stopVars    == <<stopped_, stopper>>
raftVars    == <<raftQueue, raftThread, operations>>
nodeVars    == <<leading, log, slot, committed, prepared>>
applyVars   == <<applyQueue, applyThread, apply_id_>>
vars == <<promiseVars, applied, callerVars, stopVars, raftVars, nodeVars,
          applyVars, aborted>>

-----------------------------------------------------------------------------
Unset == [err |-> "unset", index |-> 0]
OK(i) == [err |-> "nil", index |-> i]
Failed(e) == [err |-> e, index |-> 0]

Refusals == {"TooLarge", "Backpressure"}
Errors == Refusals \cup
          {"RaftUnavailable", "NotLeader", "Dropped", "Timeout", "ApplyError"}
Results == [err : Errors \cup {"unset", "nil"}, index : Nat]

Entries == Proposals \cup {Noop}

\* SetApplied sets the promise of a context once; later calls are ignored.
SetApplied(p, r) ==
    applied' = IF applied[p] = Unset THEN [applied EXCEPT ![p] = r] ELSE applied

SatSub(n, m) == IF n >= m THEN n - m ELSE 0

BytesOf(S) == MapThenSumSet(LAMBDA p : Bytes[p], S)

\* Mutant: releases contexts that are not accounted, without saturation.
MutReleaseUnguarded(S) ==
    /\ accounted' = accounted \ S
    /\ pending_proposals_' = pending_proposals_ - Cardinality(S)
    /\ UNCHANGED pending_proposal_bytes_

\* ReleaseProposalAccountingLocked for every context of S.
ReleaseAll(S) ==
    LET held == S \cap accounted
    IN  /\ accounted' = accounted \ held
        /\ pending_proposals_' = SatSub(pending_proposals_, Cardinality(held))
        /\ pending_proposal_bytes_' =
              SatSub(pending_proposal_bytes_, BytesOf(held))

\* Mutant: erases the promise and leaves its accounting behind.
MutEraseOnly(p) ==
    /\ pending_promise_' = pending_promise_ \ {p}
    /\ UNCHANGED <<accounted, pending_proposals_, pending_proposal_bytes_>>

\* Release the accounting of p and erase it from pending_promise_.
Erase(p) ==
    /\ ReleaseAll({p})
    /\ pending_promise_' = pending_promise_ \ {p}

Init ==
    /\ pending_promise_ = {}
    /\ accounted = {}
    /\ pending_proposals_ = 0
    /\ pending_proposal_bytes_ = 0
    /\ applied = [p \in Proposals |-> Unset]
    /\ caller = [p \in Proposals |-> "idle"]
    /\ answer = [p \in Proposals |-> Unset]
    /\ stopped_ = FALSE
    /\ stopper = "idle"
    /\ raftQueue = <<>>
    /\ raftThread = "idle"
    /\ operations = <<>>
    /\ leading = FALSE
    /\ log = <<>>
    /\ slot = [p \in Proposals |-> 0]
    /\ committed = 0
    /\ prepared = 0
    /\ applyQueue = <<>>
    /\ applyThread = "idle"
    /\ apply_id_ = 0
    /\ aborted = FALSE

-----------------------------------------------------------------------------
(* The proposing thread.                                                   *)

\* Propose refuses without registering the context.
RefusalOf(p) ==
    IF stopped_ THEN "RaftUnavailable"
    ELSE IF Bytes[p] > max_proposal_bytes THEN "TooLarge" ELSE "Backpressure"

Admissible(p) ==
    /\ ~stopped_
    /\ Bytes[p] <= max_proposal_bytes
    /\ pending_proposals_ < max_pending_proposals
    /\ pending_proposal_bytes_ <= max_pending_proposal_bytes
    /\ Bytes[p] <= max_pending_proposal_bytes - pending_proposal_bytes_

ProposeRefuse(p) ==
    /\ caller[p] = "idle"
    /\ ~Admissible(p)
    /\ SetApplied(p, Failed(RefusalOf(p)))
    /\ caller' = [caller EXCEPT ![p] = "waiting"]
    /\ UNCHANGED <<promiseVars, answer, stopVars, raftVars, nodeVars,
                   applyVars, aborted>>

ProposeAccept(p) ==
    /\ caller[p] = "idle"
    /\ Admissible(p)
    /\ pending_promise_' = pending_promise_ \cup {p}
    /\ pending_proposals_' = pending_proposals_ + 1
    /\ pending_proposal_bytes_' = pending_proposal_bytes_ + Bytes[p]
    /\ accounted' = accounted \cup {p}
    /\ caller' = [caller EXCEPT ![p] = "posting"]
    /\ UNCHANGED <<applied, answer, stopVars, raftVars, nodeVars, applyVars,
                   aborted>>

\* The lambda is posted after promise_mutex_ is released.
ProposePost(p) ==
    /\ caller[p] = "posting"
    /\ raftQueue' = Append(raftQueue, p)
    /\ caller' = [caller EXCEPT ![p] = "waiting"]
    /\ UNCHANGED <<promiseVars, applied, answer, stopVars, raftThread,
                   operations, nodeVars, applyVars, aborted>>

Propose(p) == ProposeRefuse(p) \/ ProposeAccept(p) \/ ProposePost(p)

\* ProposeRaftRequestAndWait and ProposeConfChangeAndWait: the future is ready.
WaitReady(p) ==
    /\ caller[p] = "waiting"
    /\ applied[p] # Unset
    /\ answer' = [answer EXCEPT ![p] = applied[p]]
    /\ caller' = [caller EXCEPT ![p] = "returned"]
    /\ UNCHANGED <<promiseVars, applied, stopVars, raftVars, nodeVars,
                   applyVars, aborted>>

\* proposal_timeout elapsed and the future is not ready, twice.
WaitTimeout(p) ==
    /\ caller[p] = "waiting"
    /\ applied[p] = Unset
    /\ caller' = [caller EXCEPT ![p] = "timed out"]
    /\ UNCHANGED <<promiseVars, applied, answer, stopVars, raftVars, nodeVars,
                   applyVars, aborted>>

\* Mutant: the caller gives up without removing its promise.
MutTimeoutKeepsPromise(p) ==
    /\ caller[p] = "timed out"
    /\ answer' = [answer EXCEPT ![p] = Failed("Timeout")]
    /\ caller' = [caller EXCEPT ![p] = "returned"]
    /\ UNCHANGED <<promiseVars, applied, stopVars, raftVars, nodeVars,
                   applyVars, aborted>>

\* RemovePendingPromise, and SetError when it removed the context.
RemovePendingPromise(p) ==
    /\ caller[p] = "timed out"
    /\ IF p \in pending_promise_
       THEN /\ Erase(p)
            /\ SetApplied(p, Failed("Timeout"))
       ELSE UNCHANGED <<promiseVars, applied>>
    /\ answer' = [answer EXCEPT ![p] = Failed("Timeout")]
    /\ caller' = [caller EXCEPT ![p] = "returned"]
    /\ UNCHANGED <<stopVars, raftVars, nodeVars, applyVars, aborted>>

WaitForApplied(p) == WaitReady(p) \/ WaitTimeout(p) \/ RemovePendingPromise(p)

-----------------------------------------------------------------------------
(* The raft node, as far as the driver can see it.                         *)

\* The leader commits a longer prefix of its log.
NodeMaybeCommit ==
    /\ leading
    /\ committed' \in committed + 1 .. Len(log)
    /\ UNCHANGED <<leading, log, slot>>

\* becomeLeader appends an empty entry of the new term.
NodeBecomeLeader ==
    /\ ~leading
    /\ Len(log) < MaxLog
    /\ leading' = TRUE
    /\ log' = Append(log, Noop)
    /\ UNCHANGED <<slot, committed>>

\* A message of another leader, or of a higher term: the node is a follower,
\* its uncommitted suffix may be replaced, and its commit index may advance.
\* A proposal of this node can only come back at the index it was given.
NodeFollow ==
    /\ leading' = FALSE
    /\ slot' = slot
    /\ \E keep \in committed .. Len(log) :
          \E new \in {<<>>} \cup
                     {<<e>> : e \in {x \in Entries :
                                        x # Noop => slot[x] = keep + 1}} :
             /\ keep + Len(new) <= MaxLog
             /\ log' = SubSeq(log, 1, keep) \o new
             /\ committed' \in committed .. keep + Len(new)

-----------------------------------------------------------------------------
(* The raft thread.                                                        *)

\* Mutant: forgets the registered promises without failing them.
MutRejectSilently(code) ==
    /\ ReleaseAll(pending_promise_)
    /\ pending_promise_' = {}
    /\ UNCHANGED applied

\* RejectPendingPromises.
RejectPendingPromises(code) ==
    /\ ReleaseAll(pending_promise_)
    /\ pending_promise_' = {}
    /\ applied' = [p \in Proposals |->
                     IF p \in pending_promise_ /\ applied[p] = Unset
                     THEN Failed(code) ELSE applied[p]]

\* RaftDriver::Step, or Tick: the node takes a step and CheckReady starts.
\* A Ready whose soft state is new and not "leader here" rejects every
\* pending promise before the committed entries of the same Ready are prepared.
Step(nodeStep, softState) ==
    /\ raftThread = "idle"
    /\ ~stopped_
    /\ nodeStep
    /\ IF softState /\ ~leading'
       THEN RejectPendingPromises("NotLeader")
       ELSE UNCHANGED <<promiseVars, applied>>
    /\ raftThread' = "prepare"
    /\ UNCHANGED <<callerVars, stopVars, raftQueue, operations, prepared,
                   applyVars, aborted>>

StepCommit == Step(NodeMaybeCommit, FALSE)
StepElected == Step(NodeBecomeLeader, TRUE)
\* The soft state of a follower also changes when it learns of another leader.
StepFollow == \E softState \in {leading, TRUE} : Step(NodeFollow, softState)

\* The lambda Propose posted finds its context gone.
ProposalGone(p) ==
    /\ p \notin pending_promise_
    /\ UNCHANGED <<promiseVars, applied, raftThread, log, slot>>

ProposalStopped(p) ==
    /\ p \in pending_promise_
    /\ stopped_
    /\ Erase(p)
    /\ SetApplied(p, Failed("RaftUnavailable"))
    /\ UNCHANGED <<raftThread, log, slot>>

ProposalNotLeader(p) ==
    /\ p \in pending_promise_
    /\ ~stopped_
    /\ ~leading
    /\ Erase(p)
    /\ SetApplied(p, Failed("NotLeader"))
    /\ UNCHANGED <<raftThread, log, slot>>

\* raft_->Step returns ErrProposalDropped.
ProposalDropped(p) ==
    /\ p \in pending_promise_
    /\ ~stopped_
    /\ leading
    /\ Erase(p)
    /\ SetApplied(p, Failed("Dropped"))
    /\ UNCHANGED <<raftThread, log, slot>>

\* raft_->Step appends the entry.  The leader replaces a conf change it
\* refuses by an empty normal entry and still returns no error.
ProposalAppended(p) ==
    /\ p \in pending_promise_
    /\ ~stopped_
    /\ leading
    /\ Len(log) < MaxLog
    /\ \/ /\ log' = Append(log, p)
          /\ slot' = [slot EXCEPT ![p] = Len(log) + 1]
       \/ /\ p \in ConfChanges
          /\ log' = Append(log, Noop)
          /\ UNCHANGED slot
    /\ raftThread' = "prepare"
    /\ UNCHANGED <<promiseVars, applied>>

RunProposal(p) ==
    /\ raftThread = "idle"
    /\ raftQueue # <<>> /\ Head(raftQueue) = p
    /\ raftQueue' = Tail(raftQueue)
    /\ \/ ProposalGone(p)
       \/ ProposalStopped(p)
       \/ ProposalNotLeader(p)
       \/ ProposalDropped(p)
       \/ ProposalAppended(p)
    /\ UNCHANGED <<callerVars, stopVars, operations, leading, committed,
                   prepared, applyVars, aborted>>

\* PrepareApplyOperations, one committed entry: its context moves from
\* pending_promise_ to the operation.
PrepareApplyOperation ==
    /\ raftThread = "prepare"
    /\ prepared < committed
    /\ LET entry == log[prepared + 1]
           held  == {entry} \cap pending_promise_
       IN  /\ operations' = Append(operations,
                 [index |-> prepared + 1,
                  context |-> IF held = {} THEN NoContext ELSE entry])
           /\ pending_promise_' = pending_promise_ \ held
    /\ prepared' = prepared + 1
    /\ UNCHANGED <<accounted, pending_proposals_, pending_proposal_bytes_,
                   applied, callerVars, stopVars, raftQueue, raftThread,
                   leading, log, slot, committed, applyVars, aborted>>

\* The rest of CheckReady: post the operations and Advance.
PostApply ==
    /\ raftThread = "prepare"
    /\ prepared = committed
    /\ applyQueue' = applyQueue \o operations
    /\ operations' = <<>>
    /\ raftThread' = "idle"
    /\ UNCHANGED <<promiseVars, applied, callerVars, stopVars, raftQueue,
                   nodeVars, applyThread, apply_id_, aborted>>

\* The promise of WaitForIdle on the raft service is set.
RunRaftBarrier ==
    /\ raftThread = "idle"
    /\ raftQueue # <<>> /\ Head(raftQueue) = Barrier
    /\ raftQueue' = Tail(raftQueue)
    /\ stopper' = IF stopper = "wait raft" THEN "raft idle" ELSE "raft idle again"
    /\ UNCHANGED <<promiseVars, applied, callerVars, stopped_, raftThread,
                   operations, nodeVars, applyVars, aborted>>

-----------------------------------------------------------------------------
(* The apply thread.                                                       *)

\* Mutant: the promise reports success although apply_ threw.
MutApplyKeepsApplyId(ok) ==
    /\ applyThread = "idle"
    /\ applyQueue # <<>> /\ Head(applyQueue) # Barrier
    /\ LET op == Head(applyQueue)
       IN  /\ apply_id_' = IF ok THEN op.index ELSE apply_id_
           /\ IF op.context = NoContext THEN UNCHANGED applied
              ELSE SetApplied(op.context, OK(op.index))
    /\ applyThread' = "release"
    /\ UNCHANGED <<promiseVars, callerVars, stopVars, raftVars, nodeVars,
                   applyQueue, aborted>>

\* Apply: apply_ or apply_conf_change_, apply_id_.store, SetApplied.
Apply(ok) ==
    /\ applyThread = "idle"
    /\ applyQueue # <<>> /\ Head(applyQueue) # Barrier
    /\ LET op == Head(applyQueue)
       IN  /\ apply_id_' = IF ok THEN op.index ELSE apply_id_
           /\ IF op.context = NoContext
              THEN UNCHANGED applied
              ELSE SetApplied(op.context,
                     IF ok THEN OK(op.index)
                     ELSE [err |-> "ApplyError", index |-> op.index])
    /\ applyThread' = IF ok THEN "release" ELSE "fatal"
    /\ UNCHANGED <<promiseVars, callerVars, stopVars, raftVars, nodeVars,
                   applyQueue, aborted>>

\* ReleaseProposalAccounting, then LOG_FATAL when the entry did not apply.
ApplyRelease ==
    /\ applyThread \in {"release", "fatal"}
    /\ ReleaseAll({Head(applyQueue).context})
    /\ applyQueue' = Tail(applyQueue)
    /\ applyThread' = "idle"
    /\ aborted' = (applyThread = "fatal")
    /\ UNCHANGED <<pending_promise_, applied, callerVars, stopVars, raftVars,
                   nodeVars, apply_id_>>

RunApplyBarrier ==
    /\ applyThread = "idle"
    /\ applyQueue # <<>> /\ Head(applyQueue) = Barrier
    /\ applyQueue' = Tail(applyQueue)
    /\ stopper' = "apply idle"
    /\ UNCHANGED <<promiseVars, applied, callerVars, stopped_, raftVars,
                   nodeVars, applyThread, apply_id_, aborted>>

-----------------------------------------------------------------------------
(* RaftDriver::Stop.                                                       *)

StopBegin ==
    /\ stopper = "idle"
    /\ ~stopped_
    /\ stopped_' = TRUE
    /\ stopper' = "reject"
    /\ UNCHANGED <<promiseVars, applied, callerVars, raftVars, nodeVars,
                   applyVars, aborted>>

StopReject ==
    /\ stopper = "reject"
    /\ RejectPendingPromises("RaftUnavailable")
    /\ stopper' = "rejected"
    /\ UNCHANGED <<callerVars, stopped_, raftVars, nodeVars, applyVars, aborted>>

StopWaitRaft ==
    /\ stopper \in {"rejected", "apply idle"}
    /\ raftQueue' = Append(raftQueue, Barrier)
    /\ stopper' = IF stopper = "rejected" THEN "wait raft" ELSE "wait raft again"
    /\ UNCHANGED <<promiseVars, applied, callerVars, stopped_, raftThread,
                   operations, nodeVars, applyVars, aborted>>

StopWaitApply ==
    /\ stopper = "raft idle"
    /\ applyQueue' = Append(applyQueue, Barrier)
    /\ stopper' = "wait apply"
    /\ UNCHANGED <<promiseVars, applied, callerVars, stopped_, raftVars,
                   nodeVars, applyThread, apply_id_, aborted>>

\* Mutant: closes the storage without waiting for the apply service.
MutStopCloseEarly ==
    /\ stopper = "raft idle"
    /\ stopper' = "closed"
    /\ UNCHANGED <<promiseVars, applied, callerVars, stopped_, raftVars,
                   nodeVars, applyVars, aborted>>

\* node_clients_.clear() and storage_->Close().
StopClose ==
    /\ stopper = "raft idle again"
    /\ stopper' = "closed"
    /\ UNCHANGED <<promiseVars, applied, callerVars, stopped_, raftVars,
                   nodeVars, applyVars, aborted>>

Stop == StopReject \/ StopWaitRaft \/ StopWaitApply \/ StopClose

-----------------------------------------------------------------------------
CheckReady == PrepareApplyOperation \/ PostApply
RaftTask == (\E p \in Proposals : RunProposal(p)) \/ RunRaftBarrier
ApplyTask == Apply(TRUE) \/ Apply(FALSE) \/ ApplyRelease \/ RunApplyBarrier

Next ==
    /\ ~aborted
    /\ \/ \E p \in Proposals : Propose(p) \/ WaitForApplied(p)
       \/ StepCommit \/ StepElected \/ StepFollow
       \/ RaftTask \/ CheckReady \/ ApplyTask
       \/ StopBegin \/ Stop

Spec == Init /\ [][Next]_vars

\* Threads of the shard run while the process lives, a caller's wait is
\* bounded by proposal_timeout, and Stop() never blocks except on a barrier.
Fairness ==
    /\ WF_vars(~aborted /\ RaftTask)
    /\ WF_vars(~aborted /\ CheckReady)
    /\ WF_vars(~aborted /\ ApplyTask)
    /\ WF_vars(~aborted /\ Stop)
    /\ \A p \in Proposals :
          WF_vars(~aborted /\ (ProposePost(p) \/ WaitForApplied(p)))

FairSpec == Spec /\ Fairness

-----------------------------------------------------------------------------
Operations(q) == {q[i] : i \in {j \in DOMAIN q : q[j] # Barrier}}
Contexts(q) == {o.context : o \in Operations(q)} \ {NoContext}

Operation == [index : Nat, context : Proposals \cup {NoContext}]

PromiseType ==
    /\ pending_promise_ \subseteq Proposals
    /\ accounted \subseteq Proposals
    /\ pending_proposals_ \in Nat
    /\ applied \in [Proposals -> Results]

CallerType ==
    /\ caller \in [Proposals ->
          {"idle", "posting", "waiting", "timed out", "returned"}]
    /\ answer \in [Proposals -> Results]

StopType ==
    stopper \in {"idle", "reject", "rejected", "wait raft", "raft idle",
                 "wait apply", "apply idle", "wait raft again",
                 "raft idle again", "closed"}

RaftType ==
    /\ raftQueue \in Seq(Proposals \cup {Barrier})
    /\ raftThread \in {"idle", "prepare"}
    /\ operations \in Seq(Operation)

NodeType ==
    /\ log \in Seq(Entries)
    /\ slot \in [Proposals -> Nat]
    /\ committed \in Nat
    /\ prepared \in Nat

ApplyType ==
    /\ applyQueue \in Seq(Operation \cup {Barrier})
    /\ applyThread \in {"idle", "release", "fatal"}
    /\ apply_id_ \in Nat

FlagType == stopped_ \in BOOLEAN /\ leading \in BOOLEAN /\ aborted \in BOOLEAN

\* Every variable keeps the shape of the driver's fields; BytesExact says what
\* pending_proposal_bytes_ holds.
TypeOK ==
    /\ PromiseType
    /\ CallerType
    /\ StopType
    /\ RaftType
    /\ NodeType
    /\ ApplyType
    /\ FlagType

\* The contexts that count against the limits are exactly those some queue of
\* the driver still holds, and pending_proposals_ is their number: neither the
\* timeout, the leadership loss, Stop() nor Apply releases one twice or never.
AccountingExact ==
    /\ accounted = pending_promise_ \cup Contexts(operations)
                                    \cup Contexts(applyQueue)
    /\ pending_proposals_ = Cardinality(accounted)

\* pending_proposal_bytes_ is the size of the accounted contexts, so the
\* saturating subtraction of ReleaseProposalAccountingLocked never saturates.
BytesExact == pending_proposal_bytes_ = BytesOf(accounted)

\* A caller that still waits for an unset promise waits for a context that the
\* driver holds: no race between timeout, rejection and apply loses a promise.
NoLostPromise ==
    \A p \in Proposals :
       caller[p] \in {"posting", "waiting"} /\ applied[p] = Unset
          => p \in accounted

\* ProposeRaftRequestAndWait returns success only for a request that sits in
\* the log at the returned index and that the apply thread has applied; one that
\* a limit refused, or that the raft node dropped, is in no log.
AnswerIsTrue ==
    \A p \in Proposals :
       /\ answer[p].err = "nil" =>
            /\ answer[p].index \in 1 .. apply_id_
            /\ log[answer[p].index] = p
       /\ answer[p].err \in Refusals \cup {"Dropped"} => slot[p] = 0

\* When Stop() closes the log storage no thread uses it any more, no promise
\* is registered or accounted, and no caller is left with an unset promise.
StopQuiesces ==
    stopper = "closed" =>
       /\ raftThread = "idle"
       /\ Operations(applyQueue) = {}
       /\ accounted = {} /\ pending_promise_ = {}
       /\ \A p \in Proposals : caller[p] = "waiting" => applied[p] # Unset

\* Every proposal comes to an end: in the long run each call has returned and
\* the accounting is empty, so that backpressure never becomes permanent.
ProposalsEnd ==
    <>[](\/ aborted
         \/ /\ accounted = {}
            /\ \A p \in Proposals : caller[p] \in {"idle", "returned"})
=============================================================================
