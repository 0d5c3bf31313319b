------------------------ MODULE RaftProposalsSafety -------------------------
(***************************************************************************)
(* What the proposal pipeline answers, and what Stop() leaves behind, for  *)
(* any number of proposals, any limits and any log length.  StopInv,       *)
(* SlotInv and LogInv are inductive relative to IInv.                      *)
(***************************************************************************)
EXTENDS RaftProposalsProofs

-----------------------------------------------------------------------------
(* Stop() leaves nothing behind.                                           *)

\* Stop() has seen the raft service run dry at least once.
RaftIsIdle == {"raft idle", "wait apply", "apply idle", "wait raft again",
               "raft idle again", "closed"}

\* Stop() has seen the apply service run dry.
ApplyIsIdle == {"apply idle", "wait raft again", "raft idle again", "closed"}

\* Nothing registers once stopped_ is set, the raft thread starts no new Ready
\* after its barrier, and nothing is posted to the apply service after its own.
StopFlags ==
    /\ stopped_ <=> stopper # "idle"
    /\ stopper \notin {"idle", "reject"} => pending_promise_ = {}
    /\ raftThread = "idle" => operations = <<>>
    /\ stopper \in RaftIsIdle => raftThread = "idle"
    /\ stopper \in ApplyIsIdle => applyQueue = <<>>

\* A queue holds no barrier, at most one, or one at its end.
Free(q) == \A i \in DOMAIN q : q[i] # Barrier
Single(q) == \A i, j \in DOMAIN q : q[i] = Barrier /\ q[j] = Barrier => i = j
AtEnd(q) == \A i \in DOMAIN q : q[i] = Barrier => i = Len(q)

\* A barrier is in a queue only while Stop() waits for it, once, and behind
\* everything posted to the apply service.
Barriers ==
    /\ Single(raftQueue)
    /\ stopper \notin {"wait raft", "wait raft again"} => Free(raftQueue)
    /\ AtEnd(applyQueue)
    /\ stopper # "wait apply" => Free(applyQueue)

StopInv == StopFlags /\ Barriers

\* Barriers under an append.
LEMMA BarrierAppend ==
    ASSUME NEW T, NEW q \in Seq(T), NEW x \in T
    PROVE  /\ Single(q) /\ x # Barrier => Single(Append(q, x))
           /\ Free(q) /\ x # Barrier => Free(Append(q, x))
           /\ Free(q) => Single(Append(q, x)) /\ AtEnd(Append(q, x))
<1> DEFINE r == Append(q, x)
<1>1. /\ DOMAIN r = DOMAIN q \cup {Len(q) + 1} /\ Len(r) = Len(q) + 1
      /\ r[Len(q) + 1] = x /\ \A i \in DOMAIN q : r[i] = q[i]
  OBVIOUS
<1> HIDE DEF r
<1> QED
  BY <1>1, Zenon DEF Single, Free, AtEnd, r

\* Barriers when the head of a queue is taken.
LEMMA BarrierTail ==
    ASSUME NEW T, NEW q \in Seq(T), q # <<>>
    PROVE  /\ Single(q) => Single(Tail(q))
           /\ Free(q) => Free(Tail(q))
           /\ AtEnd(q) => AtEnd(Tail(q))
           /\ Head(q) = Barrier => ~Free(q)
           /\ Single(q) /\ Head(q) = Barrier => Free(Tail(q))
           /\ AtEnd(q) /\ Head(q) = Barrier => Tail(q) = <<>>
<1> DEFINE r == Tail(q)
<1>1. /\ Len(q) \in Nat /\ DOMAIN q = 1 .. Len(q) /\ Len(q) > 0
      /\ DOMAIN r = 1 .. Len(r) /\ Len(r) = Len(q) - 1
      /\ \A i \in DOMAIN r : r[i] = q[i + 1]
      /\ Head(q) = q[1]
  OBVIOUS
<1>2. Len(q) = 1 => r = <<>>
  <2>1. r \in Seq(T)
    OBVIOUS
  <2>2. ASSUME NEW s \in Seq(T), Len(s) = 0
        PROVE  s = <<>>
    BY <2>2
  <2> HIDE DEF r
  <2> QED
    BY <1>1, <2>1, <2>2
<1> HIDE DEF r
<1>3. Single(q) => Single(r)
  BY <1>1 DEF Single
<1>4. Free(q) => Free(r)
  BY <1>1 DEF Free
<1>5. AtEnd(q) => AtEnd(r)
  BY <1>1 DEF AtEnd
<1>6. Single(q) /\ Head(q) = Barrier => Free(r)
  BY <1>1 DEF Single, Free
<1>7. AtEnd(q) /\ Head(q) = Barrier => r = <<>>
  BY <1>1, <1>2 DEF AtEnd
<1>8. Head(q) = Barrier => ~Free(q)
  BY <1>1 DEF Free
<1> QED
  BY <1>3, <1>4, <1>5, <1>6, <1>7, <1>8, Zenon DEF r

\* No barrier comes in with operations.
LEMMA BarrierConcat ==
    ASSUME NEW q \in Seq(Task), NEW r \in Seq(Operation), Free(q)
    PROVE  Free(q \o r) /\ AtEnd(q \o r)
<1>1. r \in Seq(Task)
  BY DEF Task
<1>2. \A i \in DOMAIN r : r[i] # Barrier
  <2>1. \A i \in DOMAIN r : r[i] \in Operation
    OBVIOUS
  <2> QED
    BY <2>1, ProposalsAssumption, Zenon DEF Operation
<1>3. \A i \in DOMAIN (q \o r) :
         \/ i \in DOMAIN q /\ (q \o r)[i] = q[i]
         \/ i - Len(q) \in DOMAIN r /\ (q \o r)[i] = r[i - Len(q)]
  BY <1>1
<1> QED
  BY <1>2, <1>3, Zenon DEF Free, AtEnd

\* Barriers speaks of the queues a step leads to.
LEMMA BarriersNext ==
    ASSUME Single(raftQueue'), AtEnd(applyQueue'),
           stopper' \notin {"wait raft", "wait raft again"} => Free(raftQueue'),
           stopper' # "wait apply" => Free(applyQueue')
    PROVE  Barriers'
  BY Zenon DEF Barriers, Single, Free, AtEnd

\* The tasks the two services hold.
LEMMA QueueTypes ==
    ASSUME IInv
    PROVE  /\ raftQueue \in Seq(Proposals \cup {Barrier})
           /\ applyQueue \in Seq(Task) /\ operations \in Seq(Operation)
           /\ Barrier \in Task /\ Barrier \notin Proposals
  BY ProposalsAssumption, Zenon DEF IInv, TypeOK, RaftType, ApplyType, Task

\* Nothing runs and nothing is posted when the driver starts.
LEMMA InitStopInv == Init => StopInv
  BY DEF Init, StopInv, StopFlags, Barriers, Single, Free, AtEnd, RaftIsIdle, ApplyIsIdle

\* The steps of a proposing thread.
LEMMA CallerStopInv ==
    ASSUME IInv, StopInv, NEW p \in Proposals, Propose(p) \/ WaitForApplied(p)
    PROVE  StopInv'
<1>1. /\ UNCHANGED <<stopped_, stopper, raftThread, operations, applyQueue>>
      /\ pending_promise_' \subseteq pending_promise_ \/ ~stopped_
      /\ raftQueue' = raftQueue \/ raftQueue' = Append(raftQueue, p)
  BY ZenonT(30) DEF Propose, ProposeRefuse, ProposeAccept, ProposePost, Admissible, WaitForApplied,
         WaitReady, WaitTimeout, RemovePendingPromise, Erase, promiseVars, stopVars,
         raftVars, applyVars
<1>2. StopFlags'
  BY Zenon, <1>1 DEF StopInv, StopFlags
<1>3. /\ Single(raftQueue) => Single(Append(raftQueue, p))
      /\ Free(raftQueue) => Free(Append(raftQueue, p))
  BY QueueTypes, BarrierAppend, Zenon
<1>4. Barriers'
  BY Zenon, <1>1, <1>3, BarriersNext DEF StopInv, Barriers
<1> QED
  BY <1>2, <1>4, Zenon DEF StopInv

\* The raft thread steps the node, runs a posted proposal or prepares a Ready.
LEMMA RaftStopInv ==
    ASSUME IInv, StopInv,
           \/ StepCommit \/ StepElected \/ StepFollow
           \/ \E p \in Proposals : RunProposal(p)
           \/ PrepareApplyOperation
    PROVE  StopInv'
<1>1. /\ UNCHANGED <<stopped_, stopper, applyQueue>>
      /\ pending_promise_' \subseteq pending_promise_
      /\ \/ raftThread = "prepare" /\ raftThread' = "prepare"
         \/ ~stopped_ /\ raftThread' = "prepare"
         \/ UNCHANGED <<raftThread, operations>>
      /\ \/ raftQueue' = raftQueue
         \/ raftQueue # <<>> /\ raftQueue' = Tail(raftQueue)
  BY ZenonT(30) DEF StepCommit, StepElected, StepFollow, Step, RejectPendingPromises, RunProposal,
         ProposalGone, ProposalStopped, ProposalNotLeader, ProposalDropped,
         ProposalAppended, Erase, PrepareApplyOperation, promiseVars, stopVars, applyVars
<1>2. StopFlags'
  BY Zenon, <1>1 DEF StopInv, StopFlags, RaftIsIdle
<1>3. raftQueue # <<>> => /\ Single(raftQueue) => Single(Tail(raftQueue))
                          /\ Free(raftQueue) => Free(Tail(raftQueue))
  BY Zenon, QueueTypes, BarrierTail
<1>4. Barriers'
  BY Zenon, <1>1, <1>3, BarriersNext DEF StopInv, Barriers
<1> QED
  BY <1>2, <1>4, Zenon DEF StopInv

\* A Ready ends: its operations go behind everything posted, and no barrier is
\* there, for Stop() still waits for the raft thread.
LEMMA PostStopInv ==
    ASSUME IInv, StopInv, PostApply
    PROVE  StopInv'
<1>1. /\ UNCHANGED <<stopped_, stopper, pending_promise_, raftQueue>>
      /\ raftThread = "prepare" /\ raftThread' = "idle" /\ operations' = <<>>
      /\ applyQueue' = applyQueue \o operations
  BY Zenon DEF PostApply, promiseVars, stopVars
<1>2. stopper \notin RaftIsIdle
  BY <1>1, Zenon DEF StopInv, StopFlags
<1>3. StopFlags'
  BY Zenon, <1>1, <1>2 DEF StopInv, StopFlags, RaftIsIdle, ApplyIsIdle
<1>4. Free(applyQueue)
  BY Zenon, <1>2 DEF StopInv, Barriers, RaftIsIdle
<1>5. Free(applyQueue') /\ AtEnd(applyQueue')
  BY <1>1, <1>4, QueueTypes, BarrierConcat, Zenon
<1>6. Barriers'
  BY Zenon, <1>1, <1>5, BarriersNext DEF StopInv, Barriers
<1> QED
  BY <1>3, <1>6, Zenon DEF StopInv

\* The apply thread applies an entry and lets go of it.
LEMMA ApplyStopInv ==
    ASSUME IInv, StopInv, Apply(TRUE) \/ Apply(FALSE) \/ ApplyRelease
    PROVE  StopInv'
<1>1. /\ UNCHANGED <<stopped_, stopper, pending_promise_, raftQueue, raftThread, operations>>
      /\ \/ applyQueue' = applyQueue
         \/ applyThread # "idle" /\ applyQueue' = Tail(applyQueue)
  BY ZenonT(30) DEF Apply, ApplyRelease, promiseVars, stopVars, raftVars
<1>2. applyThread # "idle" => applyQueue # <<>>
  BY Zenon DEF IInv, Applying
<1>3. StopFlags'
  BY Zenon, <1>1, <1>2 DEF StopInv, StopFlags
<1>4. applyQueue # <<>> => /\ AtEnd(applyQueue) => AtEnd(Tail(applyQueue))
                           /\ Free(applyQueue) => Free(Tail(applyQueue))
  BY Zenon, QueueTypes, BarrierTail
<1>5. Barriers'
  BY Zenon, <1>1, <1>2, <1>4, BarriersNext DEF StopInv, Barriers
<1> QED
  BY <1>3, <1>5, Zenon DEF StopInv

\* The raft thread reaches the barrier: it is between two Readys, and the
\* barrier it runs is the only one posted.
LEMMA RaftBarrierStopInv ==
    ASSUME IInv, StopInv, RunRaftBarrier
    PROVE  StopInv'
<1>1. /\ UNCHANGED <<stopped_, pending_promise_, raftThread, operations, applyQueue>>
      /\ raftThread = "idle"
      /\ raftQueue # <<>> /\ Head(raftQueue) = Barrier /\ raftQueue' = Tail(raftQueue)
      /\ stopper' = IF stopper = "wait raft" THEN "raft idle" ELSE "raft idle again"
  BY Zenon DEF RunRaftBarrier, promiseVars, applyVars
<1>2. ~Free(raftQueue)
  BY Zenon, <1>1, QueueTypes, BarrierTail
<1>3. stopper \in {"wait raft", "wait raft again"}
  BY Zenon, <1>2 DEF StopInv, Barriers
<1>4. StopFlags'
  BY Zenon, <1>1, <1>3 DEF StopInv, StopFlags, RaftIsIdle, ApplyIsIdle
<1>5. Single(raftQueue') /\ Free(raftQueue')
  BY Zenon, <1>1, QueueTypes, BarrierTail DEF StopInv, Barriers
<1>6. Barriers'
  BY Zenon, <1>1, <1>3, <1>5, BarriersNext DEF StopInv, Barriers
<1> QED
  BY <1>4, <1>6 DEF StopInv

\* The apply thread reaches the barrier, the last task of its queue.
LEMMA ApplyBarrierStopInv ==
    ASSUME IInv, StopInv, RunApplyBarrier
    PROVE  StopInv'
<1>1. /\ UNCHANGED <<stopped_, pending_promise_, raftQueue, raftThread, operations>>
      /\ applyQueue # <<>> /\ Head(applyQueue) = Barrier /\ applyQueue' = Tail(applyQueue)
      /\ stopper' = "apply idle"
  BY Zenon DEF RunApplyBarrier, promiseVars, raftVars
<1>2. ~Free(applyQueue)
  BY Zenon, <1>1, QueueTypes, BarrierTail
<1>3. stopper = "wait apply"
  BY Zenon, <1>2 DEF StopInv, Barriers
<1>4. applyQueue' = <<>>
  BY Zenon, <1>1, QueueTypes, BarrierTail DEF StopInv, Barriers
<1>5. StopFlags'
  BY Zenon, <1>1, <1>3, <1>4 DEF StopInv, StopFlags, RaftIsIdle, ApplyIsIdle
<1>6. AtEnd(<<>>) /\ Free(<<>>)
  BY DEF AtEnd, Free
<1>7. Barriers'
  BY Zenon, <1>1, <1>3, <1>4, <1>6, BarriersNext DEF StopInv, Barriers
<1> QED
  BY <1>5, <1>7 DEF StopInv

\* The steps of Stop() itself.
LEMMA StopStopInv ==
    ASSUME IInv, StopInv, StopBegin \/ Stop
    PROVE  StopInv'
<1>1. CASE StopBegin \/ StopReject \/ StopClose
  <2>1. /\ UNCHANGED <<raftQueue, raftThread, operations, applyQueue>>
        /\ \/ stopper = "idle" /\ stopper' = "reject" /\ stopped_'
              /\ UNCHANGED pending_promise_
           \/ stopper = "reject" /\ stopper' = "rejected" /\ pending_promise_' = {}
              /\ UNCHANGED stopped_
           \/ stopper = "raft idle again" /\ stopper' = "closed"
              /\ UNCHANGED <<stopped_, pending_promise_>>
    BY ZenonT(30), <1>1 DEF StopBegin, StopReject, StopClose, RejectPendingPromises,
                            promiseVars, raftVars, applyVars
  <2>2. StopFlags'
    BY Zenon, <2>1 DEF StopInv, StopFlags, RaftIsIdle, ApplyIsIdle
  <2>3. Barriers'
    BY Zenon, <2>1, BarriersNext DEF StopInv, Barriers
  <2> QED
    BY <2>2, <2>3, Zenon DEF StopInv
<1>2. CASE StopWaitRaft
  <2>1. /\ UNCHANGED <<stopped_, pending_promise_, raftThread, operations, applyQueue>>
        /\ raftQueue' = Append(raftQueue, Barrier)
        /\ \/ stopper = "rejected" /\ stopper' = "wait raft"
           \/ stopper = "apply idle" /\ stopper' = "wait raft again"
    BY Zenon, <1>2 DEF StopWaitRaft, promiseVars, applyVars
  <2>2. StopFlags'
    BY Zenon, <2>1 DEF StopInv, StopFlags, RaftIsIdle, ApplyIsIdle
  <2>3. Single(raftQueue')
    <3>1. Free(raftQueue)
      BY Zenon, <2>1 DEF StopInv, Barriers
    <3> QED
      BY Zenon, <2>1, <3>1, QueueTypes, BarrierAppend
  <2>4. Barriers'
    BY Zenon, <2>1, <2>3, BarriersNext DEF StopInv, Barriers
  <2> QED
    BY <2>2, <2>4 DEF StopInv
<1>3. CASE StopWaitApply
  <2>1. /\ UNCHANGED <<stopped_, pending_promise_, raftThread, operations, raftQueue>>
        /\ applyQueue' = Append(applyQueue, Barrier)
        /\ stopper = "raft idle" /\ stopper' = "wait apply"
    BY Zenon, <1>3 DEF StopWaitApply, promiseVars, raftVars
  <2>2. StopFlags'
    BY Zenon, <2>1 DEF StopInv, StopFlags, RaftIsIdle, ApplyIsIdle
  <2>3. AtEnd(applyQueue')
    <3>1. Free(applyQueue)
      BY Zenon, <2>1 DEF StopInv, Barriers
    <3> QED
      BY Zenon, <2>1, <3>1, QueueTypes, BarrierAppend
  <2>4. Barriers'
    BY Zenon, <2>1, <2>3, BarriersNext DEF StopInv, Barriers
  <2> QED
    BY <2>2, <2>4 DEF StopInv
<1> QED
  BY <1>1, <1>2, <1>3, Zenon DEF Stop

\* Every step of the driver preserves what Stop() relies on.
LEMMA NextStopInv ==
    ASSUME IInv, StopInv, [Next]_vars
    PROVE  StopInv'
<1>1. CASE Next
  BY ZenonT(30), <1>1, CallerStopInv, RaftStopInv, PostStopInv, ApplyStopInv, RaftBarrierStopInv,
     ApplyBarrierStopInv, StopStopInv DEF Next, RaftTask, CheckReady, ApplyTask
<1>2. CASE UNCHANGED vars
  BY Zenon, <1>2, BarriersNext DEF StopInv, StopFlags, Barriers, vars, promiseVars, stopVars,
                            raftVars, applyVars
<1> QED
  BY <1>1, <1>2

\* Stop() closes the log storage only when both threads are done with it: no
\* promise is registered or accounted and none that is waited for is unset,
\* whatever was in flight when it was called.
THEOREM StopIsQuiet == Spec => []StopQuiesces
<1>1. IInv /\ StopInv => StopQuiesces
  <2> SUFFICES ASSUME IInv, StopInv, stopper = "closed"
               PROVE  StopQuiesces
    BY Zenon DEF StopQuiesces
  <2>1. /\ raftThread = "idle" /\ applyQueue = <<>> /\ operations = <<>>
        /\ pending_promise_ = {}
    BY Zenon DEF StopInv, StopFlags, RaftIsIdle, ApplyIsIdle
  <2>2. Operations(applyQueue) = {} /\ Operations(operations) = {}
    BY <2>1 DEF Operations
  <2>3. accounted = {}
    BY <2>1, <2>2, Zenon DEF IInv, AccountingExact, Contexts
  <2> QED
    BY <2>1, <2>2, <2>3, Zenon DEF IInv, NoLostPromise, StopQuiesces
<1> QED
  BY InitIInv, NextIInv, InitStopInv, NextStopInv, <1>1, PTL DEF Spec

-----------------------------------------------------------------------------
(* A request that was refused or dropped is never appended.                *)

\* The request was refused or dropped, and no later step can append it.
Kept == Refusals \cup {"Dropped"}
NeverAppended(p) == slot[p] = 0 /\ p \notin pending_promise_ /\ caller[p] # "idle"

\* The tasks of a queue, and that a proposal is posted once.
Queued(q) == {q[i] : i \in DOMAIN q}
Once(q) == \A i, j \in DOMAIN q : q[i] = q[j] /\ q[i] # Barrier => i = j

\* The task of a proposal is posted once and appends at most once.
SlotInv ==
    /\ Once(raftQueue)
    /\ \A p \in Proposals :
          /\ caller[p] \in {"idle", "posting"} => slot[p] = 0 /\ p \notin Queued(raftQueue)
          /\ p \in Queued(raftQueue) => slot[p] = 0
          /\ applied[p].err \in Kept => NeverAppended(p)
          /\ answer[p].err \in Kept => NeverAppended(p)

\* The tasks of a queue after an append.
LEMMA QueuedAppend ==
    ASSUME NEW T, NEW q \in Seq(T), NEW x \in T
    PROVE  /\ Queued(Append(q, x)) = Queued(q) \cup {x}
           /\ Once(q) /\ (x = Barrier \/ x \notin Queued(q)) => Once(Append(q, x))
<1> DEFINE r == Append(q, x)
<1>1. /\ DOMAIN r = DOMAIN q \cup {Len(q) + 1}
      /\ r[Len(q) + 1] = x /\ \A i \in DOMAIN q : r[i] = q[i]
  OBVIOUS
<1> HIDE DEF r
<1>2. Queued(r) = Queued(q) \cup {x}
  BY <1>1 DEF Queued
<1>3. Once(q) /\ (x = Barrier \/ x \notin Queued(q)) => Once(r)
  BY <1>1 DEF Once, Queued
<1> QED
  BY <1>2, <1>3, Zenon DEF r

\* The tasks of a queue after its head is taken.
LEMMA QueuedTail ==
    ASSUME NEW T, NEW q \in Seq(T), q # <<>>
    PROVE  /\ Head(q) \in Queued(q)
           /\ Queued(Tail(q)) \subseteq Queued(q)
           /\ Once(q) => Once(Tail(q))
           /\ Once(q) /\ Head(q) # Barrier => Head(q) \notin Queued(Tail(q))
<1> DEFINE r == Tail(q)
<1>1. /\ Len(q) \in Nat /\ DOMAIN q = 1 .. Len(q) /\ Len(q) > 0
      /\ DOMAIN r = 1 .. Len(q) - 1
      /\ \A i \in DOMAIN r : r[i] = q[i + 1]
      /\ Head(q) = q[1]
  OBVIOUS
<1> HIDE DEF r
<1>2. Head(q) \in Queued(q) /\ Queued(r) \subseteq Queued(q)
  BY <1>1 DEF Queued
<1>3. Once(q) => Once(r)
  BY SMTT(30), <1>1 DEF Once
<1>4. Once(q) /\ Head(q) # Barrier => Head(q) \notin Queued(r)
  BY <1>1 DEF Once, Queued
<1> QED
  BY <1>2, <1>3, <1>4, Zenon DEF r

\* SlotInv speaks of the queue a step leads to.
LEMMA SlotNext ==
    ASSUME Once(raftQueue'),
           \A p \in Proposals :
              /\ caller'[p] \in {"idle", "posting"} =>
                    slot'[p] = 0 /\ p \notin Queued(raftQueue')
              /\ p \in Queued(raftQueue') => slot'[p] = 0
              /\ applied'[p].err \in Kept \/ answer'[p].err \in Kept =>
                    slot'[p] = 0 /\ p \notin pending_promise_' /\ caller'[p] # "idle"
    PROVE  SlotInv'
  BY Zenon DEF SlotInv, Once, Queued, NeverAppended, Kept, Refusals

\* A step that appends nothing, registers nothing and refuses nothing.
LEMMA SlotFrame ==
    ASSUME SlotInv, UNCHANGED <<slot, caller>>,
           pending_promise_' \subseteq pending_promise_,
           Once(raftQueue'), Queued(raftQueue') \cap Proposals \subseteq Queued(raftQueue),
           \A p \in Proposals :
              /\ applied'[p] = applied[p] \/ applied'[p].err \notin Kept
              /\ answer'[p] = answer[p]
    PROVE  SlotInv'
  BY Zenon, SlotNext DEF SlotInv, NeverAppended

\* What a failure other than a drop leaves in a promise.
LEMMA FailedNotKept ==
    /\ Failed("RaftUnavailable").err \notin Kept
    /\ Failed("NotLeader").err \notin Kept
    /\ Failed("Timeout").err \notin Kept
  BY Zenon DEF Failed, Kept, Refusals

\* No queue holds anything when the driver starts.
LEMMA InitSlotInv == Init => SlotInv
<1> SUFFICES ASSUME Init PROVE SlotInv
  BY Zenon
<1>1. Once(raftQueue) /\ Queued(raftQueue) = {}
  BY DEF Init, Once, Queued
<1> QED
  BY <1>1, Zenon DEF Init, SlotInv, Unset, Kept, Refusals

\* SetApplied touches one promise.
LEMMA SetAppliedOne ==
    ASSUME IInv, NEW p \in Proposals, NEW r, SetApplied(p, r)
    PROVE  \A s \in Proposals : applied'[s] = applied[s] \/ (s = p /\ applied'[s] = r)
<1>1. applied \in [Proposals -> Results]
  BY Zenon DEF IInv, TypeOK, PromiseType
<1>2. applied' = applied \/ applied' = [applied EXCEPT ![p] = r]
  BY Zenon DEF SetApplied
<1> QED
  BY <1>1, <1>2, Zenon

\* The steps of a proposing thread.
LEMMA CallerSlotInv ==
    ASSUME IInv, SlotInv, NEW p \in Proposals, Propose(p) \/ WaitForApplied(p)
    PROVE  SlotInv'
<1>1. caller \in [Proposals -> {"idle", "posting", "waiting", "timed out", "returned"}]
      /\ answer \in [Proposals -> Results]
  BY Zenon DEF IInv, TypeOK, CallerType
<1>2. CASE ProposeRefuse(p)
  <2>1. /\ UNCHANGED <<slot, pending_promise_, raftQueue, answer>>
        /\ caller[p] = "idle"
        /\ \A s \in Proposals : caller'[s] = IF s = p THEN "waiting" ELSE caller[s]
        /\ \A s \in Proposals : applied'[s] = applied[s] \/ s = p
    BY ZenonT(30), <1>1, <1>2, SetAppliedOne DEF ProposeRefuse, promiseVars, nodeVars, raftVars
  <2>2. p \notin pending_promise_
    BY SMTT(30), <2>1 DEF IInv, Ownership, AccountingExact
  <2> QED
    BY SMTT(30), <2>1, <2>2, SlotNext DEF SlotInv, NeverAppended
<1>3. CASE ProposeAccept(p)
  <2>1. /\ UNCHANGED <<slot, raftQueue, answer, applied>>
        /\ pending_promise_' = pending_promise_ \cup {p}
        /\ caller[p] = "idle"
        /\ \A s \in Proposals : caller'[s] = IF s = p THEN "posting" ELSE caller[s]
    BY ZenonT(30), <1>1, <1>3 DEF ProposeAccept, nodeVars, raftVars
  <2> QED
    BY <2>1, SlotNext DEF SlotInv, NeverAppended
<1>4. CASE ProposePost(p)
  <2>1. /\ UNCHANGED <<slot, pending_promise_, answer, applied>>
        /\ raftQueue' = Append(raftQueue, p)
        /\ caller[p] = "posting"
        /\ \A s \in Proposals : caller'[s] = IF s = p THEN "waiting" ELSE caller[s]
    BY Zenon, <1>1, <1>4 DEF ProposePost, nodeVars, promiseVars
  <2>2. Queued(raftQueue') = Queued(raftQueue) \cup {p} /\ Once(raftQueue')
    BY <2>1, QueueTypes, QueuedAppend DEF SlotInv
  <2> QED
    BY SMTT(30), <2>1, <2>2, SlotNext DEF SlotInv, NeverAppended
<1>5. CASE WaitForApplied(p)
  <2>1. /\ UNCHANGED <<slot, raftQueue>>
        /\ pending_promise_' \subseteq pending_promise_
        /\ caller[p] \notin {"idle", "posting"}
        /\ \A s \in Proposals : s # p => caller'[s] = caller[s]
        /\ caller'[p] \notin {"idle", "posting"}
    BY Zenon, <1>1, <1>5 DEF WaitForApplied, WaitReady, WaitTimeout, RemovePendingPromise, Erase,
                      nodeVars, raftVars, promiseVars
  <2>2. \A s \in Proposals : applied'[s] = applied[s] \/ applied'[s].err \notin Kept
    <3>1. CASE SetApplied(p, Failed("Timeout"))
      BY Zenon, <3>1, SetAppliedOne, FailedNotKept
    <3>2. CASE UNCHANGED applied
      BY SMTT(30), <3>2
    <3> QED
      BY Zenon, <1>5, <3>1, <3>2 DEF WaitForApplied, WaitReady, WaitTimeout, RemovePendingPromise
  <2>3. \A s \in Proposals : \/ answer'[s] \in {answer[s], applied[s]}
                             \/ answer'[s] = Failed("Timeout")
    BY Zenon, <1>1, <1>5 DEF WaitForApplied, WaitReady, WaitTimeout, RemovePendingPromise
  <2>4. \A s \in Proposals : answer'[s].err \in Kept =>
                                applied[s].err \in Kept \/ answer[s].err \in Kept
    BY Zenon, <2>3, FailedNotKept
  <2> QED
    BY Zenon, <2>1, <2>2, <2>4, SlotNext DEF SlotInv, NeverAppended
<1> QED
  BY SMTT(30), <1>2, <1>3, <1>4, <1>5 DEF Propose

\* The task of a proposal: the only step that fills a slot, at most once.
LEMMA RunSlotInv ==
    ASSUME IInv, SlotInv, NEW p \in Proposals, RunProposal(p)
    PROVE  SlotInv'
<1>1. /\ UNCHANGED <<caller, answer>>
      /\ raftQueue # <<>> /\ Head(raftQueue) = p /\ raftQueue' = Tail(raftQueue)
  BY Zenon DEF RunProposal, callerVars
<1>2. /\ p \in Queued(raftQueue) /\ p \notin Queued(raftQueue')
      /\ Queued(raftQueue') \subseteq Queued(raftQueue) /\ Once(raftQueue')
  BY Zenon, <1>1, QueueTypes, QueuedTail DEF SlotInv
<1>3. slot[p] = 0 /\ caller[p] \notin {"idle", "posting"}
  BY <1>2 DEF SlotInv
<1>4. CASE ProposalAppended(p)
  <2>1. /\ UNCHANGED <<pending_promise_, applied>> /\ p \in pending_promise_
        /\ \A s \in Proposals : s # p => slot'[s] = slot[s]
    BY <1>4, Zenon DEF ProposalAppended, promiseVars, IInv, TypeOK, NodeType
  <2> QED
    BY Zenon, <1>1, <1>2, <1>3, <2>1, SlotNext DEF SlotInv, NeverAppended
<1>5. CASE ProposalDropped(p)
  <2>1. /\ UNCHANGED slot /\ pending_promise_' = pending_promise_ \ {p}
        /\ \A s \in Proposals : applied'[s] = applied[s] \/ s = p
    BY Zenon, <1>5, SetAppliedOne DEF ProposalDropped, Erase
  <2> QED
    BY Zenon, <1>1, <1>2, <1>3, <2>1, SlotNext DEF SlotInv, NeverAppended
<1>6. CASE ProposalGone(p) \/ ProposalStopped(p) \/ ProposalNotLeader(p)
  <2>1. /\ UNCHANGED slot /\ pending_promise_' \subseteq pending_promise_
        /\ \/ UNCHANGED applied
           \/ SetApplied(p, Failed("RaftUnavailable"))
           \/ SetApplied(p, Failed("NotLeader"))
    BY Zenon, <1>6 DEF ProposalGone, ProposalStopped, ProposalNotLeader, Erase, promiseVars
  <2>2. \A s \in Proposals : applied'[s] = applied[s] \/ applied'[s].err \notin Kept
    BY Zenon, <2>1, SetAppliedOne, FailedNotKept
  <2> QED
    BY Zenon, <1>1, <1>2, <2>1, <2>2, SlotFrame
<1> QED
  BY <1>4, <1>5, <1>6, Zenon DEF RunProposal

\* Every other step.
LEMMA OtherSlotInv ==
    ASSUME IInv, SlotInv,
           \/ StepCommit \/ StepElected \/ StepFollow \/ RunRaftBarrier
           \/ CheckReady \/ ApplyTask \/ StopBegin \/ Stop
    PROVE  SlotInv'
<1>1. UNCHANGED <<slot, caller, answer>>
  BY ZenonT(30) DEF StepCommit, StepElected, StepFollow, Step, NodeMaybeCommit, NodeBecomeLeader,
         NodeFollow, RunRaftBarrier, CheckReady, PrepareApplyOperation, PostApply, ApplyTask,
         Apply, ApplyRelease, RunApplyBarrier, StopBegin, Stop, StopReject, StopWaitRaft,
         StopWaitApply, StopClose, callerVars, nodeVars
<1>2. pending_promise_' \subseteq pending_promise_
  BY ZenonT(30) DEF StepCommit, StepElected, StepFollow, Step, RejectPendingPromises,
         RunRaftBarrier, CheckReady, PrepareApplyOperation, PostApply, ApplyTask,
         Apply, ApplyRelease, RunApplyBarrier, StopBegin, Stop, StopReject, StopWaitRaft,
         StopWaitApply, StopClose, promiseVars
<1>3. \/ raftQueue' = raftQueue
      \/ raftQueue # <<>> /\ raftQueue' = Tail(raftQueue)
      \/ raftQueue' = Append(raftQueue, Barrier)
  BY ZenonT(30) DEF StepCommit, StepElected, StepFollow, Step,
         RunRaftBarrier, CheckReady, PrepareApplyOperation, PostApply, ApplyTask,
         Apply, ApplyRelease, RunApplyBarrier, StopBegin, Stop, StopReject, StopWaitRaft,
         StopWaitApply, StopClose, raftVars
<1>4. Once(raftQueue') /\ Queued(raftQueue') \cap Proposals \subseteq Queued(raftQueue)
  <2>1. raftQueue # <<>> => /\ Once(Tail(raftQueue))
                            /\ Queued(Tail(raftQueue)) \subseteq Queued(raftQueue)
    BY Zenon, QueueTypes, QueuedTail DEF SlotInv
  <2>2. /\ Once(Append(raftQueue, Barrier))
        /\ Queued(Append(raftQueue, Barrier)) = Queued(raftQueue) \cup {Barrier}
    BY QueueTypes, QueuedAppend DEF SlotInv
  <2> QED
    BY Zenon, <1>3, <2>1, <2>2, QueueTypes DEF SlotInv
<1>5. \A s \in Proposals : applied'[s] = applied[s] \/ applied'[s].err \notin Kept
  <2>1. CASE UNCHANGED applied
    BY <2>1, Zenon
  <2>2. CASE RejectPendingPromises("NotLeader") \/ RejectPendingPromises("RaftUnavailable")
    BY Zenon, <2>2, FailedNotKept DEF RejectPendingPromises
  <2>3. CASE Apply(TRUE) \/ Apply(FALSE)
    <3> DEFINE op == Head(applyQueue)
               e  == [err |-> "ApplyError", index |-> op.index]
    <3>1. \/ UNCHANGED applied
          \/ applied' = [applied EXCEPT ![op.context] = OK(op.index)]
          \/ applied' = [applied EXCEPT ![op.context] = e]
      BY Zenon, <2>3 DEF Apply, SetApplied
    <3>2. applied \in [Proposals -> Results]
      BY Zenon DEF IInv, TypeOK, PromiseType
    <3>3. OK(op.index).err \notin Kept /\ e.err \notin Kept
      BY Zenon DEF OK, Kept, Refusals
    <3> HIDE DEF op, e
    <3>4. \A s \in Proposals : applied'[s] \in {applied[s], OK(op.index), e}
      BY <3>1, <3>2
    <3> QED
      BY Zenon, <3>3, <3>4
  <2> QED
    BY ZenonT(30), <2>1, <2>2, <2>3 DEF StepCommit, StepElected, StepFollow, Step,
         RunRaftBarrier, CheckReady, PrepareApplyOperation, PostApply, ApplyTask,
         ApplyRelease, RunApplyBarrier, StopBegin, Stop, StopReject, StopWaitRaft,
         StopWaitApply, StopClose
<1> QED
  BY Zenon, <1>1, <1>2, <1>4, <1>5, SlotFrame

\* Every step of the driver keeps refused and dropped requests out of the log.
LEMMA NextSlotInv ==
    ASSUME IInv, SlotInv, [Next]_vars
    PROVE  SlotInv'
<1>1. CASE Next
  BY ZenonT(30), <1>1, CallerSlotInv, RunSlotInv, OtherSlotInv DEF Next, RaftTask
<1>2. CASE UNCHANGED vars
  <2>1. UNCHANGED <<slot, caller, answer, applied, raftQueue, pending_promise_>>
    BY <1>2, Zenon DEF vars, promiseVars, callerVars, raftVars, nodeVars
  <2> QED
    BY Zenon, <2>1, SlotFrame DEF SlotInv
<1> QED
  BY <1>1, <1>2

-----------------------------------------------------------------------------
(* Success is reported for the entry that was applied.                     *)

\* A result a promise may hold: success names the applied entry of the log that
\* carries the request.
Truthful(r, p) ==
    r.err = "nil" => r.index \in 1 .. apply_id_ /\ log[r.index] = p

\* An operation stands for a prepared entry that is not below apply_id_, and
\* its context is the request of that entry.
Located(o) ==
    /\ o.index \in 1 .. prepared
    /\ apply_id_ <= o.index
    /\ o.context # NoContext => log[o.index] = o.context

\* The operations of a queue are in the order of the log.
Sorted(q) ==
    \A i, j \in DOMAIN q :
       i <= j /\ q[i] # Barrier /\ q[j] # Barrier => q[i].index <= q[j].index

\* What is posted precedes what is being prepared.
LogInv ==
    /\ apply_id_ <= prepared
    /\ Sorted(applyQueue) /\ Sorted(operations)
    /\ \A o \in Operations(applyQueue), u \in Operations(operations) : o.index <= u.index
    /\ \A o \in Operations(applyQueue) \cup Operations(operations) : Located(o)
    /\ \A p \in Proposals : Truthful(applied[p], p) /\ Truthful(answer[p], p)

\* The operations of a queue after an append.
LEMMA SortedAppend ==
    ASSUME NEW q \in Seq(Task), NEW o \in Operation,
           Sorted(q), \A u \in Operations(q) : u.index <= o.index
    PROVE  Operations(Append(q, o)) = Operations(q) \cup {o} /\ Sorted(Append(q, o))
<1> DEFINE r == Append(q, o)
<1>1. /\ DOMAIN q = 1 .. Len(q) /\ Len(q) \in Nat
      /\ DOMAIN r = DOMAIN q \cup {Len(q) + 1}
      /\ r[Len(q) + 1] = o /\ \A i \in DOMAIN q : r[i] = q[i]
  BY DEF Task
<1>2. o # Barrier /\ o.index <= o.index
  BY SMTT(30), ProposalsAssumption DEF Operation
<1> HIDE DEF r
<1>3. Operations(r) = Operations(q) \cup {o}
  BY SMTT(30), <1>1, <1>2 DEF Operations
<1>4. Sorted(r)
  <2> SUFFICES ASSUME NEW i \in DOMAIN r, NEW j \in DOMAIN r, i <= j,
                      r[i] # Barrier, r[j] # Barrier
               PROVE  r[i].index <= r[j].index
    BY Zenon DEF Sorted
  <2>1. CASE j \in DOMAIN q
    BY SMTT(30), <1>1, <2>1 DEF Sorted
  <2>2. CASE j = Len(q) + 1 /\ i \in DOMAIN q
    <3>1. r[i] \in Operations(q)
      BY <1>1, <2>2, Zenon DEF Operations
    <3> QED
      BY SMTT(30), <1>1, <2>2, <3>1
  <2> QED
    BY SMTT(30), <1>1, <1>2, <2>1, <2>2
<1> QED
  BY <1>3, <1>4, Zenon DEF r

\* A barrier changes neither.
LEMMA SortedBarrier ==
    ASSUME NEW q \in Seq(Task), Sorted(q)
    PROVE  /\ Operations(Append(q, Barrier)) = Operations(q)
           /\ Sorted(Append(q, Barrier))
<1> DEFINE r == Append(q, Barrier)
<1>1. /\ DOMAIN r = DOMAIN q \cup {Len(q) + 1}
      /\ r[Len(q) + 1] = Barrier /\ \A i \in DOMAIN q : r[i] = q[i]
  BY DEF Task
<1> HIDE DEF r
<1>2. Operations(r) = Operations(q)
  BY <1>1, Zenon DEF Operations
<1>3. Sorted(r)
  BY <1>1, Zenon DEF Sorted
<1> QED
  BY <1>2, <1>3, Zenon DEF r

\* The head of a sorted queue is its oldest operation.
LEMMA SortedTail ==
    ASSUME NEW q \in Seq(Task), q # <<>>, Sorted(q)
    PROVE  /\ Operations(Tail(q)) \subseteq Operations(q) /\ Sorted(Tail(q))
           /\ Head(q) # Barrier =>
                 /\ Head(q) \in Operations(q)
                 /\ \A o \in Operations(q) : Head(q).index <= o.index
<1> DEFINE r == Tail(q)
<1>1. /\ Len(q) \in Nat /\ DOMAIN q = 1 .. Len(q) /\ Len(q) > 0
      /\ DOMAIN r = 1 .. Len(q) - 1
      /\ \A i \in DOMAIN r : r[i] = q[i + 1]
      /\ Head(q) = q[1]
  OBVIOUS
<1> HIDE DEF r
<1>2. Operations(r) \subseteq Operations(q)
  BY <1>1 DEF Operations
<1>3. Sorted(r)
  BY <1>1 DEF Sorted
<1>4. Head(q) # Barrier => Head(q) \in Operations(q)
  BY <1>1 DEF Operations
<1>5. Head(q) # Barrier => \A o \in Operations(q) : Head(q).index <= o.index
  BY <1>1 DEF Operations, Sorted
<1> QED
  BY SMTT(30), <1>2, <1>3, <1>4, <1>5 DEF r

\* Posting what was prepared keeps the order.
LEMMA SortedConcat ==
    ASSUME NEW q \in Seq(Task), NEW s \in Seq(Task), Sorted(q), Sorted(s),
           \A o \in Operations(q), u \in Operations(s) : o.index <= u.index
    PROVE  Operations(q \o s) \subseteq Operations(q) \cup Operations(s) /\ Sorted(q \o s)
<1> DEFINE r == q \o s
<1>1. /\ DOMAIN r = 1 .. Len(q) + Len(s) /\ DOMAIN q = 1 .. Len(q) /\ DOMAIN s = 1 .. Len(s)
      /\ Len(q) \in Nat /\ Len(s) \in Nat
      /\ \A i \in DOMAIN r : r[i] = IF i <= Len(q) THEN q[i] ELSE s[i - Len(q)]
  OBVIOUS
<1> HIDE DEF r
<1>2. \A i \in DOMAIN r : /\ i <= Len(q) => i \in DOMAIN q /\ r[i] = q[i]
                          /\ i > Len(q) => i - Len(q) \in DOMAIN s /\ r[i] = s[i - Len(q)]
  BY SMTT(30), <1>1
<1>3. \A i \in DOMAIN r : r[i] # Barrier =>
         /\ i <= Len(q) => r[i] \in Operations(q)
         /\ i > Len(q) => r[i] \in Operations(s)
  BY SMTT(30), <1>2 DEF Operations
<1>4. Operations(r) \subseteq Operations(q) \cup Operations(s)
  <2>1. \A i \in DOMAIN r : i <= Len(q) \/ i > Len(q)
    BY SMTT(30), <1>1
  <2> QED
    BY SMTT(30), <1>3, <2>1 DEF Operations
<1>5. Sorted(r)
  <2> SUFFICES ASSUME NEW i \in DOMAIN r, NEW j \in DOMAIN r, i <= j,
                      r[i] # Barrier, r[j] # Barrier
               PROVE  r[i].index <= r[j].index
    BY SMTT(30) DEF Sorted
  <2>1. CASE j <= Len(q)
    <3>1. i <= Len(q)
      BY SMTT(30), <1>1, <2>1
    <3> QED
      BY SMTT(30), <1>2, <2>1, <3>1 DEF Sorted
  <2>2. CASE i > Len(q)
    <3>1. j > Len(q) /\ i - Len(q) <= j - Len(q)
      BY SMTT(30), <1>1, <2>2
    <3> QED
      BY SMTT(30), <1>2, <2>2, <3>1 DEF Sorted
  <2>3. CASE i <= Len(q) /\ j > Len(q)
    BY SMTT(30), <1>3, <2>3
  <2> QED
    BY SMTT(30), <1>1, <2>1, <2>2, <2>3
<1> QED
  BY SMTT(30), <1>4, <1>5 DEF r

\* The entries up to the commit index are never replaced.
LEMMA PrefixKept ==
    ASSUME IInv, NodeMaybeCommit \/ NodeBecomeLeader \/ NodeFollow
    PROVE  \A i \in 1 .. prepared : log'[i] = log[i]
<1>1. log \in Seq(Entries) /\ prepared \in Nat /\ committed \in Nat
      /\ prepared <= committed /\ committed <= Len(log) /\ Noop \in Entries
  BY Zenon DEF IInv, TypeOK, NodeType, NodeOrder, Entries
<1>2. CASE NodeMaybeCommit
  BY <1>2, Zenon DEF NodeMaybeCommit
<1>3. CASE NodeBecomeLeader
  <2>1. log' = Append(log, Noop)
    BY <1>3, Zenon DEF NodeBecomeLeader
  <2> QED
    BY <1>1, <2>1
<1>4. CASE NodeFollow
  <2>1. PICK keep \in committed .. Len(log), new \in Seq(Entries) :
           log' = SubSeq(log, 1, keep) \o new
    <3>1. \A e \in Entries : <<e>> \in Seq(Entries)
      OBVIOUS
    <3>2. <<>> \in Seq(Entries)
      OBVIOUS
    <3> QED
      BY Zenon, <1>4, <3>1, <3>2 DEF NodeFollow
  <2>2. /\ SubSeq(log, 1, keep) \in Seq(Entries) /\ Len(SubSeq(log, 1, keep)) = keep
        /\ \A i \in 1 .. keep : SubSeq(log, 1, keep)[i] = log[i]
    BY <1>1
  <2>3. \A i \in 1 .. keep : log'[i] = log[i]
    BY SMTT(30), <1>1, <2>1, <2>2
  <2> QED
    BY <1>1, <2>3
<1> QED
  BY SMTT(30), <1>2, <1>3, <1>4

\* LogInv speaks of the queues a step leads to.
LEMMA LogNext ==
    ASSUME apply_id_' <= prepared', Sorted(applyQueue'), Sorted(operations'),
           \A o \in Operations(applyQueue'), u \in Operations(operations') :
              o.index <= u.index,
           \A o \in Operations(applyQueue') \cup Operations(operations') :
              /\ o.index \in 1 .. prepared' /\ apply_id_' <= o.index
              /\ o.context # NoContext => log'[o.index] = o.context,
           \A p \in Proposals : \A r \in {applied'[p], answer'[p]} :
              r.err = "nil" => r.index \in 1 .. apply_id_' /\ log'[r.index] = p
    PROVE  LogInv'
  BY DEF LogInv, Sorted, Operations, Located, Truthful

\* The node may extend or replace its log beyond the prepared entries.
LEMMA LogFrame ==
    ASSUME IInv, LogInv, UNCHANGED <<apply_id_, prepared, operations, applyQueue>>,
           \A i \in 1 .. prepared : log'[i] = log[i],
           \A p \in Proposals : \A r \in {applied'[p], answer'[p]} :
              r.err = "nil" => r \in {applied[p], answer[p]}
    PROVE  LogInv'
<1>1. apply_id_ \in Nat /\ prepared \in Nat /\ apply_id_ <= prepared
  BY DEF IInv, TypeOK, NodeType, ApplyType, LogInv
<1>2. \A i \in 1 .. apply_id_ : log'[i] = log[i]
  BY SMTT(30), <1>1
<1>3. \A p \in Proposals : \A r \in {applied'[p], answer'[p]} :
         r.err = "nil" => r.index \in 1 .. apply_id_ /\ log'[r.index] = p
  BY SMTT(30), <1>2 DEF LogInv, Truthful
<1>4. \A o \in Operations(applyQueue) \cup Operations(operations) :
         /\ o.index \in 1 .. prepared /\ apply_id_ <= o.index
         /\ o.context # NoContext => log'[o.index] = o.context
  BY DEF LogInv, Located
<1> QED
  BY ZenonT(30), <1>3, <1>4, LogNext DEF LogInv

\* Nothing is prepared, applied or answered when the driver starts.
LEMMA InitLogInv == Init => LogInv
<1> SUFFICES ASSUME Init PROVE LogInv
  OBVIOUS
<1>1. Operations(applyQueue) = {} /\ Operations(operations) = {}
  BY DEF Init, Operations
<1>2. Sorted(applyQueue) /\ Sorted(operations)
  BY DEF Init, Sorted
<1>3. \A p \in Proposals : Truthful(applied[p], p) /\ Truthful(answer[p], p)
  BY Zenon DEF Init, Truthful, Unset
<1> QED
  BY SMTT(30), <1>1, <1>2, <1>3 DEF Init, LogInv

\* A promise that a failure sets holds no success.
LEMMA FailedNotNil ==
    \A e \in Errors : Failed(e).err # "nil"
  BY DEF Failed, Errors, Refusals

\* The proposing threads, the raft thread's tasks and the steps of Stop() that
\* post nothing to the apply service.
LEMMA OtherLogInv ==
    ASSUME IInv, LogInv,
           \/ \E p \in Proposals : Propose(p) \/ WaitForApplied(p)
           \/ StepCommit \/ StepElected \/ StepFollow \/ RaftTask
           \/ StopBegin \/ StopReject \/ StopWaitRaft \/ StopClose
    PROVE  LogInv'
<1>1. UNCHANGED <<apply_id_, prepared, operations, applyQueue>>
  BY ZenonT(30) DEF Propose, ProposeRefuse, ProposeAccept, ProposePost, WaitForApplied,
         WaitReady, WaitTimeout, RemovePendingPromise, StepCommit, StepElected, StepFollow,
         Step, RaftTask, RunProposal, RunRaftBarrier, StopBegin, StopReject, StopWaitRaft,
         StopClose, nodeVars, raftVars, applyVars
<1>2. \A i \in 1 .. prepared : log'[i] = log[i]
  <2>1. CASE UNCHANGED log
    BY SMTT(30), <2>1
  <2>2. CASE NodeMaybeCommit \/ NodeBecomeLeader \/ NodeFollow
    BY SMTT(30), <2>2, PrefixKept
  <2>3. CASE \E p \in Proposals : ProposalAppended(p)
    <3>1. PICK e \in Entries : log' = Append(log, e)
      BY <2>3 DEF ProposalAppended, Entries
    <3>2. log \in Seq(Entries) /\ prepared \in Nat /\ prepared <= Len(log)
      BY DEF IInv, TypeOK, NodeType, NodeOrder
    <3> QED
      BY SMTT(30), <3>1, <3>2
  <2> QED
    BY ZenonT(30), <2>1, <2>2, <2>3 DEF Propose, ProposeRefuse, ProposeAccept, ProposePost,
         WaitForApplied, WaitReady, WaitTimeout, RemovePendingPromise, StepCommit, StepElected,
         StepFollow, Step, RaftTask, RunProposal, ProposalGone, ProposalStopped,
         ProposalNotLeader, ProposalDropped, RunRaftBarrier, StopBegin, StopReject,
         StopWaitRaft, StopClose, nodeVars
<1>3. \A p \in Proposals : applied'[p] = applied[p] \/ applied'[p].err # "nil"
  <2>1. CASE UNCHANGED applied
    BY <2>1, Zenon
  <2>2. ASSUME NEW e \in Errors, RejectPendingPromises(e)
        PROVE  \A p \in Proposals : applied'[p] = applied[p] \/ applied'[p].err # "nil"
    BY Zenon, <2>2, FailedNotNil DEF RejectPendingPromises
  <2>3. ASSUME NEW p \in Proposals, NEW e \in Errors, SetApplied(p, Failed(e))
        PROVE  \A s \in Proposals : applied'[s] = applied[s] \/ applied'[s].err # "nil"
    BY Zenon, <2>3, FailedNotNil, SetAppliedOne
  <2>4. {"RaftUnavailable", "NotLeader", "Dropped", "Timeout", "TooLarge", "Backpressure"}
           \subseteq Errors
    BY DEF Errors, Refusals
  <2>5. CASE \E p \in Proposals : ProposeRefuse(p)
    <3>1. PICK p \in Proposals : SetApplied(p, Failed(RefusalOf(p)))
      BY <2>5 DEF ProposeRefuse
    <3>2. PICK e \in Errors : e = RefusalOf(p)
      BY <2>4 DEF RefusalOf
    <3> QED
      BY SMTT(30), <2>3, <3>1, <3>2 DEF SetApplied
  <2>6. CASE \E p \in Proposals : ProposeAccept(p) \/ ProposePost(p) \/ WaitForApplied(p)
    BY ZenonT(30), <2>1, <2>3, <2>4, <2>6 DEF ProposeAccept, ProposePost, WaitForApplied,
         WaitReady, WaitTimeout, RemovePendingPromise
  <2>7. CASE StepCommit \/ StepElected \/ StepFollow \/ RunRaftBarrier \/ StopBegin
             \/ StopReject \/ StopWaitRaft \/ StopClose
    BY ZenonT(30), <2>1, <2>2, <2>4, <2>7 DEF StepCommit, StepElected, StepFollow, Step,
         RunRaftBarrier, StopBegin, StopReject, StopWaitRaft, StopClose
  <2>8. CASE \E p \in Proposals : RunProposal(p)
    BY ZenonT(30), <2>1, <2>3, <2>4, <2>8 DEF RunProposal, ProposalGone, ProposalStopped,
         ProposalNotLeader, ProposalDropped, ProposalAppended
  <2> QED
    BY ZenonT(30), <2>5, <2>6, <2>7, <2>8 DEF Propose, RaftTask
<1>4. \A s \in Proposals : \/ answer'[s] \in {answer[s], applied[s]}
                           \/ answer'[s].err # "nil"
  <2>1. answer \in [Proposals -> Results] /\ Failed("Timeout").err # "nil"
    BY Zenon DEF IInv, TypeOK, CallerType, Failed
  <2>2. CASE UNCHANGED answer
    BY SMTT(30), <2>2
  <2>3. ASSUME NEW p \in Proposals,
               \E r \in {applied[p], Failed("Timeout")} : answer' = [answer EXCEPT ![p] = r]
        PROVE  \A s \in Proposals : \/ answer'[s] \in {answer[s], applied[s]}
                                    \/ answer'[s].err # "nil"
    BY <2>1, <2>3
  <2> QED
    BY ZenonT(30), <2>2, <2>3 DEF Propose, ProposeRefuse, ProposeAccept, ProposePost,
         WaitForApplied, WaitReady, WaitTimeout, RemovePendingPromise, StepCommit, StepElected,
         StepFollow, Step, RaftTask, RunProposal, RunRaftBarrier, StopBegin, StopReject,
         StopWaitRaft, StopClose, callerVars
<1> QED
  BY ZenonT(30), <1>1, <1>2, <1>3, <1>4, LogFrame

\* An entry is prepared: it is the next of the log, and a context it takes is
\* its own request.
LEMMA PrepareLogInv ==
    ASSUME IInv, LogInv, PrepareApplyOperation
    PROVE  LogInv'
<1> DEFINE entry == log[prepared + 1]
           held  == {entry} \cap pending_promise_
           op    == [index |-> prepared + 1,
                     context |-> IF held = {} THEN NoContext ELSE entry]
<1>1. /\ operations' = Append(operations, op) /\ prepared' = prepared + 1
      /\ UNCHANGED <<applied, answer, log, applyQueue, apply_id_>>
  BY SMTT(30) DEF PrepareApplyOperation, callerVars, applyVars
<1>2. /\ op \in Operation /\ op.index = prepared + 1
      /\ op.context # NoContext => log[op.index] = op.context
  <2>1. held # {} => entry \in Proposals
    BY SMTT(30) DEF IInv, TypeOK, PromiseType
  <2> QED
    BY <2>1 DEF Operation, IInv, TypeOK, NodeType
<1>3. apply_id_ \in Nat /\ prepared \in Nat /\ apply_id_ <= prepared
  BY Zenon DEF IInv, TypeOK, NodeType, ApplyType, LogInv
<1> HIDE DEF op, held, entry
<1>4. \A o \in Operations(applyQueue) \cup Operations(operations) :
         /\ o.index \in 1 .. prepared /\ apply_id_ <= o.index
         /\ o.context # NoContext => log[o.index] = o.context
  BY Zenon DEF LogInv, Located
<1>5. /\ \A n \in 1 .. prepared : n \in 1 .. prepared + 1 /\ n <= op.index
      /\ op.index \in 1 .. prepared + 1 /\ apply_id_ <= op.index
      /\ apply_id_ <= prepared + 1
  BY <1>2, <1>3
<1>6. \A o \in Operations(applyQueue) \cup Operations(operations) :
         o.index \in 1 .. prepared + 1 /\ o.index <= op.index
  BY Zenon, <1>4, <1>5
<1>7. Operations(operations') = Operations(operations) \cup {op} /\ Sorted(operations')
  <2>1. operations \in Seq(Task)
    BY QueueTypes DEF Task
  <2> QED
    BY Zenon, <1>1, <1>2, <1>6, <2>1, SortedAppend DEF LogInv
<1>8. /\ \A o \in Operations(applyQueue), u \in Operations(operations') : o.index <= u.index
      /\ \A o \in Operations(applyQueue) \cup Operations(operations') :
            /\ o.index \in 1 .. prepared + 1 /\ apply_id_ <= o.index
            /\ o.context # NoContext => log[o.index] = o.context
  BY ZenonT(30), <1>2, <1>4, <1>5, <1>6, <1>7 DEF LogInv
<1> QED
  BY ZenonT(30), <1>1, <1>5, <1>7, <1>8, LogNext DEF LogInv, Truthful

\* Queues change without a new operation: a Ready is posted, an operation or a
\* barrier leaves the apply queue, or a barrier enters it.
LEMMA QueueLogInv ==
    ASSUME IInv, LogInv, PostApply \/ ApplyRelease \/ RunApplyBarrier \/ StopWaitApply
    PROVE  LogInv'
<1>1. UNCHANGED <<applied, answer, log, prepared, apply_id_>>
  BY ZenonT(30) DEF PostApply, ApplyRelease, RunApplyBarrier, StopWaitApply, callerVars, nodeVars
<1>2. /\ \/ applyQueue' = applyQueue \o operations /\ operations' = <<>>
         \/ applyQueue # <<>> /\ applyQueue' = Tail(applyQueue) /\ operations' = operations
         \/ applyQueue' = Append(applyQueue, Barrier) /\ operations' = operations
  <2>1. applyThread # "idle" => applyQueue # <<>>
    BY Zenon DEF IInv, Applying
  <2>2. ApplyRelease => applyThread # "idle"
    BY Zenon DEF ApplyRelease
  <2> QED
    BY ZenonT(30), <2>1, <2>2 DEF PostApply, ApplyRelease, RunApplyBarrier, StopWaitApply, raftVars
<1>3. applyQueue \in Seq(Task) /\ operations \in Seq(Task)
  BY QueueTypes DEF Task
<1>4. Operations(<<>>) = {} /\ Sorted(<<>>)
  BY SMTT(30) DEF Operations, Sorted
<1>5. /\ Sorted(applyQueue') /\ Sorted(operations')
      /\ Operations(applyQueue') \cup Operations(operations')
            \subseteq Operations(applyQueue) \cup Operations(operations)
      /\ \A o \in Operations(applyQueue'), u \in Operations(operations') : o.index <= u.index
  <2>1. CASE applyQueue' = applyQueue \o operations /\ operations' = <<>>
    BY Zenon, <1>3, <1>4, <2>1, SortedConcat DEF LogInv
  <2>2. CASE applyQueue # <<>> /\ applyQueue' = Tail(applyQueue) /\ operations' = operations
    BY Zenon, <1>3, <2>2, SortedTail DEF LogInv
  <2>3. CASE applyQueue' = Append(applyQueue, Barrier) /\ operations' = operations
    BY Zenon, <1>3, <2>3, SortedBarrier DEF LogInv
  <2> QED
    BY SMTT(30), <1>2, <2>1, <2>2, <2>3
<1> QED
  BY ZenonT(30), <1>1, <1>5, LogNext DEF LogInv, Located, Truthful

\* An entry is applied: apply_id_ moves to its index, which no operation left in
\* a queue is below, and its promise reports that index.
LEMMA ApplyLogInv ==
    ASSUME IInv, LogInv, NEW ok \in BOOLEAN, Apply(ok)
    PROVE  LogInv'
<1> DEFINE op == Head(applyQueue)
           e  == [err |-> "ApplyError", index |-> op.index]
<1>1. /\ UNCHANGED <<answer, log, prepared, operations, applyQueue>>
      /\ applyQueue # <<>> /\ op # Barrier
      /\ apply_id_' = IF ok THEN op.index ELSE apply_id_
      /\ \/ UNCHANGED applied
         \/ /\ op.context # NoContext
            /\ applied' = [applied EXCEPT ![op.context] = IF ok THEN OK(op.index) ELSE e]
  BY Zenon DEF Apply, SetApplied, callerVars, nodeVars, raftVars
<1>2. /\ op \in Operations(applyQueue)
      /\ \A o \in Operations(applyQueue) : op.index <= o.index
  BY Zenon, <1>1, QueueTypes, SortedTail DEF LogInv
<1>3. OK(op.index).index = op.index /\ e.err # "nil"
  BY SMTT(30) DEF OK
<1>4. apply_id_ \in Nat /\ prepared \in Nat /\ apply_id_ <= prepared
      /\ applied \in [Proposals -> Results]
  BY SMTT(30) DEF IInv, TypeOK, NodeType, ApplyType, PromiseType, LogInv
<1> HIDE DEF op, e
<1>5. /\ op.index \in 1 .. prepared /\ apply_id_ <= op.index
      /\ op.context # NoContext => log[op.index] = op.context
  BY SMTT(30), <1>2 DEF LogInv, Located
<1>6. /\ apply_id_' \in Nat /\ apply_id_ <= apply_id_' /\ apply_id_' <= prepared
      /\ ok => apply_id_' = op.index
  BY SMTT(30), <1>1, <1>4, <1>5
<1>7. \A o \in Operations(applyQueue) \cup Operations(operations) :
         o.index \in Nat /\ apply_id_' <= o.index
  BY SMTT(30), <1>1, <1>2, <1>5 DEF LogInv, Located
<1>8. \A p \in Proposals : \A r \in {applied'[p], answer[p]} :
         r.err = "nil" => r.index \in 1 .. apply_id_' /\ log[r.index] = p
  <2> SUFFICES ASSUME NEW p \in Proposals, NEW r \in {applied'[p], answer[p]}, r.err = "nil"
               PROVE  r.index \in 1 .. apply_id_' /\ log[r.index] = p
    BY SMTT(30)
  <2>1. CASE r \in {applied[p], answer[p]}
    BY SMTT(30), <1>4, <1>6, <2>1 DEF LogInv, Truthful
  <2>2. CASE r \notin {applied[p], answer[p]}
    <3>1. ok /\ p = op.context /\ op.context # NoContext /\ r = OK(op.index)
      BY SMTT(30), <1>1, <1>3, <1>4, <2>2
    <3> QED
      BY SMTT(30), <1>3, <1>5, <1>6, <3>1
  <2> QED
    BY SMTT(30), <2>1, <2>2
<1> QED
  BY ZenonT(30), <1>1, <1>6, <1>7, <1>8, LogNext DEF LogInv, Located

\* Every step of the driver keeps the answers true.
LEMMA NextLogInv ==
    ASSUME IInv, LogInv, [Next]_vars
    PROVE  LogInv'
<1>1. CASE Next
  BY ZenonT(30), <1>1, OtherLogInv, PrepareLogInv, QueueLogInv, ApplyLogInv
     DEF Next, CheckReady, ApplyTask, Stop
<1>2. CASE UNCHANGED vars
  <2>1. UNCHANGED <<apply_id_, prepared, operations, applyQueue, log, applied, answer>>
    BY <1>2 DEF vars, callerVars, raftVars, nodeVars, applyVars
  <2> QED
    BY ZenonT(30), <2>1, LogFrame
<1> QED
  BY <1>1, <1>2

\* ProposeRaftRequestAndWait tells the truth: success names the applied entry
\* that carries the request, and a refused or dropped request is in no log,
\* whatever leadership changes and truncations the node went through meanwhile.
THEOREM AnswersAreTrue == Spec => []AnswerIsTrue
<1>1. LogInv /\ SlotInv => AnswerIsTrue
  BY Zenon DEF LogInv, SlotInv, Truthful, NeverAppended, Kept, AnswerIsTrue
<1> QED
  BY InitIInv, NextIInv, InitSlotInv, NextSlotInv, InitLogInv, NextLogInv, <1>1, PTL DEF Spec
=============================================================================
