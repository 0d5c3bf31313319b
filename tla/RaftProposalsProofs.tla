------------------------ MODULE RaftProposalsProofs -------------------------
(***************************************************************************)
(* The accounting of the proposal pipeline, for any number of proposals,   *)
(* any limits and any log length.                                          *)
(***************************************************************************)
EXTENDS RaftProposals, FiniteSetTheorems, TLAPS

Task == Operation \cup {Barrier}

\* No context is held by two operations of a queue.
Distinct(q) ==
    \A i, j \in DOMAIN q :
       /\ q[i] # Barrier /\ q[j] # Barrier
       /\ q[i].context = q[j].context
       /\ q[i].context # NoContext
       => i = j

\* The node's indices are ordered.
NodeOrder == prepared <= committed /\ committed <= Len(log)

\* A context has one owner: pending_promise_, an operation being prepared or
\* an operation posted; and its proposing thread has passed Propose.
Ownership ==
    /\ \A p \in accounted : caller[p] # "idle"
    /\ pending_promise_ \cap Contexts(operations) = {}
    /\ pending_promise_ \cap Contexts(applyQueue) = {}
    /\ Contexts(operations) \cap Contexts(applyQueue) = {}
    /\ Distinct(operations)
    /\ Distinct(applyQueue)

\* Between SetApplied and the release the apply thread holds the operation at
\* the head of its queue, and the promise of its context is set.
Applying ==
    applyThread # "idle" =>
       /\ applyQueue # <<>>
       /\ Head(applyQueue) # Barrier
       /\ Head(applyQueue).context # NoContext =>
             applied[Head(applyQueue).context] # Unset

IInv ==
    /\ TypeOK
    /\ NodeOrder
    /\ AccountingExact
    /\ Ownership
    /\ Applying
    /\ NoLostPromise

-----------------------------------------------------------------------------
(* Contexts and Distinct under the operations on queues.                   *)

\* Appending to a typed queue keeps its type and its head.
LEMMA AppendType ==
    ASSUME NEW T, NEW q \in Seq(T), NEW x \in T
    PROVE  /\ Append(q, x) \in Seq(T)
           /\ q # <<>> => Append(q, x) # <<>> /\ Head(Append(q, x)) = Head(q)
  OBVIOUS

\* Removing the head of a typed queue keeps its type.
LEMMA TailType ==
    ASSUME NEW T, NEW q \in Seq(T), q # <<>>
    PROVE  Tail(q) \in Seq(T)
  OBVIOUS

\* Appending an operation adds its context.
LEMMA ContextsAppend ==
    ASSUME NEW q \in Seq(Task), NEW o \in Operation
    PROVE  Contexts(Append(q, o)) = Contexts(q) \cup ({o.context} \ {NoContext})
<1> DEFINE r == Append(q, o)
<1>1. /\ r \in Seq(Task) /\ DOMAIN r = DOMAIN q \cup {Len(q) + 1}
      /\ r[Len(q) + 1] = o /\ \A i \in DOMAIN q : r[i] = q[i]
  BY DEF Task
<1>2. o # Barrier
  BY ProposalsAssumption, Zenon DEF Operation
<1>3. Operations(r) = Operations(q) \cup {o}
  BY <1>1, <1>2 DEF Operations
<1> QED
  BY <1>3, Zenon DEF Contexts

\* A barrier holds no context.
LEMMA ContextsBarrier ==
    ASSUME NEW q \in Seq(Task)
    PROVE  Contexts(Append(q, Barrier)) = Contexts(q)
<1> DEFINE r == Append(q, Barrier)
<1>1. /\ r \in Seq(Task) /\ DOMAIN r = DOMAIN q \cup {Len(q) + 1}
      /\ r[Len(q) + 1] = Barrier /\ \A i \in DOMAIN q : r[i] = q[i]
  BY DEF Task
<1>3. Operations(r) = Operations(q)
  BY <1>1, Zenon DEF Operations
<1> QED
  BY <1>3, Zenon DEF Contexts

\* Posting a list of operations adds its contexts.
LEMMA ContextsConcat ==
    ASSUME NEW q \in Seq(Task), NEW s \in Seq(Task)
    PROVE  Contexts(q \o s) = Contexts(q) \cup Contexts(s)
<1> DEFINE r == q \o s
<1>1. /\ r \in Seq(Task) /\ DOMAIN r = 1 .. Len(q) + Len(s)
      /\ \A i \in DOMAIN r : r[i] = IF i <= Len(q) THEN q[i] ELSE s[i - Len(q)]
  OBVIOUS
<1>2. Operations(q) \subseteq Operations(r)
  BY <1>1 DEF Operations
<1>3. Operations(s) \subseteq Operations(r)
  <2> SUFFICES ASSUME NEW j \in DOMAIN s, s[j] # Barrier
               PROVE  s[j] \in Operations(r)
    BY Zenon DEF Operations
  <2>1. Len(q) + j \in DOMAIN r /\ r[Len(q) + j] = s[j]
    BY <1>1
  <2> QED
    BY <2>1, Zenon DEF Operations
<1>4. Operations(r) \subseteq Operations(q) \cup Operations(s)
  <2> SUFFICES ASSUME NEW i \in DOMAIN r, r[i] # Barrier
               PROVE  r[i] \in Operations(q) \cup Operations(s)
    BY Zenon DEF Operations
  <2>1. CASE i <= Len(q)
    BY <1>1, <2>1 DEF Operations
  <2>2. CASE ~(i <= Len(q))
    <3>1. i - Len(q) \in DOMAIN s /\ r[i] = s[i - Len(q)]
      BY <1>1, <2>2
    <3> QED
      BY <3>1, Zenon DEF Operations
  <2> QED
    BY <2>1, <2>2, Zenon
<1> QED
  BY <1>2, <1>3, <1>4, Zenon DEF Contexts

\* Removing the head of a queue of distinct contexts removes its context.
LEMMA ContextsTail ==
    ASSUME NEW q \in Seq(Task), q # <<>>, Distinct(q)
    PROVE  Contexts(Tail(q)) = Contexts(q) \
              (IF Head(q) = Barrier THEN {} ELSE {Head(q).context})
<1> DEFINE r == Tail(q)
<1>1. /\ r \in Seq(Task) /\ DOMAIN r = 1 .. Len(q) - 1 /\ Head(q) = q[1]
      /\ 1 \in DOMAIN q /\ \A i \in DOMAIN r : i + 1 \in DOMAIN q /\ r[i] = q[i + 1]
  OBVIOUS
<1>2. \A i \in DOMAIN q : i # 1 => i - 1 \in DOMAIN r /\ r[i - 1] = q[i]
  BY <1>1
<1>3. ASSUME NEW c \in Contexts(r)
      PROVE  c \in Contexts(q) /\ (Head(q) # Barrier => c # Head(q).context)
  <2>1. PICK i \in DOMAIN r : r[i] # Barrier /\ r[i].context = c /\ c # NoContext
    BY <1>3, Zenon DEF Contexts, Operations
  <2>2. i + 1 \in DOMAIN q /\ q[i + 1] = r[i] /\ i + 1 # 1
    BY <1>1, <2>1
  <2>3. c \in Contexts(q)
    BY <2>1, <2>2, Zenon DEF Contexts, Operations
  <2> QED
    BY <1>1, <2>1, <2>2, <2>3, Zenon DEF Distinct
<1>4. ASSUME NEW c \in Contexts(q), Head(q) # Barrier => c # Head(q).context
      PROVE  c \in Contexts(r)
  <2>1. PICK i \in DOMAIN q : q[i] # Barrier /\ q[i].context = c /\ c # NoContext
    BY Zenon DEF Contexts, Operations
  <2>2. i # 1
    BY <1>1, <1>4, <2>1, Zenon
  <2>3. i - 1 \in DOMAIN r /\ r[i - 1] = q[i]
    BY <1>2, <2>2, Zenon
  <2> QED
    BY <2>1, <2>3, Zenon DEF Contexts, Operations
<1> QED
  BY <1>3, <1>4, Zenon

\* An operation whose context is new keeps the contexts distinct.
LEMMA DistinctAppend ==
    ASSUME NEW q \in Seq(Task), NEW o \in Task, Distinct(q),
           o # Barrier => o.context \notin Contexts(q)
    PROVE  Distinct(Append(q, o))
<1> DEFINE r == Append(q, o)
<1>1. /\ DOMAIN r = DOMAIN q \cup {Len(q) + 1}
      /\ r[Len(q) + 1] = o /\ \A i \in DOMAIN q : r[i] = q[i]
  OBVIOUS
<1>2. \A i \in DOMAIN q : q[i] # Barrier /\ q[i].context # NoContext
                             => q[i].context \in Contexts(q)
  BY Zenon DEF Contexts, Operations
<1> QED
  BY <1>1, <1>2 DEF Distinct

\* Queues with disjoint contexts can be concatenated.
LEMMA DistinctConcat ==
    ASSUME NEW q \in Seq(Task), NEW s \in Seq(Task), Distinct(q), Distinct(s),
           Contexts(q) \cap Contexts(s) = {}
    PROVE  Distinct(q \o s)
<1> DEFINE r == q \o s
<1>1. /\ r \in Seq(Task) /\ DOMAIN r = 1 .. Len(q) + Len(s)
      /\ \A i \in DOMAIN r :
            IF i <= Len(q) THEN i \in DOMAIN q /\ r[i] = q[i]
            ELSE i - Len(q) \in DOMAIN s /\ r[i] = s[i - Len(q)]
  OBVIOUS
<1>2. \A i \in DOMAIN q : q[i] # Barrier /\ q[i].context # NoContext
                             => q[i].context \in Contexts(q)
  BY Zenon DEF Contexts, Operations
<1>3. \A i \in DOMAIN s : s[i] # Barrier /\ s[i].context # NoContext
                             => s[i].context \in Contexts(s)
  BY Zenon DEF Contexts, Operations
<1> SUFFICES ASSUME NEW i \in DOMAIN r, NEW j \in DOMAIN r,
                    r[i] # Barrier, r[j] # Barrier,
                    r[i].context = r[j].context, r[i].context # NoContext
             PROVE  i = j
  BY SMTT(30) DEF Distinct
<1>4. CASE i <= Len(q) /\ j <= Len(q)
  BY <1>1, <1>4, Zenon DEF Distinct
<1>5. CASE ~(i <= Len(q)) /\ ~(j <= Len(q))
  <2>1. i - Len(q) = j - Len(q)
    BY <1>1, <1>5 DEF Distinct
  <2> QED
    BY <1>1, <2>1
<1>6. CASE i <= Len(q) /\ ~(j <= Len(q))
  BY <1>1, <1>2, <1>3, <1>6, Zenon
<1>7. CASE ~(i <= Len(q)) /\ j <= Len(q)
  BY <1>1, <1>2, <1>3, <1>7, Zenon
<1> QED
  BY <1>4, <1>5, <1>6, <1>7, Zenon

\* Removing the head keeps the contexts distinct.
LEMMA DistinctTail ==
    ASSUME NEW q \in Seq(Task), q # <<>>, Distinct(q)
    PROVE  Distinct(Tail(q))
<1>1. /\ Tail(q) \in Seq(Task)
      /\ \A i \in DOMAIN Tail(q) : /\ i \in Int /\ i + 1 \in DOMAIN q
                                   /\ Tail(q)[i] = q[i + 1]
  OBVIOUS
<1> QED
  BY <1>1 DEF Distinct

-----------------------------------------------------------------------------
\* ReleaseProposalAccountingLocked keeps the counter exact.
LEMMA ReleaseExact ==
    ASSUME NEW S, accounted \subseteq Proposals,
           pending_proposals_ = Cardinality(accounted), ReleaseAll(S)
    PROVE  /\ accounted' = accounted \ S
           /\ pending_proposals_' = Cardinality(accounted')
           /\ pending_proposals_' \in Nat
<1> DEFINE held == S \cap accounted
<1>1. IsFiniteSet(accounted)
  BY ProposalsAssumption, FS_Subset, Zenon
<1>2. accounted' = accounted \ S /\ accounted' = accounted \ held
  BY Zenon DEF ReleaseAll
<1>3. /\ IsFiniteSet(accounted \ held)
      /\ Cardinality(accounted \ held) =
            Cardinality(accounted) - Cardinality(accounted \cap held)
  BY Zenon, <1>1, FS_Difference
<1>4. accounted \cap held = held /\ IsFiniteSet(held)
  BY <1>1, FS_Subset, Zenon
<1>5. /\ Cardinality(accounted) \in Nat /\ Cardinality(held) \in Nat
      /\ Cardinality(accounted \ held) \in Nat
  BY <1>1, <1>3, <1>4, FS_CardinalityType, Zenon
<1>6. pending_proposals_' = Cardinality(accounted) - Cardinality(held)
  BY SMTT(30), <1>3, <1>4, <1>5 DEF ReleaseAll, SatSub
<1> QED
  BY Zenon, <1>2, <1>3, <1>4, <1>5, <1>6

-----------------------------------------------------------------------------
\* A driver that has just been started satisfies the inductive invariant.
LEMMA InitIInv == Init => IInv
<1> SUFFICES ASSUME Init PROVE IInv
  BY Zenon
<1>1. Contexts(<<>>) = {}
  BY DEF Contexts, Operations
<1>2. Cardinality({}) = 0
  BY FS_EmptySet, Zenon
<1>3. TypeOK
  <2>1. Unset \in Results
    BY Zenon DEF Results, Unset
  <2>2. PromiseType /\ CallerType
    BY <2>1, Zenon DEF Init, PromiseType, CallerType
  <2>3. StopType
    BY Zenon DEF Init, StopType
  <2>4. RaftType /\ ApplyType
    BY DEF Init, RaftType, ApplyType
  <2>5. NodeType
    BY DEF Init, NodeType
  <2>6. FlagType
    BY Zenon DEF Init, FlagType
  <2> QED
    BY <2>2, <2>3, <2>4, <2>5, <2>6, Zenon DEF TypeOK
<1>4. AccountingExact /\ Ownership
  BY <1>1, <1>2 DEF Init, AccountingExact, Ownership, Distinct
<1>5. NodeOrder /\ Applying /\ NoLostPromise
  BY DEF Init, NodeOrder, Applying, NoLostPromise
<1> QED
  BY <1>3, <1>4, <1>5, Zenon DEF IInv

-----------------------------------------------------------------------------
(* Each action keeps the inductive invariant.                              *)

\* An error is a result, and differs from an unset promise.
LEMMA FailedResult ==
    ASSUME NEW e \in Errors
    PROVE  Failed(e) \in Results /\ Failed(e) # Unset
BY Zenon DEF Failed, Unset, Results, Errors, Refusals

\* The proposing threads only move forward past Propose.
Forward ==
    \A p \in Proposals :
       /\ caller[p] # "idle" => caller'[p] # "idle"
       /\ caller'[p] \in {"posting", "waiting"} =>
             \/ caller[p] \in {"posting", "waiting"}
             \/ applied'[p] # Unset
       /\ applied[p] # Unset => applied'[p] # Unset

\* Contexts taken out of pending_promise_ with their promise set, and no queue
\* touched: the ownership parts of the invariant are kept.
LEMMA Withdraw ==
    ASSUME IInv, NEW S \in SUBSET pending_promise_, Forward,
           pending_promise_' = pending_promise_ \ S,
           accounted' = accounted \ S,
           pending_proposals_' = Cardinality(accounted'),
           \A p \in S : applied'[p] # Unset,
           UNCHANGED <<operations, applyQueue, applyThread>>
    PROVE  AccountingExact' /\ Ownership' /\ Applying' /\ NoLostPromise'
<1>1. Contexts(operations)' = Contexts(operations)
  BY Zenon DEF Contexts, Operations
<1>2. Contexts(applyQueue)' = Contexts(applyQueue)
  BY Zenon DEF Contexts, Operations
<1>3. AccountingExact'
  BY <1>1, <1>2, Zenon DEF AccountingExact, IInv, Ownership
<1>4. Ownership'
  <2>1. \A p \in accounted' : caller'[p] # "idle"
    BY Zenon DEF IInv, Ownership, Forward, TypeOK, PromiseType
  <2>2. Distinct(operations)' /\ Distinct(applyQueue)'
    BY DEF IInv, Ownership, Distinct
  <2> QED
    BY <1>1, <1>2, <2>1, <2>2, Zenon DEF IInv, Ownership
<1>5. Applying'
  <2> SUFFICES ASSUME applyThread # "idle", Head(applyQueue).context # NoContext
               PROVE  applied'[Head(applyQueue).context] # Unset
    BY Zenon DEF IInv, Applying
  <2>1. applyQueue # <<>> /\ Head(applyQueue) # Barrier
    BY Zenon DEF IInv, Applying
  <2>2. Head(applyQueue).context \in Proposals
    BY <2>1 DEF IInv, TypeOK, ApplyType, Operation
  <2> QED
    BY <2>2, Zenon DEF IInv, Applying, Forward
<1>6. NoLostPromise'
  BY Zenon DEF IInv, NoLostPromise, Forward
<1> QED
  BY <1>3, <1>4, <1>5, <1>6, Zenon

\* The same when no context moves at all.
LEMMA Untouched ==
    ASSUME IInv, Forward,
           UNCHANGED <<pending_promise_, accounted, pending_proposals_,
                       operations, applyQueue, applyThread>>
    PROVE  AccountingExact' /\ Ownership' /\ Applying' /\ NoLostPromise'
<1>1. {} \in SUBSET pending_promise_
  BY Zenon
<1>2. pending_promise_' = pending_promise_ \ {} /\ accounted' = accounted \ {}
  BY Zenon
<1>3. pending_proposals_' = Cardinality(accounted')
  BY Zenon DEF IInv, AccountingExact
<1>4. \A p \in {} : applied'[p] # Unset
  BY Zenon
<1> QED
  BY Zenon, <1>1, <1>2, <1>3, <1>4, Withdraw

\* Erase(p) followed by an error for its caller.
LEMMA EraseOne ==
    ASSUME IInv, NEW p \in pending_promise_, NEW e \in Errors, Erase(p),
           SetApplied(p, Failed(e)), Forward,
           UNCHANGED <<operations, applyQueue, applyThread>>
    PROVE  /\ PromiseType'
           /\ AccountingExact' /\ Ownership' /\ Applying' /\ NoLostPromise'
<1>1. Failed(e) \in Results /\ Failed(e) # Unset
  BY FailedResult, Zenon
<1>2. /\ accounted' = accounted \ {p}
      /\ pending_proposals_' = Cardinality(accounted')
      /\ pending_proposals_' \in Nat
  BY ReleaseExact, Zenon DEF Erase, IInv, TypeOK, PromiseType, AccountingExact
<1>3. pending_promise_' = pending_promise_ \ {p}
  BY Zenon DEF Erase
<1>4. PromiseType'
  BY <1>1, <1>2, <1>3, Zenon DEF IInv, TypeOK, PromiseType, SetApplied
<1>5. {p} \in SUBSET pending_promise_ /\ \A q \in {p} : applied'[q] # Unset
  BY <1>1, Zenon DEF IInv, TypeOK, PromiseType, SetApplied
<1>6. AccountingExact' /\ Ownership' /\ Applying' /\ NoLostPromise'
  BY Zenon, <1>2, <1>3, <1>5, Withdraw
<1> QED
  BY <1>4, <1>6, Zenon

\* Propose registers and accounts a context together, or does neither.
LEMMA ProposeIInv ==
    ASSUME IInv, NEW p \in Proposals, Propose(p)
    PROVE  IInv'
<1> USE DEF IInv, TypeOK
<1>1. CASE ProposeRefuse(p)
  <2>1. RefusalOf(p) \in Errors
    BY Zenon DEF RefusalOf, Errors, Refusals
  <2>2. Failed(RefusalOf(p)) \in Results /\ Failed(RefusalOf(p)) # Unset
    BY <2>1, FailedResult, Zenon
  <2>3. PromiseType' /\ CallerType'
    BY Zenon, <1>1, <2>2 DEF ProposeRefuse, SetApplied, PromiseType, CallerType, promiseVars
  <2>4. StopType' /\ RaftType' /\ NodeType' /\ ApplyType' /\ FlagType'
    BY Zenon, <1>1 DEF ProposeRefuse, StopType, RaftType, NodeType, ApplyType, FlagType,
                stopVars, raftVars, nodeVars, applyVars
  <2>5. NodeOrder'
    BY <1>1, Zenon DEF ProposeRefuse, NodeOrder, nodeVars
  <2>6. Forward
    BY Zenon, <1>1, <2>2 DEF ProposeRefuse, SetApplied, Forward, PromiseType, CallerType
  <2>7. AccountingExact' /\ Ownership' /\ Applying' /\ NoLostPromise'
    BY SMTT(30), <1>1, <2>6, Untouched DEF ProposeRefuse, promiseVars, raftVars, applyVars
  <2> QED
    BY <2>3, <2>4, <2>5, <2>7, Zenon
<1>2. CASE ProposeAccept(p)
  <2> USE <1>2 DEF ProposeAccept
  <2>1. p \notin accounted
    BY DEF Ownership
  <2>2. IsFiniteSet(accounted)
    BY SMTT(30), ProposalsAssumption, FS_Subset DEF PromiseType
  <2>3. Cardinality(accounted \cup {p}) = Cardinality(accounted) + 1
    BY Zenon, <2>1, <2>2, FS_AddElement
  <2>4. PromiseType' /\ CallerType'
    <3>1. CallerType'
      BY Zenon DEF CallerType
    <3>2. PromiseType'
      BY DEF PromiseType
    <3> QED
      BY <3>1, <3>2, Zenon
  <2>5. StopType' /\ RaftType' /\ NodeType' /\ ApplyType' /\ FlagType'
    BY Zenon DEF StopType, RaftType, NodeType, ApplyType, FlagType,
           stopVars, raftVars, nodeVars, applyVars
  <2>6. NodeOrder'
    BY Zenon DEF NodeOrder, nodeVars
  <2>7. /\ Contexts(operations)' = Contexts(operations)
        /\ Contexts(applyQueue)' = Contexts(applyQueue)
    BY Zenon DEF Contexts, Operations, raftVars, applyVars
  <2>8. AccountingExact'
    BY SMTT(30), <2>3, <2>7 DEF AccountingExact
  <2>9. Ownership'
    <3>1. Distinct(operations)' /\ Distinct(applyQueue)'
      BY SMTT(30) DEF Ownership, Distinct, raftVars, applyVars
    <3> QED
      BY Zenon, <2>1, <2>7, <3>1 DEF Ownership, AccountingExact, CallerType, PromiseType
  <2>10. Applying' /\ NoLostPromise'
    BY Zenon DEF Applying, NoLostPromise, applyVars, CallerType
  <2> QED
    BY SMTT(30), <2>4, <2>5, <2>6, <2>8, <2>9, <2>10
<1>3. CASE ProposePost(p)
  <2> USE <1>3 DEF ProposePost
  <2>1. PromiseType' /\ CallerType'
    BY Zenon DEF PromiseType, CallerType, promiseVars
  <2>2. RaftType'
    BY DEF RaftType
  <2>3. StopType' /\ NodeType' /\ ApplyType' /\ FlagType'
    BY Zenon DEF StopType, NodeType, ApplyType, FlagType, stopVars, nodeVars, applyVars
  <2>4. NodeOrder'
    BY Zenon DEF NodeOrder, nodeVars
  <2>5. Forward
    BY Zenon DEF Forward, CallerType
  <2>6. AccountingExact' /\ Ownership' /\ Applying' /\ NoLostPromise'
    BY SMTT(30), <2>5, Untouched DEF promiseVars, applyVars
  <2> QED
    BY SMTT(30), <2>1, <2>2, <2>3, <2>4, <2>6
<1> QED
  BY <1>1, <1>2, <1>3, Zenon DEF Propose

\* A caller that takes its answer or gives up keeps the invariant.
LEMMA WaitIInv ==
    ASSUME IInv, NEW p \in Proposals, WaitForApplied(p)
    PROVE  IInv'
<1> USE DEF IInv, TypeOK
<1>1. CASE WaitReady(p) \/ WaitTimeout(p)
  <2> USE <1>1 DEF WaitReady, WaitTimeout
  <2>1. PromiseType' /\ CallerType'
    BY Zenon DEF PromiseType, CallerType, promiseVars
  <2>2. StopType' /\ RaftType' /\ NodeType' /\ ApplyType' /\ FlagType'
    BY ZenonT(30) DEF StopType, RaftType, NodeType, ApplyType, FlagType,
           stopVars, raftVars, nodeVars, applyVars
  <2>3. NodeOrder'
    BY Zenon DEF NodeOrder, nodeVars
  <2>4. Forward
    BY Zenon DEF Forward, CallerType
  <2>5. AccountingExact' /\ Ownership' /\ Applying' /\ NoLostPromise'
    BY Zenon, <2>4, Untouched DEF promiseVars, raftVars, applyVars
  <2> QED
    BY Zenon, <2>1, <2>2, <2>3, <2>5
<1>2. CASE RemovePendingPromise(p)
  <2> USE <1>2 DEF RemovePendingPromise
  <2>1. Failed("Timeout") \in Results /\ Failed("Timeout") # Unset
    BY Zenon, FailedResult DEF Errors
  <2>2. StopType' /\ RaftType' /\ NodeType' /\ ApplyType' /\ FlagType'
    BY Zenon DEF StopType, RaftType, NodeType, ApplyType, FlagType,
           stopVars, raftVars, nodeVars, applyVars
  <2>3. NodeOrder'
    BY Zenon DEF NodeOrder, nodeVars
  <2>4. CallerType'
    BY Zenon, <2>1 DEF CallerType
  <2>5. CASE p \notin pending_promise_
    <3>1. PromiseType'
      BY Zenon, <2>5 DEF PromiseType, promiseVars
    <3>2. Forward
      BY Zenon, <2>5 DEF Forward, CallerType
    <3>3. AccountingExact' /\ Ownership' /\ Applying' /\ NoLostPromise'
      BY Zenon, <2>5, <3>2, Untouched DEF promiseVars, raftVars, applyVars
    <3> QED
      BY Zenon, <2>2, <2>3, <2>4, <3>1, <3>3
  <2>6. CASE p \in pending_promise_
    <3>1. Erase(p) /\ SetApplied(p, Failed("Timeout")) /\ "Timeout" \in Errors
      BY Zenon, <2>6 DEF Errors
    <3>2. Forward
      BY Zenon, <2>1, <3>1 DEF Forward, SetApplied, CallerType, PromiseType
    <3>3. /\ PromiseType'
          /\ AccountingExact' /\ Ownership' /\ Applying' /\ NoLostPromise'
      BY Zenon, <2>6, <3>1, <3>2, EraseOne DEF raftVars, applyVars
    <3> QED
      BY Zenon, <2>2, <2>3, <2>4, <3>3
  <2> QED
    BY Zenon, <2>5, <2>6
<1> QED
  BY SMTT(30), <1>1, <1>2 DEF WaitForApplied

\* RejectPendingPromises.
LEMMA RejectAll ==
    ASSUME IInv, NEW e \in Errors, RejectPendingPromises(e),
           UNCHANGED <<operations, applyQueue, applyThread, caller>>
    PROVE  /\ PromiseType'
           /\ AccountingExact' /\ Ownership' /\ Applying' /\ NoLostPromise'
<1> USE DEF RejectPendingPromises
<1>1. Failed(e) \in Results /\ Failed(e) # Unset
  BY SMTT(30), FailedResult
<1>2. /\ accounted' = accounted \ pending_promise_
      /\ pending_proposals_' = Cardinality(accounted')
      /\ pending_proposals_' \in Nat
  BY ReleaseExact, Zenon DEF IInv, TypeOK, PromiseType, AccountingExact
<1>3. pending_promise_' = pending_promise_ \ pending_promise_
  BY Zenon
<1>4. PromiseType'
  BY <1>1, <1>2, Zenon DEF IInv, TypeOK, PromiseType
<1>5. /\ pending_promise_ \in SUBSET pending_promise_
      /\ \A q \in pending_promise_ : applied'[q] # Unset
  BY <1>1, Zenon DEF IInv, TypeOK, PromiseType
<1>6. Forward
  BY SMTT(30), <1>1 DEF IInv, TypeOK, PromiseType, Forward
<1>7. AccountingExact' /\ Ownership' /\ Applying' /\ NoLostPromise'
  BY SMTT(30), <1>2, <1>3, <1>5, <1>6, Withdraw
<1> QED
  BY <1>4, <1>7, Zenon

\* The node keeps prepared <= committed <= Len(log).
LEMMA NodeStepOrder ==
    ASSUME NodeType, NodeOrder, UNCHANGED prepared,
           NodeMaybeCommit \/ NodeBecomeLeader \/ NodeFollow
    PROVE  NodeType' /\ NodeOrder'
<1>1. CASE NodeMaybeCommit
  BY <1>1 DEF NodeMaybeCommit, NodeType, NodeOrder
<1>2. CASE NodeBecomeLeader
  BY <1>2 DEF NodeBecomeLeader, NodeType, NodeOrder, Entries
<1>3. CASE NodeFollow
  <2>1. PICK keep \in committed .. Len(log), new \in Seq(Entries) :
             /\ log' = SubSeq(log, 1, keep) \o new
             /\ committed' \in committed .. keep + Len(new)
    <3>1. <<>> \in Seq(Entries) /\ \A e \in Entries : <<e>> \in Seq(Entries)
      OBVIOUS
    <3> QED
      BY Zenon, <1>3, <3>1 DEF NodeFollow
  <2>3. keep \in Nat /\ SubSeq(log, 1, keep) \in Seq(Entries)
        /\ Len(SubSeq(log, 1, keep)) = keep
    BY DEF NodeType
  <2>4. log' \in Seq(Entries) /\ Len(log') = keep + Len(new)
    BY <2>1, <2>3
  <2>5. committed' \in Nat /\ committed <= committed' /\ committed' <= Len(log')
    BY <2>1, <2>3, <2>4 DEF NodeType
  <2>6. slot' = slot
    BY <1>3, Zenon DEF NodeFollow
  <2> QED
    BY SMTT(30), <2>4, <2>5, <2>6 DEF NodeType, NodeOrder
<1> QED
  BY <1>1, <1>2, <1>3, Zenon

\* Stepping the node, with the rejection on a lost leadership.
LEMMA StepIInv ==
    ASSUME IInv, StepCommit \/ StepElected \/ StepFollow
    PROVE  IInv'
<1> DEFINE node == NodeMaybeCommit \/ NodeBecomeLeader \/ NodeFollow
<1>1. /\ node
      /\ \/ RejectPendingPromises("NotLeader")
         \/ UNCHANGED <<promiseVars, applied>>
      /\ raftThread' = "prepare"
      /\ UNCHANGED <<callerVars, stopVars, raftQueue, operations, prepared,
                     applyVars, aborted>>
  BY Zenon DEF StepCommit, StepElected, StepFollow, Step
<1>2. NodeType' /\ NodeOrder'
  BY SMTT(30), <1>1, NodeStepOrder DEF IInv, TypeOK
<1>3. leading' \in BOOLEAN
  BY Zenon, <1>1 DEF NodeMaybeCommit, NodeBecomeLeader, NodeFollow, IInv, TypeOK, FlagType
<1>4. CallerType' /\ StopType' /\ ApplyType' /\ FlagType'
  BY Zenon, <1>1, <1>3 DEF IInv, TypeOK, CallerType, StopType, ApplyType, FlagType,
                    callerVars, stopVars, applyVars
<1>5. RaftType'
  BY <1>1, Zenon DEF IInv, TypeOK, RaftType
<1>6. /\ PromiseType'
      /\ AccountingExact' /\ Ownership' /\ Applying' /\ NoLostPromise'
  <2>1. UNCHANGED <<operations, applyQueue, applyThread, caller>>
    BY <1>1, Zenon DEF callerVars, applyVars
  <2>2. CASE RejectPendingPromises("NotLeader")
    <3>1. "NotLeader" \in Errors
      BY DEF Errors
    <3> QED
      BY <2>1, <2>2, <3>1, RejectAll, Zenon
  <2>3. CASE UNCHANGED <<promiseVars, applied>>
    <3>1. Forward
      BY <2>1, <2>3, Zenon DEF Forward
    <3>2. PromiseType'
      BY SMTT(30), <2>3 DEF IInv, TypeOK, PromiseType, promiseVars
    <3> QED
      BY SMTT(30), <2>1, <2>3, <3>1, <3>2, Untouched DEF promiseVars
  <2> QED
    BY <1>1, <2>2, <2>3
<1> QED
  BY SMTT(30), <1>2, <1>4, <1>5, <1>6 DEF IInv, TypeOK

\* The task Propose posted, whatever it finds.
LEMMA RunProposalIInv ==
    ASSUME IInv, NEW p \in Proposals, RunProposal(p)
    PROVE  IInv'
<1> USE DEF RunProposal
<1>1. CallerType' /\ StopType' /\ ApplyType' /\ FlagType'
  BY Zenon DEF IInv, TypeOK, CallerType, StopType, ApplyType, FlagType,
         callerVars, stopVars, applyVars
<1>2. RaftType'
  BY SMTT(30) DEF IInv, TypeOK, RaftType, ProposalGone, ProposalStopped, ProposalNotLeader,
         ProposalDropped, ProposalAppended
<1>3. NodeType' /\ NodeOrder'
  <2>1. CASE UNCHANGED <<log, slot>>
    BY SMTT(30), <2>1 DEF IInv, TypeOK, NodeType, NodeOrder
  <2>2. CASE ProposalAppended(p)
    <3>1. log' \in Seq(Entries) /\ Len(log') = Len(log) + 1
      <4>1. p \in Entries /\ Noop \in Entries /\ log \in Seq(Entries)
        BY SMTT(30) DEF IInv, TypeOK, NodeType, Entries
      <4>2. PICK e \in Entries : log' = Append(log, e)
        BY SMTT(30), <2>2, <4>1 DEF ProposalAppended
      <4> QED
        BY SMTT(30), <4>1, <4>2
    <3>2. slot' \in [Proposals -> Nat]
      BY SMTT(30), <2>2 DEF ProposalAppended, IInv, TypeOK, NodeType
    <3> QED
      BY SMTT(30), <3>1, <3>2 DEF IInv, TypeOK, NodeType, NodeOrder
  <2> QED
    BY SMTT(30), <2>1, <2>2 DEF ProposalGone, ProposalStopped, ProposalNotLeader, ProposalDropped
<1>4. /\ PromiseType'
      /\ AccountingExact' /\ Ownership' /\ Applying' /\ NoLostPromise'
  <2>1. UNCHANGED <<operations, applyQueue, applyThread, caller>>
    BY SMTT(30) DEF callerVars, applyVars
  <2>2. CASE UNCHANGED <<promiseVars, applied>>
    <3>1. Forward
      BY SMTT(30), <2>1, <2>2 DEF Forward
    <3>2. PromiseType'
      BY SMTT(30), <2>2 DEF IInv, TypeOK, PromiseType, promiseVars
    <3> QED
      BY SMTT(30), <2>1, <2>2, <3>1, <3>2, Untouched DEF promiseVars
  <2>3. ASSUME NEW e \in Errors, p \in pending_promise_, Erase(p),
               SetApplied(p, Failed(e))
        PROVE  /\ PromiseType'
               /\ AccountingExact' /\ Ownership' /\ Applying' /\ NoLostPromise'
    <3>1. Forward
      BY Zenon, <2>1, <2>3, FailedResult
         DEF Forward, SetApplied, IInv, TypeOK, CallerType, PromiseType
    <3> QED
      BY SMTT(30), <2>1, <2>3, <3>1, EraseOne
  <2>4. {"RaftUnavailable", "NotLeader", "Dropped"} \subseteq Errors
    BY SMTT(30) DEF Errors
  <2> QED
    BY SMTT(30), <2>2, <2>3, <2>4 DEF ProposalGone, ProposalStopped, ProposalNotLeader,
                            ProposalDropped, ProposalAppended
<1> QED
  BY SMTT(30), <1>1, <1>2, <1>3, <1>4 DEF IInv, TypeOK

\* The context of a committed entry changes owner, nothing is released.
LEMMA PrepareIInv ==
    ASSUME IInv, PrepareApplyOperation
    PROVE  IInv'
<1> USE DEF PrepareApplyOperation
<1> DEFINE entry == log[prepared + 1]
           held  == {entry} \cap pending_promise_
           op    == [index |-> prepared + 1,
                     context |-> IF held = {} THEN NoContext ELSE entry]
<1>1. prepared + 1 \in 1 .. Len(log) /\ entry \in Entries
  BY SMTT(30) DEF IInv, TypeOK, NodeType, NodeOrder
<1>2. op \in Operation /\ {op.context} \ {NoContext} = held
  BY SMTT(30), <1>1, ProposalsAssumption DEF Operation, IInv, TypeOK, NodeType, PromiseType
<1>3. /\ operations' = Append(operations, op)
      /\ pending_promise_' = pending_promise_ \ held
      /\ UNCHANGED <<accounted, pending_proposals_, applied, applyQueue, applyThread,
                     caller>>
  BY SMTT(30) DEF applyVars, callerVars
<1>4. operations \in Seq(Task) /\ applyQueue \in Seq(Task) /\ op \in Task
  BY SMTT(30), <1>2 DEF IInv, TypeOK, RaftType, ApplyType, Task
<1>5. /\ Contexts(operations)' = Contexts(operations) \cup held
      /\ Contexts(applyQueue)' = Contexts(applyQueue)
  <2>1. Contexts(Append(operations, op)) = Contexts(operations) \cup held
    <3> HIDE DEF op
    <3> QED
      BY SMTT(30), <1>2, <1>4, ContextsAppend
  <2>2. /\ Contexts(operations)' = Contexts(operations')
        /\ Contexts(applyQueue)' = Contexts(applyQueue')
    BY SMTT(30) DEF Contexts, Operations
  <2> QED
    BY ZenonT(30), <1>3, <2>1, <2>2
<1>6. Distinct(operations') /\ Distinct(applyQueue')
  <2>1. op.context \notin Contexts(operations)
    BY SMTT(30), <1>2 DEF IInv, Ownership, Contexts
  <2> QED
    BY SMTT(30), <1>3, <1>4, <2>1, DistinctAppend DEF IInv, Ownership
<1>7. PromiseType' /\ CallerType' /\ StopType' /\ ApplyType' /\ FlagType'
  BY ZenonT(30), <1>3 DEF IInv, TypeOK, PromiseType, CallerType, StopType, ApplyType, FlagType,
              callerVars, stopVars, applyVars
<1>8. RaftType'
  BY SMTT(30), <1>2, <1>3 DEF IInv, TypeOK, RaftType
<1>9. NodeType' /\ NodeOrder'
  BY SMTT(30) DEF IInv, TypeOK, NodeType, NodeOrder
<1>10. AccountingExact'
  BY SMTT(30), <1>3, <1>5 DEF IInv, AccountingExact
<1>11. Ownership'
  <2>1. /\ \A p \in accounted : caller[p] # "idle"
        /\ pending_promise_ \cap Contexts(operations) = {}
        /\ pending_promise_ \cap Contexts(applyQueue) = {}
        /\ Contexts(operations) \cap Contexts(applyQueue) = {}
    BY Zenon DEF IInv, Ownership
  <2>2. held \subseteq pending_promise_
    BY Zenon
  <2> HIDE DEF held
  <2>3. \A p \in accounted' : caller'[p] # "idle"
    BY <1>3, <2>1, Zenon
  <2>4. /\ pending_promise_' \cap Contexts(operations)' = {}
        /\ pending_promise_' \cap Contexts(applyQueue)' = {}
        /\ Contexts(operations)' \cap Contexts(applyQueue)' = {}
    BY <1>3, <1>5, <2>1, <2>2, SMTT(30)
  <2>5. Distinct(operations)' /\ Distinct(applyQueue)'
    BY <1>6, Zenon DEF Distinct
  <2> QED
    BY <2>3, <2>4, <2>5, Zenon DEF Ownership
<1>12. Applying' /\ NoLostPromise'
  BY Zenon, <1>3 DEF IInv, Applying, NoLostPromise
<1> QED
  BY SMTT(30), <1>7, <1>8, <1>9, <1>10, <1>11, <1>12 DEF IInv, TypeOK

\* Posting the operations hands their contexts to the apply queue.
LEMMA PostApplyIInv ==
    ASSUME IInv, PostApply
    PROVE  IInv'
<1> USE DEF PostApply
<1>1. operations \in Seq(Task) /\ applyQueue \in Seq(Task)
  BY SMTT(30) DEF IInv, TypeOK, RaftType, ApplyType, Task
<1>2. /\ Contexts(operations)' = {}
      /\ Contexts(applyQueue)' = Contexts(applyQueue) \cup Contexts(operations)
  <2>1. /\ Contexts(operations)' = Contexts(operations')
        /\ Contexts(applyQueue)' = Contexts(applyQueue')
    BY Zenon DEF Contexts, Operations
  <2>2. Contexts(<<>>) = {}
    BY SMTT(30) DEF Contexts, Operations
  <2> QED
    BY SMTT(30), <1>1, <2>1, <2>2, ContextsConcat
<1>3. Distinct(operations') /\ Distinct(applyQueue')
  <2>1. Distinct(<<>>)
    BY SMTT(30) DEF Distinct
  <2> QED
    BY SMTT(30), <1>1, <2>1, DistinctConcat DEF IInv, Ownership
<1>4. PromiseType' /\ CallerType' /\ StopType' /\ NodeType' /\ FlagType' /\ NodeOrder'
  BY Zenon DEF IInv, TypeOK, PromiseType, CallerType, StopType, NodeType, FlagType, NodeOrder,
         promiseVars, callerVars, stopVars, nodeVars
<1>5. RaftType' /\ ApplyType'
  BY SMTT(30) DEF IInv, TypeOK, RaftType, ApplyType
<1>6. AccountingExact' /\ NoLostPromise'
  BY SMTT(30), <1>2 DEF IInv, AccountingExact, NoLostPromise, promiseVars, callerVars
<1>7. Ownership'
  BY ZenonT(30), <1>2, <1>3 DEF IInv, Ownership, Distinct, promiseVars, callerVars
<1>8. Applying'
  <2>1. applyQueue # <<>> => applyQueue' # <<>> /\ Head(applyQueue') = Head(applyQueue)
    BY SMTT(30), <1>1
  <2> QED
    BY <2>1 DEF IInv, Applying
<1> QED
  BY SMTT(30), <1>4, <1>5, <1>6, <1>7, <1>8 DEF IInv, TypeOK

\* Applying the head of the queue sets its promise and releases nothing.
LEMMA ApplyIInv ==
    ASSUME IInv, NEW ok \in BOOLEAN, Apply(ok)
    PROVE  IInv'
<1> DEFINE op == Head(applyQueue)
<1> USE DEF Apply
<1>1. op \in Operation /\ applyQueue # <<>> /\ op # Barrier
  BY SMTT(30) DEF IInv, TypeOK, ApplyType
<1>2. /\ UNCHANGED <<promiseVars, callerVars, stopVars, raftVars, nodeVars, applyQueue,
                     aborted>>
      /\ applyThread' \in {"release", "fatal"}
  BY SMTT(30)
<1>3. apply_id_' \in Nat
  BY SMTT(30), <1>1 DEF IInv, TypeOK, ApplyType, Operation
<1> DEFINE r == IF ok THEN OK(op.index) ELSE [err |-> "ApplyError", index |-> op.index]
<1>4. r \in Results /\ r # Unset
  BY SMTT(30), <1>1 DEF Operation, OK, Unset, Results, Errors, Refusals
<1>5. IF op.context = NoContext THEN applied' = applied
                                ELSE SetApplied(op.context, r)
  BY SMTT(30)
<1>6. /\ applied' \in [Proposals -> Results]
      /\ op.context # NoContext => applied'[op.context] # Unset
      /\ \A p \in Proposals : applied'[p] = Unset => applied[p] = Unset
  <2> HIDE DEF r
  <2> QED
    BY SMTT(30), <1>1, <1>4, <1>5 DEF SetApplied, Operation, IInv, TypeOK, PromiseType
<1>7. PromiseType' /\ CallerType' /\ StopType' /\ RaftType' /\ NodeType' /\ FlagType'
      /\ NodeOrder'
  BY ZenonT(30), <1>2, <1>6 DEF IInv, TypeOK, PromiseType, CallerType, StopType, RaftType, NodeType,
         FlagType, NodeOrder, promiseVars, callerVars, stopVars, raftVars, nodeVars
<1>8. ApplyType'
  BY SMTT(30), <1>2, <1>3 DEF IInv, TypeOK, ApplyType
<1>9. AccountingExact' /\ Ownership'
  <2>1. /\ operations' = operations /\ applyQueue' = applyQueue
        /\ UNCHANGED <<pending_promise_, accounted, pending_proposals_, caller>>
    BY SMTT(30), <1>2 DEF promiseVars, callerVars, raftVars
  <2>2. /\ Contexts(operations)' = Contexts(operations)
        /\ Contexts(applyQueue)' = Contexts(applyQueue)
    BY SMTT(30), <2>1 DEF Contexts, Operations
  <2>3. Distinct(operations)' = Distinct(operations)
        /\ Distinct(applyQueue)' = Distinct(applyQueue)
    BY SMTT(30), <2>1 DEF Distinct
  <2> QED
    BY SMTT(30), <2>1, <2>2, <2>3 DEF IInv, AccountingExact, Ownership
<1>10. Applying'
  BY SMTT(30), <1>1, <1>2, <1>6 DEF Applying
<1>11. NoLostPromise'
  BY Zenon, <1>2, <1>6 DEF IInv, NoLostPromise, promiseVars, callerVars
<1> QED
  BY SMTT(30), <1>7, <1>8, <1>9, <1>10, <1>11 DEF IInv, TypeOK

\* The context of the applied operation leaves the queue and the accounting
\* together.
LEMMA ApplyReleaseIInv ==
    ASSUME IInv, ApplyRelease
    PROVE  IInv'
<1> DEFINE op == Head(applyQueue)
<1> USE DEF ApplyRelease
<1>1. applyQueue \in Seq(Task) /\ applyQueue # <<>> /\ op # Barrier /\ op \in Operation
      /\ (op.context # NoContext => applied[op.context] # Unset)
  <2>1. applyQueue # <<>> /\ op # Barrier
        /\ (op.context # NoContext => applied[op.context] # Unset)
    BY Zenon DEF IInv, Applying
  <2>2. applyQueue \in Seq(Task)
    BY Zenon DEF IInv, TypeOK, ApplyType, Task
  <2>3. op \in Task
    BY SMTT(30), <2>1, <2>2
  <2> QED
    BY SMTT(30), <2>1, <2>2, <2>3 DEF Task
<1>2. /\ UNCHANGED <<pending_promise_, applied, callerVars, stopVars, raftVars, nodeVars>>
      /\ applyQueue' = Tail(applyQueue) /\ applyThread' = "idle"
      /\ ReleaseAll({op.context})
  BY SMTT(30)
<1>3. Contexts(applyQueue)' = Contexts(applyQueue) \ {op.context}
  <2>1. Contexts(applyQueue)' = Contexts(applyQueue')
    BY SMTT(30) DEF Contexts, Operations
  <2> QED
    BY SMTT(30), <1>1, <1>2, <2>1, ContextsTail DEF IInv, Ownership
<1>4. op.context = NoContext \/ op.context \in Contexts(applyQueue)
  BY SMTT(30), <1>1 DEF Contexts, Operations
<1>5. /\ op.context \notin pending_promise_
      /\ op.context \notin Contexts(operations)
      /\ NoContext \notin accounted
  BY Zenon, <1>4, ProposalsAssumption DEF IInv, Ownership, TypeOK, PromiseType, Contexts
<1>6. /\ accounted' = accounted \ {op.context}
      /\ accounted' \subseteq Proposals
      /\ pending_proposals_' \in Nat
      /\ pending_proposals_' = Cardinality(accounted')
  BY <1>2, ReleaseExact DEF IInv, TypeOK, PromiseType, AccountingExact
<1>7. CallerType' /\ StopType' /\ RaftType' /\ NodeType' /\ NodeOrder'
  BY ZenonT(30), <1>2 DEF IInv, TypeOK, CallerType, StopType, RaftType, NodeType,
         NodeOrder, callerVars, stopVars, raftVars, nodeVars
<1>8. ApplyType'
  BY SMTT(30), <1>1, <1>2 DEF IInv, TypeOK, ApplyType
<1>9. PromiseType' /\ FlagType'
  BY SMTT(30), <1>2, <1>6 DEF IInv, TypeOK, PromiseType, FlagType, stopVars, nodeVars
<1>10. Contexts(operations)' = Contexts(operations)
  BY SMTT(30), <1>2 DEF Contexts, Operations, raftVars
<1>11. AccountingExact'
  BY SMTT(30), <1>2, <1>3, <1>5, <1>6, <1>10 DEF IInv, AccountingExact
<1>12. Ownership'
  <2>1. Distinct(operations') /\ Distinct(applyQueue')
    BY ZenonT(30), <1>1, <1>2, DistinctTail DEF IInv, Ownership, raftVars
  <2> QED
    BY ZenonT(30), <1>2, <1>3, <1>6, <1>10, <2>1 DEF IInv, Ownership, Distinct, callerVars
<1>13. Applying'
  BY ZenonT(30), <1>2 DEF Applying
<1>14. NoLostPromise'
  BY SMTT(30), <1>1, <1>2, <1>6, ProposalsAssumption DEF IInv, NoLostPromise, callerVars
<1> QED
  BY SMTT(30), <1>7, <1>8, <1>9, <1>11, <1>12, <1>13, <1>14 DEF IInv, TypeOK

\* The barrier of WaitForIdle carries no context.
LEMMA ApplyBarrierIInv ==
    ASSUME IInv, RunApplyBarrier
    PROVE  IInv'
<1> USE DEF RunApplyBarrier
<1>1. applyQueue \in Seq(Task) /\ applyQueue # <<>> /\ Head(applyQueue) = Barrier
  BY Zenon DEF IInv, TypeOK, ApplyType, Task
<1>2. Contexts(applyQueue)' = Contexts(applyQueue)
  <2>1. Contexts(applyQueue)' = Contexts(applyQueue')
    BY Zenon DEF Contexts, Operations
  <2> QED
    BY Zenon, <1>1, <2>1, ContextsTail DEF IInv, Ownership
<1>3. Distinct(applyQueue')
  BY ZenonT(30), <1>1, DistinctTail DEF IInv, Ownership
<1>4. PromiseType' /\ CallerType' /\ RaftType' /\ NodeType' /\ FlagType' /\ NodeOrder'
  BY Zenon DEF IInv, TypeOK, PromiseType, CallerType, RaftType, NodeType, FlagType, NodeOrder,
         promiseVars, callerVars, raftVars, nodeVars
<1>5. StopType' /\ ApplyType'
  <2>1. applyQueue' \in Seq(Task)
    BY ZenonT(30), <1>1, TailType
  <2> QED
    BY Zenon, <2>1 DEF IInv, TypeOK, StopType, ApplyType, Task
<1>6. Contexts(operations)' = Contexts(operations)
  BY ZenonT(30) DEF Contexts, Operations, raftVars
<1>7. AccountingExact' /\ NoLostPromise' /\ Applying'
  BY ZenonT(30), <1>2, <1>6 DEF IInv, AccountingExact, NoLostPromise, Applying, promiseVars,
                    callerVars
<1>8. Ownership'
  BY ZenonT(30), <1>2, <1>3, <1>6 DEF IInv, Ownership, Distinct, promiseVars, callerVars, raftVars
<1> QED
  BY Zenon, <1>4, <1>5, <1>7, <1>8 DEF IInv, TypeOK

\* Posting the barrier to the apply service.
LEMMA StopWaitApplyIInv ==
    ASSUME IInv, StopWaitApply
    PROVE  IInv'
<1> USE DEF StopWaitApply
<1>1. applyQueue \in Seq(Task) /\ Barrier \in Task
  BY Zenon DEF IInv, TypeOK, ApplyType, Task
<1>2. Contexts(applyQueue)' = Contexts(applyQueue)
  <2>1. Contexts(applyQueue)' = Contexts(applyQueue')
    BY Zenon DEF Contexts, Operations
  <2> QED
    BY Zenon, <1>1, <2>1, ContextsBarrier
<1>3. Distinct(applyQueue')
  BY Zenon, <1>1, DistinctAppend DEF IInv, Ownership
<1>4. PromiseType' /\ CallerType' /\ RaftType' /\ NodeType' /\ FlagType' /\ NodeOrder'
  BY Zenon DEF IInv, TypeOK, PromiseType, CallerType, RaftType, NodeType, FlagType, NodeOrder,
         promiseVars, callerVars, raftVars, nodeVars
<1>5. StopType' /\ ApplyType'
  <2>1. applyQueue' \in Seq(Task)
    BY ZenonT(30), <1>1, AppendType
  <2> QED
    BY Zenon, <2>1 DEF IInv, TypeOK, StopType, ApplyType, Task
<1>6. Contexts(operations)' = Contexts(operations)
  BY ZenonT(30) DEF Contexts, Operations, raftVars
<1>7. AccountingExact' /\ NoLostPromise'
  BY ZenonT(30), <1>2, <1>6 DEF IInv, AccountingExact, NoLostPromise, promiseVars, callerVars
<1>8. Ownership'
  BY ZenonT(30), <1>2, <1>3, <1>6 DEF IInv, Ownership, Distinct, promiseVars, callerVars, raftVars
<1>9. Applying'
  <2>1. applyQueue # <<>> => applyQueue' # <<>> /\ Head(applyQueue') = Head(applyQueue)
    BY ZenonT(30), <1>1, AppendType
  <2> QED
    BY Zenon, <2>1 DEF IInv, Applying
<1> QED
  BY Zenon, <1>4, <1>5, <1>7, <1>8, <1>9 DEF IInv, TypeOK

\* The steps of Stop() that hold no context, and the raft service's barrier.
LEMMA StopIInv ==
    ASSUME IInv, RunRaftBarrier \/ StopBegin \/ StopReject \/ StopWaitRaft \/ StopClose
    PROVE  IInv'
<1> USE DEF RunRaftBarrier, StopBegin, StopReject, StopWaitRaft, StopClose
<1>1. CallerType' /\ NodeType' /\ ApplyType' /\ NodeOrder'
  BY ZenonT(30) DEF IInv, TypeOK, CallerType, NodeType, ApplyType, NodeOrder,
         callerVars, nodeVars, applyVars
<1>2. FlagType'
  BY ZenonT(30) DEF IInv, TypeOK, FlagType, nodeVars
<1>3. StopType'
  BY ZenonT(30) DEF IInv, TypeOK, StopType
<1>4. RaftType'
  <2> DEFINE T == Proposals \cup {Barrier}
  <2>1. raftQueue \in Seq(T) /\ Barrier \in T
    BY ZenonT(30) DEF IInv, TypeOK, RaftType
  <2>2. raftQueue' \in Seq(T)
    <3> HIDE DEF T
    <3> QED
      BY ZenonT(30), <2>1, AppendType, TailType DEF raftVars
  <2> QED
    BY ZenonT(30), <2>2 DEF IInv, TypeOK, RaftType, raftVars
<1>5. /\ PromiseType'
      /\ AccountingExact' /\ Ownership' /\ Applying' /\ NoLostPromise'
  <2>1. UNCHANGED <<operations, applyQueue, applyThread, caller>>
    BY ZenonT(30) DEF callerVars, raftVars, applyVars
  <2>2. CASE UNCHANGED <<promiseVars, applied>>
    <3>1. Forward
      BY ZenonT(30), <2>1, <2>2 DEF Forward
    <3>2. PromiseType'
      BY ZenonT(30), <2>2 DEF IInv, TypeOK, PromiseType, promiseVars
    <3> QED
      BY ZenonT(30), <2>1, <2>2, <3>1, <3>2, Untouched DEF promiseVars
  <2>3. CASE RejectPendingPromises("RaftUnavailable")
    <3>1. "RaftUnavailable" \in Errors
      BY Zenon DEF Errors
    <3> QED
      BY ZenonT(30), <2>1, <2>3, <3>1, RejectAll
  <2> QED
    BY ZenonT(30), <2>2, <2>3
<1> QED
  BY ZenonT(30), <1>1, <1>2, <1>3, <1>4, <1>5 DEF IInv, TypeOK

-----------------------------------------------------------------------------
\* Every step of the driver preserves the inductive invariant.
LEMMA NextIInv ==
    ASSUME IInv, [Next]_vars
    PROVE  IInv'
<1>1. CASE Next
  <2>1. CASE \E p \in Proposals : Propose(p)
    BY <2>1, ProposeIInv, Zenon
  <2>2. CASE \E p \in Proposals : WaitForApplied(p)
    BY <2>2, WaitIInv, Zenon
  <2>3. CASE StepCommit \/ StepElected \/ StepFollow
    BY <2>3, StepIInv, Zenon
  <2>4. CASE RaftTask
    BY <2>4, RunProposalIInv, StopIInv DEF RaftTask
  <2>5. CASE CheckReady
    BY <2>5, PrepareIInv, PostApplyIInv DEF CheckReady
  <2>6. CASE ApplyTask
    BY Zenon, <2>6, ApplyIInv, ApplyReleaseIInv, ApplyBarrierIInv DEF ApplyTask
  <2>7. CASE StopBegin \/ Stop
    BY <2>7, StopIInv, StopWaitApplyIInv DEF Stop
  <2> QED
    BY SMTT(30), <1>1, <2>1, <2>2, <2>3, <2>4, <2>5, <2>6, <2>7 DEF Next
<1>2. CASE UNCHANGED vars
  <2>1. PromiseType' /\ CallerType' /\ StopType' /\ RaftType' /\ NodeType' /\ ApplyType'
        /\ FlagType' /\ NodeOrder'
    BY ZenonT(30), <1>2 DEF IInv, TypeOK, PromiseType, CallerType, StopType, RaftType, NodeType,
         ApplyType, FlagType, NodeOrder, vars, promiseVars, callerVars, stopVars,
         raftVars, nodeVars, applyVars
  <2>2. Forward
    BY <1>2, Zenon DEF Forward, vars, callerVars
  <2> QED
    BY <1>2, <2>1, <2>2, Untouched
       DEF IInv, TypeOK, vars, promiseVars, raftVars, applyVars
<1> QED
  BY <1>1, <1>2

\* The fields of the driver keep their types under every interleaving of the
\* proposing threads, the raft thread, the apply thread and Stop().
THEOREM TypeCorrect == Spec => []TypeOK
<1>1. IInv => TypeOK
  BY Zenon DEF IInv
<1> QED
  BY InitIInv, NextIInv, <1>1, PTL DEF Spec

\* The proposal accounting is exact: whatever the order of timeout, rejection,
\* apply and Stop(), a context counts once while some queue of the driver holds
\* it and is released exactly once.
THEOREM AccountingIsExact == Spec => []AccountingExact
<1>1. IInv => AccountingExact
  BY Zenon DEF IInv
<1> QED
  BY InitIInv, NextIInv, <1>1, PTL DEF Spec

\* No promise is lost: a caller whose promise is not set still has its context
\* in the driver, so a later step of a driver thread can answer it.
THEOREM PromisesAreKept == Spec => []NoLostPromise
<1>1. IInv => NoLostPromise
  BY Zenon DEF IInv
<1> QED
  BY InitIInv, NextIInv, <1>1, PTL DEF Spec
=============================================================================
