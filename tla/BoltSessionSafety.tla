-------------------------- MODULE BoltSessionSafety --------------------------
EXTENDS BoltSessionProofs


\* A step of a handler that leaves what the session holds alone
LEMMA SessionGoesOn ==
  ASSUME SessionInv, OrderInv, OrderInv', Work, query' = query, tx' = tx, token' = token,
         state' \in States, left' \in Int, Doing', pc' = "end" /\ ~HasInterrupt' => Matches'
  PROVE  SessionInv'
<1>1. Numbered'
  BY NumberedWork, Zenon
<1>2. SessionType' /\ SameToken'
  BY Zenon DEF SessionInv, SessionType, SameToken
<1>3. pc' \notin {"idle", "dispatch"}
  BY Zenon DEF Work, Active
<1> QED
  BY <1>1, <1>2, <1>3, Zenon DEF SessionInv

\* PULL and DISCARD take rows from a cursor that the session holds.
LEMMA SessionPull ==
  ASSUME SessionInv, InterruptInv, OrderInv, OrderInv', Work,
         ProcessPullOrDiscard \/ PullRow \/ PeekRow
  PROVE  SessionInv'
<1>.  cur' = cur /\ reqs' = reqs
  BY Zenon DEF Work
<1>1. CASE FailSession
  BY <1>1, SessionGivenUp, Zenon
<1>2. CASE Interrupted /\ Ignore
  BY <1>2, SessionGivenUp, Zenon
<1>a. state \in States /\ left \in Int
  BY Zenon DEF SessionInv, SessionType
<1>3. CASE ProcessPullOrDiscard /\ ~FailSession
  <2>1. /\ pc = "dispatch" /\ ~HasInterrupt /\ Kind(cur) = "Pull" /\ "Pull" \in Allowed
        /\ pc' = "pull" /\ left' = reqs[cur].n /\ state' = state /\ query' = query /\ tx' = tx
        /\ token' = token /\ Known
    BY <1>3, Zenon DEF ProcessPullOrDiscard, Executing, Dispatching, Goto, intVars, session
  <2>2. state \in {"STREAMING", "TX_STREAMING"}
    BY <2>1, Zenon DEF Allowed, SessionInv, SessionType, States
  <2>3. (InTx /\ query = NoQuery) \/ OwnQuery
    BY <2>1, <2>2, Zenon DEF SessionInv, Matches, OwnQuery
  <2>4. InTx => Qid \in DOMAIN tx.queries
    BY <2>1, Zenon DEF Known
  <2>5. Doing'
    BY <2>1, <2>3, <2>4, Zenon DEF Doing, OwnQuery, InTx, Qid, Kind
  <2>6. left' \in Int
    <3>1. reqs[cur] \in Request
      BY <2>1 DEF OrderInv, OrderType, Active
    <3> QED
      BY <2>1, <3>1 DEF Request
  <2> QED
    BY <1>a, <2>1, <2>5, <2>6, SessionGoesOn, Zenon
<1>b. ASSUME pc = "pull" PROVE /\ Kind(cur) = "Pull"
                               /\ (InTx /\ query = NoQuery /\ Qid \in DOMAIN tx.queries) \/ OwnQuery
  BY <1>b, Zenon DEF SessionInv, Doing
<1>4. CASE pc = "pull" /\ pc' = "pulled" /\ UNCHANGED <<left, session, intVars>>
  <2>1. Doing'
    BY <1>4, <1>b, Zenon DEF Doing, OwnQuery, InTx, Qid, Kind, session
  <2> QED
    BY <1>a, <1>4, <2>1, SessionGoesOn, Zenon DEF session, intVars
<1>5. CASE /\ pc = "pull" /\ Rows > 0 /\ TakeRow /\ pc' = pc /\ state' = state
           /\ left' = (IF left > 0 THEN left - 1 ELSE left) /\ UNCHANGED intVars
  <2>.  left' \in Int /\ token' = token
    BY <1>5 DEF intVars
  <2>1. CASE InTx
    <3> DEFINE fewer == [tx.queries EXCEPT ![Qid] = Shorter(@)]
    <3>1. /\ query' = query /\ tx' = Tx(tx.id, fewer, tx.next)
          /\ query = NoQuery /\ Qid \in DOMAIN tx.queries /\ tx.queries[Qid].rows > 0
      BY <1>5, <1>b, <2>1, NothingHeld, Zenon DEF TakeRow, OwnQuery, InTx, Rows, None
    <3>2. tx'.id = tx.id /\ tx'.queries = fewer /\ tx'.next = tx.next
      BY <3>1, Zenon DEF Tx
    <3>3. tx.queries[Qid] \in Queries /\ tx.queries[Qid].token = token
      BY <3>1, Zenon DEF SessionInv, SessionType, SameToken
    <3>4. Shorter(tx.queries[Qid]) \in Queries /\ Shorter(tx.queries[Qid]).token = token
      BY <3>1, <3>3, BoltAssumption DEF Queries, Shorter, Query
    <3>5. /\ DOMAIN tx'.queries = DOMAIN tx.queries
          /\ \A q \in DOMAIN tx.queries :
                tx'.queries[q] = IF q = Qid THEN Shorter(tx.queries[Qid]) ELSE tx.queries[q]
      BY <3>2, Zenon
    <3> HIDE DEF fewer
    <3>6. SessionType' /\ SameToken'
      BY <1>5, <3>1, <3>2, <3>4, <3>5, Zenon DEF SessionInv, SessionType, SameToken
    <3>7. Doing'
      BY <1>5, <1>b, <2>1, <3>1, <3>2, <3>5, Zenon DEF Doing, InTx, Qid, Kind
    <3>8. Numbered'
      BY <3>2, NumberedWork, Zenon
    <3> QED
      BY <1>5, <3>6, <3>7, <3>8, Zenon DEF SessionInv
  <2>2. CASE ~InTx
    <3>1. query' = Shorter(query) /\ tx' = tx /\ OwnQuery /\ query.rows > 0
      BY <1>5, <1>b, <2>2, Zenon DEF TakeRow, Rows
    <3>2. query \in Queries /\ query.token = token
      BY <3>1, NothingHeld, Zenon DEF SessionInv, SessionType, SameToken, OwnQuery, None
    <3>3. query' \in Queries /\ query'.token = token /\ query'.own = query.own
      BY <3>1, <3>2, BoltAssumption DEF Queries, Shorter, Query
    <3>4. SessionType' /\ SameToken'
      BY <1>5, <3>1, <3>3, Zenon DEF SessionInv, SessionType, SameToken
    <3>5. Doing'
      BY <1>5, <1>b, <3>1, <3>3, Zenon DEF Doing, OwnQuery, Kind
    <3>6. Numbered'
      BY <3>1, NumberedWork, Zenon
    <3> QED
      BY <1>5, <3>4, <3>5, <3>6 DEF SessionInv
  <2> QED
    BY <2>1, <2>2, Zenon
<1> QED
  BY <1>1, <1>2, <1>3, <1>4, <1>5, Zenon DEF PullRow, PeekRow, Goto

\* The end of a PULL keeps the cursor, or gives it up, or goes on to commit.
LEMMA SessionPulled ==
  ASSUME SessionInv, InterruptInv, OrderInv, OrderInv', Work, PullDone
  PROVE  SessionInv'
<1>.  /\ cur' = cur /\ reqs' = reqs /\ pc = "pulled" /\ left \in Int
      /\ Kind(cur) = "Pull"
      /\ (InTx /\ query = NoQuery /\ Qid \in DOMAIN tx.queries) \/ OwnQuery
  BY Zenon DEF Work, PullDone, SessionInv, SessionType, Doing
<1>1. CASE Interrupted /\ Ignore
  BY <1>1, SessionGivenUp, Zenon
<1>2. CASE /\ state' = (IF InTx THEN "TX_STREAMING" ELSE "STREAMING") /\ pc' = "end"
           /\ UNCHANGED <<left, query, tx, fate, intVars>>
  <2>1. Matches' /\ Doing' /\ state' \in States
    BY <1>2, NothingHeld, Zenon DEF Matches, Doing, OwnQuery, InTx, None, States
  <2> QED
    BY <1>2, <2>1, SessionGoesOn, Zenon DEF intVars
<1>3. CASE /\ InTx /\ pc' = "end"
           /\ tx' = Tx(tx.id, [q \in DOMAIN tx.queries \ {Qid} |-> tx.queries[q]], tx.next)
           /\ state' = (IF DOMAIN tx.queries = {Qid} THEN "TX_READY" ELSE "TX_STREAMING")
           /\ UNCHANGED <<left, query, fate, intVars>>
  <2>1. /\ tx'.id = tx.id /\ tx'.next = tx.next /\ DOMAIN tx'.queries = DOMAIN tx.queries \ {Qid}
        /\ \A q \in DOMAIN tx'.queries : tx'.queries[q] = tx.queries[q]
    BY <1>3, Zenon DEF Tx
  <2>2. query = NoQuery /\ Qid \in DOMAIN tx.queries
    BY <1>3, NothingHeld, Zenon DEF OwnQuery, InTx, None
  <2>3. Numbered'
    BY <2>1, NumberedWork, Zenon
  <2>4. SessionType' /\ SameToken'
    BY <1>3, <2>1, <2>2, Zenon DEF SessionInv, SessionType, SameToken, States, intVars
  <2>5. Doing'
    BY <1>3, Zenon DEF Doing
  <2>6. Matches'
    BY <1>3, <2>1, <2>2, Zenon DEF Matches, InTx
  <2> QED
    BY <2>3, <2>4, <2>5, <2>6, Zenon DEF SessionInv
<1>4. CASE ~InTx /\ pc' = "commit" /\ UNCHANGED <<left, session, intVars>>
  <2>1. Doing' /\ state' \in States
    BY <1>4, Zenon DEF Doing, OwnQuery, Kind, session, SessionInv, SessionType
  <2> QED
    BY <1>4, <2>1, SessionGoesOn, Zenon DEF session, intVars
<1> QED
  BY <1>1, <1>2, <1>3, <1>4, Zenon DEF PullDone, Goto

\* COMMIT, ROLLBACK, the commit of a query's own transaction, and the requests
\* that are refused
LEMMA SessionEnds ==
  ASSUME SessionInv, InterruptInv, OrderInv, OrderInv', Work,
         \/ StartCommit \/ Commit \/ ProcessRollback
         \/ DispatchFailed \/ DispatchUnexpected \/ ProcessRoute
  PROVE  SessionInv'
<1>.  cur' = cur /\ reqs' = reqs /\ left \in Int /\ state \in States
  BY Zenon DEF Work, SessionInv, SessionType
<1>1. CASE FailSession
  BY <1>1, SessionGivenUp, Zenon
<1>2. CASE Interrupted /\ Ignore
  BY <1>2, SessionGivenUp, Zenon
<1>3. CASE StartCommit /\ ~FailSession /\ ~Interrupted
  <2>1. /\ pc = "dispatch" /\ ~HasInterrupt /\ "Commit" \in Allowed /\ pc' = "commit"
        /\ left' = left /\ state' = state /\ query' = query /\ tx' = tx /\ token' = token
    BY <1>3, Zenon DEF StartCommit, Executing, Dispatching, Goto, session, intVars
  <2>2. state = "TX_READY"
    BY <2>1, Zenon DEF Allowed, States
  <2>3. InTx /\ query = NoQuery
    BY <2>1, <2>2, Zenon DEF SessionInv, Matches
  <2>4. Doing'
    BY <2>1, <2>3, Zenon DEF Doing, InTx
  <2> QED
    BY <2>1, <2>4, SessionGoesOn, Zenon
<1>4. CASE Commit /\ ~FailSession
  <2>1. /\ Aborted' /\ pc' = "end" /\ left' = left /\ interrupts' = interrupts
        /\ (Interrupted /\ state' = state) \/ state' \in {"READY", "FAILED"}
    BY <1>4, Zenon DEF Commit, Settled, Aborted, Goto, intVars
  <2>2. ~HasInterrupt' => state' \in {"READY", "FAILED"}
    BY <2>1, InterruptedHas, Zenon DEF HasInterrupt
  <2> QED
    BY <2>1, <2>2, SessionAborted, Zenon DEF States
<1>5. CASE (ProcessRollback /\ ~FailSession /\ ~Interrupted) \/ DispatchUnexpected
  <2>1. Aborted' /\ pc' = "end" /\ left' = left /\ state' \in {"READY", "DEFUNCT"}
    BY <1>5, Zenon DEF ProcessRollback, DispatchUnexpected, CloseProtocolError, AbortSession, Aborted, Goto
  <2> QED
    BY <2>1, SessionAborted, Zenon DEF States
<1>6. CASE DispatchFailed \/ (ProcessRoute /\ ~FailSession)
  <2>1. /\ pc = "dispatch" /\ ~HasInterrupt /\ pc' = "end"
        /\ left' = left /\ state' = state /\ query' = query /\ tx' = tx /\ token' = token
    BY <1>6, Zenon DEF DispatchFailed, ProcessRoute, Executing, Dispatching, Goto, session, intVars
  <2>2. Matches
    BY <2>1, Zenon DEF SessionInv
  <2>3. Doing' /\ Matches'
    BY <2>1, <2>2, Zenon DEF Doing, Matches, Aborted, InTx
  <2> QED
    BY <2>1, <2>3, SessionGoesOn, Zenon
<1> QED
  BY <1>1, <1>2, <1>3, <1>4, <1>5, <1>6, Zenon DEF StartCommit, ProcessRollback

\* What is known of the session is kept by every step.
LEMMA SessionNext ==
  ASSUME SessionInv, TokenInv, InterruptInv, OrderInv, [Next]_vars PROVE SessionInv'
<1>.  interrupts \in Nat /\ OrderInv' /\ left \in Int /\ state \in States
  BY OrderNext DEF InterruptInv, SessionInv, SessionType
<1>1. CASE Handler
  <2>1. Work
    BY <1>1, HandlersWork, Zenon
  <2> QED
    BY <1>1, <2>1, SessionReset, SessionBegin, SessionRun, SessionPull, SessionPulled,
       SessionEnds, Zenon DEF Handler
<1>2. CASE StartTask
  <2>1. /\ closed' = closed /\ interrupts' = interrupts /\ token' = token
        /\ left' = left /\ state' = state /\ query' = query /\ tx' = tx
        /\ out' = out /\ io_tasks' = io_tasks
        /\ pc = "idle" /\ pc' \in {"abort", "dispatch"} /\ (pc' = "dispatch" => ~closed)
    BY <1>2, Zenon DEF StartTask, ioVars, intVars, session
  <2>2. Posted' = Posted /\ (pc' = "dispatch" => cur' = Posted + 1)
    BY <2>1, Zenon DEF OrderInv, InOrder, Active, Posted
  <2>3. Posted \in Nat
    BY DEF OrderInv, OrderType, Posted
  <2>4. Numbered'
    BY <2>1, <2>2, <2>3 DEF SessionInv, SessionType, Numbered, Active
  <2>5. SessionType' /\ SameToken' /\ Doing'
    BY <2>1, Zenon DEF SessionInv, SessionType, SameToken, Doing
  <2>6. ~HasInterrupt' => Matches'
    BY <2>1, Zenon DEF SessionInv, HasInterrupt, Matches, Aborted, InTx
  <2> QED
    BY <2>4, <2>5, <2>6, Zenon DEF SessionInv
<1>3. CASE EndTask
  <2>1. /\ closed' = closed /\ interrupts' = interrupts /\ token' = token
        /\ left' = left /\ state' = state /\ query' = query /\ tx' = tx
        /\ out' = out /\ io_tasks' = io_tasks /\ pc = "end" /\ pc' \in {"abort", "idle"}
    BY <1>3, Zenon DEF EndTask, ioVars, intVars, session, Goto
  <2>2. SessionType' /\ SameToken' /\ Doing'
    BY <2>1, Zenon DEF SessionInv, SessionType, SameToken, Doing
  <2>3. Numbered'
    BY <2>1, Zenon DEF SessionInv, Numbered, Active, Posted
  <2>4. ~HasInterrupt' => Matches'
    BY <2>1, Zenon DEF SessionInv, HasInterrupt, Matches, Aborted, InTx
  <2> QED
    BY <2>2, <2>3, <2>4, Zenon DEF SessionInv
<1>4. CASE AbortTask
  <2>1. /\ pc = "abort" /\ pc' = "idle" /\ Aborted' /\ left' = left /\ state' = state
        /\ interrupts' = interrupts
    BY <1>4, Zenon DEF AbortTask, AbortSession, Aborted, Goto, intVars
  <2>2. closed
    BY <2>1, Zenon DEF OrderInv, InOrder
  <2>3. HasInterrupt'
    BY <2>1, <2>2 DEF InterruptInv, HasInterrupt
  <2> QED
    BY <2>1, <2>3, SessionAborted, Zenon
<1>5. CASE Io \/ StopPool \/ UNCHANGED vars
  <2>1. /\ left' = left /\ state' = state /\ query' = query /\ tx' = tx /\ token' = token
        /\ pc' = pc /\ cur' = cur /\ (closed => closed')
        /\ interrupts' \in {interrupts, interrupts + 1}
    BY <1>5 DEF Io, ReadRequest, EnqueueReset, EnqueueAbort, Disconnect, IoTask, StopPool, vars,
                Close, CountInterrupt, ioVars, intVars, strand, session
  <2>2. HasInterrupt => HasInterrupt'
    BY <2>1 DEF HasInterrupt
  <2>3. pc \in Active => reqs'[cur] = reqs[cur]
    <3>1. CASE ReadRequest
      <4>1. reqs \in Seq(Request) /\ (pc \in Active => cur \in 1 .. Len(reqs))
        BY Zenon DEF OrderInv, OrderType
      <4>2. PICK r \in Request : reqs' = Append(reqs, r)
        BY <3>1, Zenon DEF ReadRequest
      <4> QED
        BY <4>1, <4>2
    <3>2. CASE ~ReadRequest
      BY <1>5, <3>2, Zenon DEF Io, EnqueueReset, EnqueueAbort, Disconnect, IoTask, StopPool, vars, ioVars
    <3> QED
      BY <3>1, <3>2, Zenon
  <2> QED
    BY <2>1, <2>2, <2>3, SessionSame, Zenon
<1> QED
  BY <1>1, <1>2, <1>3, <1>4, <1>5, Zenon DEF Next, Strand, Handler

-----------------------------------------------------------------------------
(* What became of the transactions.                                        *)

Fates == [st : {"none", "active", "rolledback", "committed", "late"}, by : 0..MaxRequests]

\* While the connection is open, only requests that were dispatched have begun
\* a transaction, and only requests that were answered have ended one.
Dated == ~closed => \A t \in 1 .. MaxRequests : /\ fate[t].st # "none" => t <= Dispatched
                                               /\ fate[t].by <= Posted

\* What the session or a BEGIN holds is active, and what is active is held.
HeldIsActive ==
    /\ tx.id # None => fate[tx.id].st = "active"
    /\ query.own # None => fate[query.own].st = "active"
    /\ pc = "dispatch" => fate[cur].st = "none"
    /\ pc = "begun" => fate[cur].st = "active"

FateInv ==
    /\ fate \in [1 .. MaxRequests -> Fates]
    /\ Dated /\ HeldIsActive /\ NoLeakedTransaction

\* The step commits nothing, and takes back no commit.
NoCommit == \A t \in 1 .. MaxRequests :
               fate[t].st = "committed" \/ fate'[t].st = "committed" => fate'[t] = fate[t]

\* A new connection has begun no transaction.
LEMMA FateInit == ASSUME Init PROVE FateInv
<1>.  /\ fate = [i \in 1..MaxRequests |-> Fate("none", None)] /\ tx = NoTx /\ query = NoQuery
      /\ pc = "idle"
  BY Zenon DEF Init
<1>1. Fate("none", None) \in Fates /\ Fate("none", None).st = "none" /\ Fate("none", None).by = 0
  BY BoltAssumption DEF Fate, Fates, None
<1>2. fate \in [1 .. MaxRequests -> Fates] /\ \A t \in 1 .. MaxRequests : fate[t] = Fate("none", None)
  BY <1>1, Zenon
<1>3. Dated
  BY <1>1 DEF Dated, Posted, Init
<1>4. HeldIsActive
  BY NothingHeld, Zenon DEF HeldIsActive, None
<1>5. NoLeakedTransaction
  BY <1>1, <1>2, Zenon DEF NoLeakedTransaction
<1> QED
  BY <1>2, <1>3, <1>4, <1>5, Zenon DEF FateInv

\* Where a handler of an open connection takes its request
LEMMA WorkPosted ==
  ASSUME OrderInv, OrderInv', Work, ~closed
  PROVE  /\ Posted \in Nat /\ cur = Posted + 1 /\ Dispatched \in {Posted, cur} /\ Dispatched' = cur
         /\ Posted' = IF pc' = "end" THEN cur ELSE Posted
<1>1. Posted \in Nat /\ Posted' \in Nat /\ pc \in Active /\ pc' \in (Active \ {"dispatch"}) \cup {"end"}
  BY DEF OrderInv, OrderType, Posted, Work
<1>2. cur = Posted + 1
  BY <1>1, Zenon DEF OrderInv, InOrder
<1>5. Dispatched' = cur
  BY <1>2, WorkDispatched, Zenon
<1>3. Dispatched \in {Posted, cur}
  BY <1>1, <1>2 DEF Dispatched
<1>4. Posted' = IF pc' = "end" THEN cur ELSE Posted
  <2>.  Len(out) \in Nat /\ Len(io_tasks) \in Nat /\ Len(out') \in Nat /\ Len(io_tasks') \in Nat
    BY DEF OrderInv, OrderType
  <2>1. CASE pc' = "end"
    BY <1>5, <2>1 DEF Dispatched, Active, Posted
  <2>2. CASE pc' # "end"
    BY <1>1, <1>2, <1>5, <2>2 DEF Dispatched, Posted
  <2> QED
    BY <2>1, <2>2, Zenon
<1> QED
  BY <1>1, <1>2, <1>3, <1>4, <1>5, Zenon

\* What a rollback does to one transaction
LEMMA RolledBackFacts ==
  ASSUME fate \in [1 .. MaxRequests -> Fates], NEW S
  PROVE  /\ RolledBack(S) \in [1 .. MaxRequests -> Fates]
         /\ \A t \in 1 .. MaxRequests :
               /\ RolledBack(S)[t].by = fate[t].by
               /\ fate[t].st = "none" <=> RolledBack(S)[t].st = "none"
               /\ RolledBack(S)[t].st = "active" <=> fate[t].st = "active" /\ t \notin S
               /\ fate[t].st # "active" => RolledBack(S)[t] = fate[t]
               /\ RolledBack(S)[t].st = "committed" => RolledBack(S)[t] = fate[t]
<1>1. /\ DOMAIN fate = 1 .. MaxRequests
      /\ RolledBack(S) = [t \in 1 .. MaxRequests |-> IF t \in S /\ fate[t].st = "active"
                                                     THEN Fate("rolledback", fate[t].by) ELSE fate[t]]
  BY Zenon DEF RolledBack
<1>2. ASSUME NEW t \in 1 .. MaxRequests
      PROVE  /\ fate[t] \in Fates /\ Fate("rolledback", fate[t].by) \in Fates
             /\ Fate("rolledback", fate[t].by).st = "rolledback"
             /\ Fate("rolledback", fate[t].by).by = fate[t].by
  BY Zenon DEF Fates, Fate
<1>3. RolledBack(S) \in [1 .. MaxRequests -> Fates]
  BY <1>1, <1>2, Zenon
<1>4. \A t \in 1 .. MaxRequests :
         RolledBack(S)[t] = IF t \in S /\ fate[t].st = "active"
                            THEN Fate("rolledback", fate[t].by) ELSE fate[t]
  BY <1>1, Zenon
<1> QED
  BY <1>2, <1>3, <1>4, Zenon

\* A handler dates what it begins or ends with the request that it runs.
LEMMA DatedWork ==
  ASSUME OrderInv, OrderInv', Work, Dated,
         fate \in [1 .. MaxRequests -> Fates], fate' \in [1 .. MaxRequests -> Fates],
         \A t \in 1 .. MaxRequests :
            /\ fate'[t].st # "none" => fate[t].st # "none" \/ t = cur
            /\ fate'[t].by \in {fate[t].by, 0} \/ (fate'[t].by = cur /\ pc' = "end")
  PROVE  Dated'
<1> SUFFICES ASSUME ~closed, NEW t \in 1 .. MaxRequests
             PROVE  (fate'[t].st # "none" => t <= Dispatched') /\ fate'[t].by <= Posted'
  BY Zenon DEF Dated, Work
<1>1. /\ Posted \in Nat /\ cur = Posted + 1 /\ Dispatched \in {Posted, cur} /\ Dispatched' = cur
      /\ Posted' = IF pc' = "end" THEN cur ELSE Posted
  BY WorkPosted, Zenon
<1>2. fate[t].by \in Nat /\ (fate[t].st # "none" => t <= Dispatched) /\ fate[t].by <= Posted
  BY DEF Dated, Fates
<1>3. fate'[t].st # "none" => t <= Dispatched'
  BY <1>1, <1>2
<1>4. fate'[t].by <= Posted'
  BY <1>1, <1>2
<1> QED
  BY <1>3, <1>4, Zenon

\* What gives everything up rolls everything back, unless BEGIN holds it.
LEMMA FateAborted ==
  ASSUME FateInv, fate' = RolledBack({query.own, tx.id}), Aborted', Dated',
         pc # "begun", pc' \in {"idle", "end", "renew"}
  PROVE  FateInv'
<1>.  fate \in [1 .. MaxRequests -> Fates] /\ tx'.id = None /\ query'.own = None
  BY NothingHeld, Zenon DEF FateInv, Aborted, None
<1>1. /\ fate' \in [1 .. MaxRequests -> Fates]
      /\ \A t \in 1 .. MaxRequests :
            fate'[t].st = "active" <=> fate[t].st = "active" /\ t \notin {query.own, tx.id}
  BY RolledBackFacts, Zenon
<1>2. HeldIsActive'
  BY Zenon DEF HeldIsActive
<1>3. \A t \in 1 .. MaxRequests : fate'[t].st # "active"
  BY <1>1, Zenon DEF FateInv, NoLeakedTransaction
<1>4. NoLeakedTransaction'
  BY <1>1, <1>3, Zenon DEF NoLeakedTransaction
<1> QED
  BY <1>1, <1>2, <1>4, Zenon DEF FateInv

\* What gives everything up dates nothing.
LEMMA FateGivenUp ==
  ASSUME FateInv, OrderInv, OrderInv', Work, AbortSession,
         pc # "begun", pc' \in {"end", "renew"}
  PROVE  FateInv' /\ NoCommit
<1>.  fate' = RolledBack({query.own, tx.id}) /\ Aborted' /\ fate \in [1 .. MaxRequests -> Fates] /\ Dated
  BY Zenon DEF AbortSession, Aborted, FateInv
<1>1. /\ fate' \in [1 .. MaxRequests -> Fates]
      /\ \A t \in 1 .. MaxRequests : /\ fate[t].st = "none" <=> fate'[t].st = "none"
                                     /\ fate'[t].by = fate[t].by
      /\ NoCommit
  BY RolledBackFacts DEF NoCommit
<1>2. Dated'
  BY <1>1, DatedWork, Zenon
<1> QED
  BY <1>1, <1>2, FateAborted, Zenon

\* A handler that keeps what the session holds keeps what became of it.
LEMMA FateKept ==
  ASSUME FateInv, OrderInv, OrderInv', Work, fate' = fate,
         tx'.id = tx.id, query'.own = query.own, pc # "begun", pc' # "begun"
  PROVE  FateInv' /\ NoCommit
<1>.  fate \in [1 .. MaxRequests -> Fates] /\ Dated /\ pc' # "dispatch"
  BY Zenon DEF FateInv, Work, Active
<1>1. Dated'
  BY DatedWork, Zenon
<1>2. HeldIsActive' /\ NoLeakedTransaction'
  BY Zenon DEF FateInv, HeldIsActive, NoLeakedTransaction
<1> QED
  BY <1>1, <1>2, Zenon DEF FateInv, NoCommit

\* BEGIN, and a RUN outside a transaction, begin a transaction that the request
\* holds.
LEMMA FateBegun ==
  ASSUME FateInv, OrderInv, OrderInv', Work, pc = "dispatch",
         fate' = [fate EXCEPT ![cur] = Fate("active", None)],
         tx'.id = tx.id,
         \/ pc' = "begun" /\ query'.own = query.own
         \/ pc' = "ran" /\ query.own = None /\ query'.own = cur
  PROVE  FateInv' /\ NoCommit
<1>.  /\ fate \in [1 .. MaxRequests -> Fates] /\ Dated /\ cur \in 1 .. MaxRequests /\ cur' = cur
      /\ fate[cur].st = "none"
  BY DEF FateInv, Work, OrderInv, OrderType, Active, HeldIsActive
<1>1. /\ Fate("active", None) \in Fates /\ Fate("active", None).st = "active"
      /\ Fate("active", None).by = 0
  BY BoltAssumption DEF Fate, Fates, None
<1>2. /\ fate' \in [1 .. MaxRequests -> Fates]
      /\ \A t \in 1 .. MaxRequests : fate'[t] = IF t = cur THEN Fate("active", None) ELSE fate[t]
  BY <1>1, Zenon
<1>3. Dated' /\ NoCommit
  BY <1>1, DatedWork, Zenon DEF NoCommit
<1>4. HeldIsActive'
  <2>1. fate'[cur].st = "active"
    BY <1>1, <1>2, Zenon
  <2>2. tx.id # None => fate'[tx.id].st = "active"
    <3>1. tx.id # None => fate[tx.id].st = "active" /\ tx.id # cur
      BY Zenon DEF FateInv, HeldIsActive
    <3> QED
      BY <3>1
  <2>3. query.own # None => fate'[query.own].st = "active"
    <3>1. query.own # None => fate[query.own].st = "active" /\ query.own # cur
      BY Zenon DEF FateInv, HeldIsActive
    <3> QED
      BY <3>1
  <2> QED
    BY <2>1, <2>2, <2>3, Zenon DEF HeldIsActive
<1>5. NoLeakedTransaction'
  <2> SUFFICES ASSUME NEW t \in 1 .. MaxRequests, fate'[t].st = "active"
               PROVE  t \in {tx'.id, query'.own} \/ (pc' = "begun" /\ t = cur')
    BY <1>2, Zenon DEF NoLeakedTransaction
  <2>1. CASE t = cur
    BY <2>1, Zenon
  <2>2. CASE t # cur
    <3>1. fate[t].st = "active"
      BY <2>2, Zenon
    <3>2. t \in {tx.id, query.own}
      BY <3>1, Zenon DEF FateInv, NoLeakedTransaction
    <3>3. t # None
      BY DEF None
    <3> QED
      BY <3>2, <3>3, Zenon
  <2> QED
    BY <2>1, <2>2, Zenon
<1> QED
  BY <1>2, <1>3, <1>4, <1>5, Zenon DEF FateInv

\* The rest of BEGIN rolls its transaction back or hands it to the session.
LEMMA FateBeginDone ==
  ASSUME FateInv, SessionInv, OrderInv, OrderInv', Work, BeginDone PROVE FateInv' /\ NoCommit
<1>.  /\ pc = "begun" /\ pc' = "end" /\ query' = query /\ cur' = cur /\ cur \in 1 .. MaxRequests
      /\ fate \in [1 .. MaxRequests -> Fates] /\ Dated /\ fate[cur].st = "active"
  BY DEF BeginDone, Goto, FateInv, OrderInv, OrderType, Active, HeldIsActive
<1>1. tx.id = None /\ query.own = None
  BY NothingHeld, Zenon DEF SessionInv, Doing, Aborted, None
<1>2. \A t \in 1 .. MaxRequests : fate[t].st = "active" => t = cur
  BY <1>1 DEF FateInv, NoLeakedTransaction, None
<1>3. CASE Interrupted
  <2>1. fate' = RolledBack({cur}) /\ tx' = tx
    BY <1>3, Zenon DEF BeginDone
  <2>2. /\ fate' \in [1 .. MaxRequests -> Fates]
        /\ \A t \in 1 .. MaxRequests : /\ fate[t].st = "none" <=> fate'[t].st = "none"
                                       /\ fate'[t].by = fate[t].by
                                       /\ fate'[t].st = "active" <=> fate[t].st = "active" /\ t \notin {cur}
        /\ NoCommit
    BY <2>1, RolledBackFacts DEF NoCommit
  <2>3. Dated'
    BY <2>2, DatedWork, Zenon
  <2>4. HeldIsActive' /\ NoLeakedTransaction'
    BY <1>1, <1>2, <2>1, <2>2, Zenon DEF HeldIsActive, NoLeakedTransaction
  <2> QED
    BY <2>2, <2>3, <2>4, Zenon DEF FateInv
<1>4. CASE ~Interrupted
  <2>1. fate' = fate /\ tx' = Tx(cur, <<>>, 0)
    BY <1>4, Zenon DEF BeginDone
  <2>2. tx'.id = cur
    BY <2>1, Zenon DEF Tx
  <2>3. Dated'
    BY <2>1, DatedWork, Zenon
  <2>4. HeldIsActive' /\ NoLeakedTransaction'
    BY <1>1, <1>2, <2>1, <2>2, Zenon DEF HeldIsActive, NoLeakedTransaction
  <2> QED
    BY <2>1, <2>3, <2>4, Zenon DEF FateInv, NoCommit
<1> QED
  BY <1>3, <1>4, Zenon

\* A commit ends the one transaction that is active, whatever comes of it.
LEMMA FateSettled ==
  ASSUME FateInv, SessionInv, OrderInv, OrderInv', Work, pc = "commit", pc' = "end",
         NEW st \in {"committed", "late"}, Settled(st)
  PROVE  /\ FateInv' /\ Mine \in 1 .. MaxRequests /\ fate[Mine].st = "active"
         /\ \A t \in 1 .. MaxRequests : fate'[t] = IF t = Mine THEN Fate(st, cur) ELSE fate[t]
<1>.  /\ fate \in [1 .. MaxRequests -> Fates] /\ Dated /\ cur \in 1 .. MaxRequests
      /\ fate' = [fate EXCEPT ![Mine] = Fate(st, cur)] /\ tx' = NoTx /\ query' = NoQuery
  BY DEF FateInv, OrderInv, OrderType, Active, Settled
<1>1. /\ (InTx /\ query = NoQuery) \/ OwnQuery
      /\ tx.id \in 0 .. MaxRequests /\ query.own \in 0 .. MaxRequests
  BY Zenon DEF SessionInv, SessionType, Doing, Queries
<1>4. Mine \in 1 .. MaxRequests /\ fate[Mine].st = "active" /\ \A t \in 1 .. MaxRequests : fate[t].st = "active" => t = Mine
  <2>1. Mine \in 1 .. MaxRequests /\ fate[Mine].st = "active" /\ Mine \in {tx.id, query.own}
        /\ {tx.id, query.own} \subseteq {Mine, None}
    <3>1. CASE InTx /\ query = NoQuery
      <4>1. Mine = tx.id /\ query.own = None /\ tx.id # None
        BY <3>1, NothingHeld, Zenon DEF Mine, InTx, None
      <4> QED
        BY <1>1, <4>1 DEF FateInv, HeldIsActive, None
    <3>2. CASE OwnQuery
      <4>1. Mine = query.own /\ tx.id = None /\ query.own # None
        BY <3>2, NothingHeld, Zenon DEF Mine, InTx, None, OwnQuery
      <4> QED
        BY <1>1, <4>1 DEF FateInv, HeldIsActive, None
    <3> QED
      BY <1>1, <3>1, <3>2, Zenon
  <2> QED
    BY <2>1 DEF FateInv, NoLeakedTransaction, None
<1>5. Fate(st, cur) \in Fates /\ Fate(st, cur).st = st /\ Fate(st, cur).by = cur
  BY DEF Fate, Fates
<1>6. /\ fate' \in [1 .. MaxRequests -> Fates]
      /\ \A t \in 1 .. MaxRequests : fate'[t] = IF t = Mine THEN Fate(st, cur) ELSE fate[t]
  BY <1>4, <1>5, Zenon
<1>7. Dated'
  BY <1>4, <1>5, DatedWork, Zenon
<1>8. HeldIsActive' /\ NoLeakedTransaction'
  <2>1. tx'.id = None /\ query'.own = None
    BY NothingHeld, Zenon DEF None
  <2>2. \A t \in 1 .. MaxRequests : fate'[t].st # "active"
    BY <1>4, <1>5, <1>6, Zenon
  <2> QED
    BY <1>6, <2>1, <2>2, Zenon DEF HeldIsActive, NoLeakedTransaction
<1> QED
  BY <1>4, <1>6, <1>7, <1>8, Zenon DEF FateInv

-----------------------------------------------------------------------------
(* The client is told what happened.                                       *)

\* The request that runs is not answered as if it had committed.
Modest == \/ io_tasks' = io_tasks
          \/ \E k \in Summaries : /\ io_tasks' = Append(io_tasks, [req |-> cur, kind |-> k])
                                  /\ k = "SUCCESS" => Kind(cur) # "Commit"

\* The request that runs commits, and is answered so.
Committed ==
    /\ \A t \in 1 .. MaxRequests :
          /\ fate[t].st = "committed" => fate'[t] = fate[t]
          /\ fate'[t].st = "committed" => fate'[t] = fate[t] \/ fate'[t].by = cur
    /\ \E t \in 1 .. MaxRequests : fate'[t].st = "committed" /\ fate'[t].by = cur
    /\ Answer("SUCCESS")

Told == (NoCommit /\ Modest) \/ Committed

\* A request that is ignored or that fails commits nothing.
LEMMA GivenUpTold ==
  ASSUME FateInv, OrderInv, OrderInv', Work, Ignore \/ FailSession, pc # "begun"
  PROVE  FateInv' /\ Told
<1>1. AbortSession /\ pc' = "end" /\ (Answer("IGNORED") \/ Answer("FAILURE"))
  BY Zenon DEF Ignore, FailSession, Goto
<1>2. FateInv' /\ NoCommit
  BY <1>1, FateGivenUp, Zenon
<1>3. Modest
  BY <1>1, Zenon DEF Modest, Answer, Summaries
<1> QED
  BY <1>2, <1>3, Zenon DEF Told

\* Whichever path a handler takes, its answer is true of what it did.
LEMMA HandlersTell ==
  ASSUME FateInv, SessionInv, OrderInv, OrderInv', Handler
  PROVE  FateInv' /\ Told
<1>.  Work
  BY HandlersWork, Zenon
<1>a. CASE FailSession /\ pc # "begun"
  BY <1>a, GivenUpTold, Zenon
<1>b. CASE Ignore /\ pc # "begun"
  BY <1>b, GivenUpTold, Zenon
<1>1. CASE DispatchInterrupted \/ DispatchUnexpected \/ (ProcessRollback /\ ~FailSession /\ ~Interrupted)
  <2>1. AbortSession /\ pc = "dispatch" /\ pc' \in {"end", "renew"}
    BY <1>1, Zenon DEF DispatchInterrupted, DispatchUnexpected, ProcessRollback, CloseProtocolError,
                Executing, Dispatching, Goto
  <2>2. Modest
    BY <1>1, Zenon DEF DispatchInterrupted, DispatchUnexpected, ProcessRollback, CloseProtocolError,
                Executing, Modest, Answer, Summaries
  <2> QED
    BY <2>1, <2>2, FateGivenUp, Zenon DEF Told
<1>2. CASE RenewToken \/ DispatchFailed \/ (ProcessRoute /\ ~FailSession)
  <2>1. fate' = fate /\ tx' = tx /\ query' = query /\ pc # "begun" /\ pc' = "end"
    BY <1>2, Zenon DEF RenewToken, DispatchFailed, ProcessRoute, Executing, Dispatching, Goto, session
  <2>2. Modest
    BY <1>2, Zenon DEF RenewToken, DispatchFailed, ProcessRoute, Executing, Modest, Answer, Summaries,
                SessionInv, Doing
  <2> QED
    BY <2>1, <2>2, FateKept, Zenon DEF Told
<1>3. CASE ProcessBegin /\ ~FailSession
  <2>1. /\ pc = "dispatch" /\ fate' = [fate EXCEPT ![cur] = Fate("active", None)]
        /\ pc' = "begun" /\ tx' = tx /\ query' = query /\ io_tasks' = io_tasks
    BY <1>3, Zenon DEF ProcessBegin, Executing, Dispatching, Goto
  <2> QED
    BY <2>1, FateBegun, Zenon DEF Told, Modest
<1>4. CASE BeginDone
  <2>1. Modest
    BY <1>4, Zenon DEF BeginDone, Modest, Answer, Summaries, SessionInv, Doing
  <2> QED
    BY <1>4, <2>1, FateBeginDone, Zenon DEF Told
<1>5. CASE ProcessRun /\ ~FailSession
  <2>1. /\ pc = "dispatch" /\ ~HasInterrupt /\ "Run" \in Allowed
        /\ pc' = "ran" /\ tx' = tx /\ io_tasks' = io_tasks
        /\ fate' = IF tx.id = None THEN [fate EXCEPT ![cur] = Fate("active", None)] ELSE fate
        /\ \E n \in 0..MaxRows : query' = Query(IF tx.id = None THEN cur ELSE None, n, token)
    BY <1>5, Zenon DEF ProcessRun, Executing, Dispatching, Goto
  <2>2. query'.own = IF tx.id = None THEN cur ELSE None
    BY <2>1 DEF Query
  <2>3. query.own = None
    <3>1. state \in {"READY", "TX_READY", "TX_STREAMING"}
      BY <2>1, Zenon DEF Allowed, SessionInv, SessionType, States
    <3> QED
      BY <2>1, <3>1, NothingHeld, Zenon DEF SessionInv, Matches, Aborted, None
  <2>4. CASE tx.id = None
    BY <2>1, <2>2, <2>3, <2>4, FateBegun DEF Told, Modest
  <2>5. CASE tx.id # None
    BY <2>1, <2>2, <2>3, <2>5, FateKept, Zenon DEF Told, Modest
  <2> QED
    BY <2>4, <2>5, Zenon
<1>6. CASE RunDone /\ ~Ignore
  <2>1. pc = "ran" /\ pc' = "end" /\ fate' = fate /\ Answer("SUCCESS") /\ Kind(cur) # "Commit"
    BY <1>6, Zenon DEF RunDone, Goto, SessionInv, Doing
  <2>2. tx'.id = tx.id /\ query'.own = query.own
    <3>1. CASE tx.id = None
      BY <1>6, <3>1, Zenon DEF RunDone
    <3>2. CASE tx.id # None
      <4>1. tx' = Tx(tx.id, AddQuery, tx.next + 1) /\ query' = NoQuery
        BY <1>6, <3>2, Zenon DEF RunDone
      <4>2. query.own = None
        BY <2>1, <3>2, NothingHeld, Zenon DEF SessionInv, Doing, OwnQuery, None
      <4> QED
        BY <4>1, <4>2, NothingHeld, Zenon DEF Tx, None
    <3> QED
      BY <3>1, <3>2, Zenon
  <2>3. Modest
    BY <2>1, Zenon DEF Modest, Answer, Summaries
  <2> QED
    BY <2>1, <2>2, <2>3, FateKept, Zenon DEF Told
<1>7. CASE (ProcessPullOrDiscard \/ PullRow \/ PeekRow \/ StartCommit) /\ ~FailSession /\ ~Ignore
  <2>1. /\ pc \in {"dispatch", "pull"} /\ pc' \in {"pull", "pulled", "commit"} /\ fate' = fate
        /\ io_tasks' = io_tasks
        /\ \/ tx' = tx /\ query' = query
           \/ TakeRow
    BY <1>7, Zenon DEF ProcessPullOrDiscard, PullRow, PeekRow, StartCommit, Executing, Dispatching, Goto, session
  <2>2. tx'.id = tx.id /\ query'.own = query.own
    BY <2>1 DEF TakeRow, Tx, Shorter, Query
  <2> QED
    BY <2>1, <2>2, FateKept, Zenon DEF Told, Modest
<1>8. CASE PullDone /\ ~Ignore
  <2>1. /\ pc = "pulled" /\ pc' \in {"end", "commit"} /\ fate' = fate /\ Kind(cur) # "Commit"
        /\ io_tasks' = io_tasks \/ Answer("SUCCESS")
        /\ query' = query
    BY <1>8, Zenon DEF PullDone, Goto, session, SessionInv, Doing
  <2>2. tx'.id = tx.id
    BY <1>8 DEF PullDone, session, Tx
  <2>3. Modest
    BY <2>1, Zenon DEF Modest, Answer, Summaries
  <2> QED
    BY <2>1, <2>2, <2>3, FateKept, Zenon DEF Told
<1>9. CASE Commit /\ ~FailSession
  <2>1. pc = "commit" /\ pc' = "end"
    BY <1>9, Zenon DEF Commit, Goto
  <2>2. CASE Settled("late") /\ (Answer("IGNORED") \/ Answer("FAILURE"))
    <3>1. /\ FateInv' /\ Mine \in 1 .. MaxRequests /\ fate[Mine].st = "active"
          /\ \A t \in 1 .. MaxRequests : fate'[t] = IF t = Mine THEN Fate("late", cur) ELSE fate[t]
      BY <2>1, <2>2, FateSettled, Zenon
    <3>2. NoCommit
      BY <3>1 DEF NoCommit, Fate
    <3>3. Modest
      BY <2>2, Zenon DEF Modest, Answer, Summaries
    <3> QED
      BY <3>1, <3>2, <3>3, Zenon DEF Told
  <2>3. CASE Settled("committed") /\ Answer("SUCCESS")
    <3>1. /\ FateInv' /\ Mine \in 1 .. MaxRequests /\ fate[Mine].st = "active"
          /\ \A t \in 1 .. MaxRequests : fate'[t] = IF t = Mine THEN Fate("committed", cur) ELSE fate[t]
      BY <2>1, <2>3, FateSettled, Zenon
    <3>2. Fate("committed", cur).st = "committed" /\ Fate("committed", cur).by = cur
      BY Zenon DEF Fate
    <3>3. Committed
      BY <2>3, <3>1, <3>2, Zenon DEF Committed
    <3> QED
      BY <3>1, <3>3, Zenon DEF Told
  <2> QED
    BY <1>9, <2>2, <2>3, Zenon DEF Commit
<1>10. pc = "begun" => BeginDone
  BY Zenon DEF Handler, DispatchInterrupted, RenewToken, DispatchFailed, DispatchUnexpected, ProcessRoute,
         ProcessBegin, ProcessRun, RunDone, ProcessPullOrDiscard, PullRow, PeekRow, PullDone,
         StartCommit, Commit, ProcessRollback, Executing, Dispatching
<1>11. CASE ProcessRollback /\ Interrupted
  BY <1>11, <1>a, <1>b, Zenon DEF ProcessRollback, Executing, Dispatching
<1> QED
  BY <1>a, <1>b, <1>1, <1>2, <1>3, <1>4, <1>5, <1>6, <1>7, <1>8, <1>9, <1>10, <1>11, Zenon DEF Handler

\* What happens beside the task ends no transaction.
LEMMA FateSame ==
  ASSUME FateInv, OrderInv, [Next]_vars, fate' = fate, tx' = tx, query' = query,
         pc' = pc, cur' = cur, closed => closed'
  PROVE  FateInv'
<1>1. HeldIsActive' /\ NoLeakedTransaction'
  BY Zenon DEF FateInv, HeldIsActive, NoLeakedTransaction
<1>2. ASSUME ~closed' PROVE Dated'
  <2>1. Posted \in Nat /\ Posted' \in Nat /\ Posted <= Posted'
    BY <1>2, PostedGrows, Zenon
  <2>2. Dispatched \in Nat /\ Dispatched' \in Nat /\ Dispatched <= Dispatched'
    <3> DEFINE e == IF pc \in Active \ {"dispatch"} THEN 1 ELSE 0
    <3>1. Dispatched = Posted + e /\ Dispatched' = Posted' + e /\ e \in {0, 1}
      BY Zenon DEF Dispatched
    <3>2. Len(out) \in Nat /\ Len(io_tasks) \in Nat /\ Len(out') \in Nat /\ Len(io_tasks') \in Nat
      BY DEF OrderInv, OrderType
    <3> HIDE DEF e
    <3> QED
      BY <2>1, <3>1 DEF Posted
  <2>3. ASSUME NEW t \in 1 .. MaxRequests
        PROVE  (fate'[t].st # "none" => t <= Dispatched') /\ fate'[t].by <= Posted'
    <3>1. (fate[t].st # "none" => t <= Dispatched) /\ fate[t].by <= Posted /\ fate[t].by \in Nat
      BY <1>2 DEF FateInv, Dated, Fates
    <3> QED
      BY <2>1, <2>2, <3>1
  <2> QED
    BY <2>3, Zenon DEF Dated
<1>3. Dated'
  BY <1>2, Zenon DEF Dated
<1> QED
  BY <1>1, <1>3, Zenon DEF FateInv

\* What became of the transactions is kept by every step, and no step between
\* two requests commits anything.
LEMMA FateNext ==
  ASSUME FateInv, SessionInv, OrderInv, [Next]_vars
  PROVE  FateInv' /\ (~Handler => NoCommit)
<1>.  OrderInv' /\ fate \in [1 .. MaxRequests -> Fates]
  BY OrderNext, Zenon DEF FateInv
<1>1. CASE Handler
  BY <1>1, HandlersTell, Zenon
<1>2. CASE StartTask
  <2>1. /\ closed' = closed /\ fate' = fate /\ query' = query /\ tx' = tx
        /\ out' = out /\ io_tasks' = io_tasks
        /\ pc = "idle" /\ pc' \in {"abort", "dispatch"} /\ (pc' = "dispatch" => ~closed)
    BY <1>2, Zenon DEF StartTask, ioVars, session
  <2>2. /\ Posted \in Nat /\ Posted' = Posted /\ Dispatched = Posted /\ Dispatched' = Posted
        /\ pc' = "dispatch" => cur' = Posted + 1 /\ cur' \in 1 .. MaxRequests
    <3>1. Posted \in Nat /\ Posted' = Posted
      BY <2>1 DEF OrderInv, OrderType, Posted
    <3>2. Dispatched = Posted /\ Dispatched' = Posted
      BY <2>1, <3>1 DEF Dispatched, Active
    <3>3. pc' = "dispatch" => cur' = Posted + 1 /\ cur' \in 1 .. MaxRequests
      BY <2>1, <3>1 DEF OrderInv, OrderType, InOrder, Active
    <3> QED
      BY <3>1, <3>2, <3>3, Zenon
  <2>3. Dated'
    BY <2>1, <2>2, Zenon DEF FateInv, Dated
  <2>4. pc' = "dispatch" => fate[cur'].st = "none"
    BY <2>1, <2>2 DEF FateInv, Dated
  <2>5. HeldIsActive' /\ NoLeakedTransaction'
    BY <2>1, <2>4, Zenon DEF FateInv, HeldIsActive, NoLeakedTransaction
  <2> QED
    BY <2>1, <2>3, <2>5, Zenon DEF FateInv, NoCommit
<1>3. CASE EndTask
  <2>1. /\ closed' = closed /\ fate' = fate /\ query' = query /\ tx' = tx
        /\ out' = out /\ io_tasks' = io_tasks /\ pc = "end" /\ pc' \in {"abort", "idle"}
    BY <1>3, Zenon DEF EndTask, ioVars, session, Goto
  <2>2. Posted' = Posted /\ Dispatched' = Dispatched
    BY <2>1, Zenon DEF Posted, Dispatched, Active
  <2>3. Dated' /\ HeldIsActive' /\ NoLeakedTransaction'
    BY <2>1, <2>2, Zenon DEF FateInv, Dated, HeldIsActive, NoLeakedTransaction
  <2> QED
    BY <2>1, <2>3, Zenon DEF FateInv, NoCommit
<1>4. CASE AbortTask
  <2>1. /\ pc = "abort" /\ pc' = "idle" /\ Aborted' /\ fate' = RolledBack({query.own, tx.id})
        /\ closed' = closed
    BY <1>4, Zenon DEF AbortTask, AbortSession, Aborted, Goto, ioVars
  <2>2. Dated'
    BY <2>1, Zenon DEF OrderInv, InOrder, Dated
  <2>3. FateInv'
    BY <2>1, <2>2, FateAborted, Zenon
  <2> QED
    BY <2>1, <2>3, RolledBackFacts, Zenon DEF NoCommit
<1>5. CASE Io \/ StopPool \/ UNCHANGED vars
  <2>1. fate' = fate /\ query' = query /\ tx' = tx /\ pc' = pc /\ cur' = cur /\ (closed => closed')
    BY <1>5 DEF Io, ReadRequest, EnqueueReset, EnqueueAbort, Disconnect, IoTask, StopPool, vars,
                Close, ioVars, strand, session
  <2> QED
    BY <2>1, FateSame, Zenon DEF NoCommit
<1> QED
  BY <1>1, <1>2, <1>3, <1>4, <1>5, Zenon DEF Next, Strand, Handler

Truthful(a) ==
    /\ a.kind # "SUCCESS" =>
          \A t \in 1 .. MaxRequests : ~(fate[t].st = "committed" /\ fate[t].by = a.req)
    /\ a.kind = "SUCCESS" /\ Kind(a.req) = "Commit" =>
          \E t \in 1 .. MaxRequests : fate[t].st = "committed" /\ fate[t].by = a.req

\* What was sent is true, and what was posted will be when it is sent.
AnswersInv ==
    /\ \A i \in 1 .. Len(out) : Truthful(out[i])
    /\ ~closed => \A j \in 1 .. Len(io_tasks) : Truthful(io_tasks[j])

\* An answer stays true, because a request is answered once.
LEMMA TruthKept ==
  ASSUME NEW a, Truthful(a), reqs'[a.req] = reqs[a.req],
         NoCommit \/ (Committed /\ a.req # cur)
  PROVE  Truthful(a)'
<1>1. CASE NoCommit
  BY <1>1, Zenon DEF Truthful, NoCommit, Kind
<1>2. CASE Committed /\ a.req # cur
  BY <1>2, Zenon DEF Truthful, Committed, Kind
<1> QED
  BY <1>1, <1>2, Zenon

\* An answer is true when it is posted.
LEMMA TruthPosted ==
  ASSUME FateInv, OrderInv, Work, Told, ~closed, NEW k, [req |-> cur, kind |-> k] \in Answers,
         io_tasks' = Append(io_tasks, [req |-> cur, kind |-> k])
  PROVE  Truthful([req |-> cur, kind |-> k])'
<1> DEFINE a == [req |-> cur, kind |-> k]
<1>.  /\ reqs' = reqs /\ cur' = cur /\ cur = Posted + 1 /\ Posted \in Nat /\ a.req = cur /\ a.kind = k
      /\ io_tasks \in Seq(Answers) /\ a \in Answers
  BY DEF Work, OrderInv, OrderType, InOrder, Posted
<1> HIDE DEF a
<1>1. ASSUME NEW k2, [req |-> cur, kind |-> k2] \in Answers,
             io_tasks' = Append(io_tasks, [req |-> cur, kind |-> k2])
      PROVE  k2 = k
  <2>1. Append(io_tasks, [req |-> cur, kind |-> k2])[Len(io_tasks) + 1] = [req |-> cur, kind |-> k2]
    OBVIOUS
  <2>2. Append(io_tasks, [req |-> cur, kind |-> k])[Len(io_tasks) + 1] = [req |-> cur, kind |-> k]
    OBVIOUS
  <2> QED
    BY <1>1
<1>2. cur \in 1 .. MaxRequests /\ \A k2 \in Summaries : [req |-> cur, kind |-> k2] \in Answers
  BY Zenon DEF OrderInv, OrderType, Work, Answers, Summaries
<1>3. CASE NoCommit /\ Modest
  <2>1. io_tasks' # io_tasks
    BY DEF a
  <2>2. k = "SUCCESS" => Kind(cur) # "Commit"
    BY <1>1, <1>2, <1>3, <2>1, Zenon DEF Modest
  <2>3. ASSUME NEW t \in 1 .. MaxRequests, fate'[t].st = "committed" PROVE fate'[t].by # cur
    <3>1. fate'[t] = fate[t]
      BY <1>3, <2>3, Zenon DEF NoCommit
    <3>2. fate[t].by <= Posted /\ fate[t].by \in Nat
      BY DEF FateInv, Dated, Fates
    <3> QED
      BY <3>1, <3>2
  <2> QED
    BY <2>2, <2>3, Zenon DEF Truthful, Kind, a
<1>4. CASE Committed
  <2>1. k = "SUCCESS"
    BY <1>4 DEF Committed, Answer, Summaries
  <2> QED
    BY <1>4, <2>1, Zenon DEF Truthful, Committed, a
<1> QED
  BY <1>3, <1>4, Zenon DEF Told

\* The answers are true of what became of the transactions, after every step.
LEMMA AnswersNext ==
  ASSUME AnswersInv, FateInv, SessionInv, OrderInv, [Next]_vars PROVE AnswersInv'
<1>.  /\ OrderInv' /\ Len(reqs) \in Nat /\ out \in Seq(Answers) /\ io_tasks \in Seq(Answers)
      /\ Len(out) \in Nat /\ Len(io_tasks) \in Nat
  BY OrderNext DEF OrderInv, OrderType
<1>1. \A i \in 1 .. Len(reqs) : reqs'[i] = reqs[i]
  <2>1. CASE ReadRequest
    <3>1. PICK r \in Request : reqs' = Append(reqs, r)
      BY <2>1, Zenon DEF ReadRequest
    <3> QED
      BY <3>1 DEF OrderInv, OrderType
  <2>2. CASE Handler
    BY <2>2, HandlersWork, Zenon DEF Work
  <2>3. CASE ~ReadRequest /\ ~Handler
    BY <2>3, Zenon DEF Next, Io, Strand, Handler, StartTask, EndTask, AbortTask, EnqueueReset,
                EnqueueAbort, Disconnect, IoTask, StopPool, ioVars, vars
  <2> QED
    BY <2>1, <2>2, <2>3, Zenon
<1>2. \A i \in 1 .. Len(out) : Truthful(out[i]) /\ out[i].req = i /\ i \in 1 .. Len(reqs)
  <2>1. \A i \in 1 .. Len(out) : Truthful(out[i]) /\ out[i].req = i
    BY Zenon DEF AnswersInv, OrderInv
  <2>2. Len(out) <= Len(reqs)
    BY Zenon DEF OrderInv
  <2> QED
    BY <2>1, <2>2
<1>3. ASSUME ~closed, NEW j \in 1 .. Len(io_tasks)
      PROVE  Truthful(io_tasks[j]) /\ io_tasks[j].req \in 1 .. Len(reqs)
             /\ (pc \in Active => io_tasks[j].req # cur)
  <2>1. Truthful(io_tasks[j]) /\ io_tasks[j].req = Len(out) + j
    BY <1>3, Zenon DEF AnswersInv, OrderInv, InOrder
  <2>2. /\ Len(out) + Len(io_tasks) + Running + Len(queue) + Unposted = Len(reqs)
        /\ pc \in Active => cur = Len(out) + Len(io_tasks) + 1
        /\ Running \in {0, 1} /\ Unposted \in {0, 1} /\ Len(queue) \in Nat
    BY <1>3 DEF OrderInv, OrderType, InOrder, Posted, Running, Unposted
  <2>3. Len(out) + j \in 1 .. Len(reqs)
    BY <1>3, <2>2
  <2>4. pc \in Active => Len(out) + j # cur
    BY <1>3, <2>2
  <2> QED
    BY <2>1, <2>3, <2>4, Zenon
<1>4. CASE Handler
  <2>1. Work /\ Told
    BY <1>4, HandlersWork, HandlersTell, Zenon
  <2>2. out' = out /\ closed' = closed /\ cur' = cur /\ pc \in Active /\ cur \in 1 .. MaxRequests
        /\ Len(out) < cur
    BY <2>1 DEF Work, OrderInv, OrderType
  <2>3. NoCommit \/ Committed
    BY <2>1, Zenon DEF Told
  <2>4. ASSUME NEW i \in 1 .. Len(out) PROVE Truthful(out[i])'
    <3>1. Truthful(out[i]) /\ reqs'[out[i].req] = reqs[out[i].req] /\ out[i].req # cur
      BY <1>1, <1>2, <2>2
    <3>2. PICK a : a = out[i]
      BY Zenon
    <3>3. Truthful(a)'
      BY <2>3, <3>1, <3>2, TruthKept, Zenon
    <3> QED
      BY <2>2, <3>2, <3>3, Zenon
  <2>5. ASSUME ~closed, NEW j \in 1 .. Len(io_tasks) PROVE \A a : a = io_tasks[j] => Truthful(a)'
    <3>1. Truthful(io_tasks[j]) /\ reqs'[io_tasks[j].req] = reqs[io_tasks[j].req] /\ io_tasks[j].req # cur
      BY <1>1, <1>3, <2>2, <2>5, Zenon
    <3>2. TAKE a
    <3> QED
      BY <2>3, <3>1, TruthKept, Zenon
  <2>6. ASSUME ~closed PROVE \A j \in 1 .. Len(io_tasks') : Truthful(io_tasks[j])'
    <3>1. CASE io_tasks' = io_tasks
      BY <2>5, <2>6, <3>1, Zenon
    <3>2. ASSUME NEW k \in Summaries, io_tasks' = Append(io_tasks, [req |-> cur, kind |-> k])
          PROVE  \A j \in 1 .. Len(io_tasks') : Truthful(io_tasks[j])'
      <4>1. [req |-> cur, kind |-> k] \in Answers
        BY <2>2, Zenon DEF Answers, Summaries
      <4>2. /\ Len(io_tasks') = Len(io_tasks) + 1
            /\ io_tasks'[Len(io_tasks) + 1] = [req |-> cur, kind |-> k]
            /\ \A j \in 1 .. Len(io_tasks) : io_tasks'[j] = io_tasks[j]
        BY <3>2
      <4>3. Truthful([req |-> cur, kind |-> k])'
        BY <2>1, <2>6, <3>2, <4>1, TruthPosted, Zenon
      <4>4. TAKE j \in 1 .. Len(io_tasks')
      <4>5. CASE j = Len(io_tasks) + 1
        BY <2>2, <4>2, <4>3, <4>5, Zenon
      <4>6. CASE j \in 1 .. Len(io_tasks)
        BY <2>5, <2>6, <4>2, <4>6, Zenon
      <4>7. j = Len(io_tasks) + 1 \/ j \in 1 .. Len(io_tasks)
        BY <4>2
      <4> QED
        BY <4>5, <4>6, <4>7, Zenon
    <3> QED
      BY <2>1, <3>1, <3>2, Zenon DEF Work
  <2> QED
    BY <2>2, <2>4, <2>6, Zenon DEF AnswersInv
<1>5. CASE ~Handler
  <2>1. NoCommit
    BY <1>5, FateNext, Zenon
  <2>2. ASSUME NEW i \in 1 .. Len(out) PROVE \A a : a = out[i] => Truthful(a)'
    <3>1. Truthful(out[i]) /\ reqs'[out[i].req] = reqs[out[i].req]
      BY <1>1, <1>2
    <3>2. TAKE a
    <3> QED
      BY <2>1, <3>1, TruthKept, Zenon
  <2>3. ASSUME ~closed, NEW j \in 1 .. Len(io_tasks) PROVE \A a : a = io_tasks[j] => Truthful(a)'
    <3>1. Truthful(io_tasks[j]) /\ reqs'[io_tasks[j].req] = reqs[io_tasks[j].req]
      BY <1>1, <1>3, <2>3, Zenon
    <3>2. TAKE a
    <3> QED
      BY <2>1, <3>1, TruthKept, Zenon
  <2>4. CASE IoTask
    <3>1. /\ io_tasks # <<>> /\ io_tasks' = Tail(io_tasks)
          /\ \/ closed' = TRUE /\ out' = out
             \/ ~closed /\ closed' = closed /\ out' = Append(out, Head(io_tasks))
      BY <2>4, Zenon DEF IoTask, Respond, Close, OrderInv, OrderType
    <3>2. /\ Head(io_tasks) \in Answers /\ Head(io_tasks) = io_tasks[1] /\ Len(io_tasks) > 0
          /\ Len(io_tasks') = Len(io_tasks) - 1
          /\ \A j \in 1 .. Len(io_tasks) - 1 : io_tasks'[j] = io_tasks[j + 1]
      BY <3>1
    <3>3. CASE closed' = TRUE /\ out' = out
      BY <2>2, <3>3, Zenon DEF AnswersInv
    <3>4. CASE ~closed /\ closed' = closed /\ out' = Append(out, Head(io_tasks))
      <4>1. /\ Len(out') = Len(out) + 1 /\ out'[Len(out) + 1] = io_tasks[1]
            /\ \A i \in 1 .. Len(out) : out'[i] = out[i]
        BY <3>4
      <4>2. ASSUME NEW i \in 1 .. Len(out') PROVE Truthful(out[i])'
        <5>1. CASE i = Len(out) + 1
          BY <2>3, <3>2, <3>4, <5>1
        <5>2. CASE i \in 1 .. Len(out)
          BY <2>2, <4>1, <5>2, Zenon
        <5> QED
          BY <4>1, <5>1, <5>2
      <4>3. ASSUME NEW j \in 1 .. Len(io_tasks') PROVE Truthful(io_tasks[j])'
        <5>1. j + 1 \in 1 .. Len(io_tasks) /\ io_tasks'[j] = io_tasks[j + 1]
          BY <3>2
        <5> QED
          BY <2>3, <3>4, <5>1, Zenon
      <4> QED
        BY <4>2, <4>3, Zenon DEF AnswersInv
    <3> QED
      BY <3>1, <3>3, <3>4, Zenon
  <2>5. CASE ~IoTask
    <3>1. out' = out /\ io_tasks' = io_tasks /\ (closed => closed')
      BY <1>5, <2>5 DEF Next, Io, Strand, Handler, StartTask, EndTask, AbortTask, ReadRequest,
                EnqueueReset, EnqueueAbort, Disconnect, StopPool, Close, ioVars, vars
    <3> QED
      BY <2>2, <2>3, <3>1, Zenon DEF AnswersInv
  <2> QED
    BY <2>4, <2>5, Zenon
<1> QED
  BY <1>4, <1>5, Zenon

-----------------------------------------------------------------------------
(* The theorems.                                                           *)

IInv == OrderInv /\ InterruptInv /\ TokenInv /\ SessionInv /\ FateInv /\ AnswersInv

\* The six parts hold in every state that a connection reaches: however the IO
\* thread and the strand interleave, for any number of requests.
THEOREM SessionInvariant == Spec => []IInv
<1>1. Init => IInv
  <2>1. Init => AnswersInv
    BY DEF Init, AnswersInv
  <2> QED
    BY <2>1, OrderInit, InterruptInit, TokenInit, SessionInit, FateInit, Zenon DEF IInv
<1>2. IInv /\ [Next]_vars => IInv'
  BY OrderNext, InterruptNext, TokenNext, SessionNext, FateNext, AnswersNext, Zenon DEF IInv
<1> QED
  BY <1>1, <1>2, PTL DEF Spec

\* Requests are answered in the order they came, each once, until the close.
THEOREM RequestsAnsweredInOrder == Spec => []AnsweredInOrder
<1>1. IInv => AnsweredInOrder
  <2> SUFFICES ASSUME IInv PROVE AnsweredInOrder
    BY Zenon
  <2>1. DOMAIN out = 1 .. Len(out)
    BY DEF IInv, OrderInv, OrderType
  <2>2. ASSUME pc = "idle", ~closed
        PROVE  Len(out) + Len(io_tasks) + Len(queue) + (IF io = "enqueue" THEN 1 ELSE 0) = Len(reqs)
    BY <2>2 DEF IInv, OrderInv, OrderType, InOrder, Posted, Running, Unposted, Active
  <2> QED
    BY <2>1, <2>2, Zenon DEF AnsweredInOrder, IInv, OrderInv
<1> QED
  BY <1>1, SessionInvariant, PTL

\* RequestInterrupt cancels what runs, and nothing that comes after the RESET:
\* neither the installed token nor that of an open query is stale.
THEOREM InterruptsAreExact == Spec => []InterruptsExact
<1>1. IInv => InterruptsExact
  <2> SUFFICES ASSUME IInv PROVE InterruptsExact
    OBVIOUS
  <2>.  TokenInv /\ SessionInv
    BY Zenon DEF IInv
  <2>1. NoStaleCancel
    <3>1. pc = "renew" => query = NoQuery /\ DOMAIN tx.queries = {}
      BY NothingHeld, Zenon DEF SessionInv, Doing, Aborted
    <3> QED
      BY <3>1, Zenon DEF TokenInv, SessionInv, SameToken, NoStaleCancel
  <2>2. InterruptReachesQuery
    <3> SUFFICES ASSUME HasInterrupt, io = "read", pc \in {"ran", "pull", "pulled"}
                 PROVE  (IF InTx /\ pc # "ran" THEN tx.queries[Qid].token ELSE query.token) \in cancelled
      BY Zenon DEF InterruptReachesQuery
    <3>1. token \in cancelled
      BY Zenon DEF TokenInv, Querying
    <3>2. CASE InTx /\ pc # "ran"
      <4>1. Qid \in DOMAIN tx.queries
        BY <3>2, NothingHeld, Zenon DEF SessionInv, Doing, OwnQuery, InTx, None
      <4> QED
        BY <3>1, <3>2, <4>1, Zenon DEF SessionInv, SameToken
    <3>3. CASE ~(InTx /\ pc # "ran")
      <4>1. query # NoQuery
        BY <3>3, NothingHeld, Zenon DEF SessionInv, Doing, OwnQuery, None
      <4> QED
        BY <3>1, <3>3, <4>1, Zenon DEF SessionInv, SameToken
    <3> QED
      BY <3>2, <3>3, Zenon
  <2> QED
    BY <2>1, <2>2, Zenon DEF InterruptsExact
<1> QED
  BY <1>1, SessionInvariant, PTL

\* Between requests the state tells what the session holds, and no transaction
\* is left behind by a request that failed, was ignored or lost its connection.
THEOREM NoTransactionIsLeaked == Spec => []SessionSound
<1>1. IInv => SessionSound
  <2> SUFFICES ASSUME IInv PROVE SessionSound
    OBVIOUS
  <2>1. TypeOK
    <3>1. cancelled \subseteq Tokens
      BY BoltAssumption DEF IInv, TokenInv, Tokens
    <3> QED
      BY <3>1, Zenon DEF TypeOK, IInv, OrderInv, OrderType, InterruptInv, TokenInv, SessionInv, SessionType,
                  FateInv, Fates
  <2>2. StateMatchesSession
    BY Zenon DEF IInv, SessionInv, Matches, Aborted, StateMatchesSession
  <2> QED
    BY <2>1, <2>2, Zenon DEF SessionSound, IInv, FateInv
<1> QED
  BY <1>1, SessionInvariant, PTL

\* What the client is told is what happened: nothing that was answered with
\* IGNORED or FAILURE committed before, and a COMMIT that succeeded did commit.
THEOREM ClientIsToldTheTruth == Spec => []AnswersAreTrue
<1>1. IInv => AnswersAreTrue
  <2> SUFFICES ASSUME IInv PROVE AnswersAreTrue
    OBVIOUS
  <2>1. out \in Seq(Answers) /\ fate \in [1 .. MaxRequests -> Fates]
    BY Zenon DEF IInv, OrderInv, OrderType, FateInv
  <2>2. DOMAIN out = 1 .. Len(out) /\ DOMAIN fate = 1 .. MaxRequests
    BY <2>1
  <2> QED
    BY <2>2, Zenon DEF IInv, AnswersInv, Truthful, AnswersAreTrue
<1> QED
  BY <1>1, SessionInvariant, PTL
=============================================================================
