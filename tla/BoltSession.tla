----------------------------- MODULE BoltSession -----------------------------
(***************************************************************************)
(* One Bolt connection after HELLO (server/bolt_handler.cc, bolt_session.h):  *)
(* the IO thread reads requests, counts interrupts and closes; the session's  *)
(* strand of the worker pool executes the requests one after the other.  The  *)
(* two share the interrupt counter, the cancellation token and has_closed_.   *)
(*                                                                         *)
(* A request is its kind and, for PULL and DISCARD, n and qid; PULL stands    *)
(* for both.  What a query returns is a number of rows, and whatever can      *)
(* throw may throw.  Requests are numbered from 1 in the order they arrive;   *)
(* the transaction that request i begins is called i.                         *)
(***************************************************************************)
EXTENDS Integers, Sequences, FiniteSets

CONSTANTS Kinds,         \* the requests without n a client may send
          MaxPull,       \* the largest n of a PULL; -1 pulls everything
          MaxQid,        \* the largest qid of a PULL; -1 names the last result
          MaxRequests,   \* how many of them it sends
          Window,        \* how many it sends before they are answered
          MaxRows        \* rows that a query returns at most

ASSUME BoltAssumption ==
    MaxPull \in Nat /\ MaxQid \in Nat /\ MaxRequests \in Nat /\ Window \in Nat /\ MaxRows \in Nat

Request == {[kind |-> k, n |-> 0, qid |-> 0] : k \in Kinds}
           \cup {[kind |-> "Pull", n |-> n, qid |-> q] :
                    n \in {-1} \cup 1 .. MaxPull, q \in -1 .. MaxQid}

VARIABLES
    reqs,            \* the requests that the IO thread has read
    io,              \* what the IO thread does after the count of RequestInterrupt
    io_tasks,        \* what the strand posted to the io_service: answers, "close"
    closed,          \* has_closed_
    stopped,         \* BoltWorkerPool::stopped_
    interrupts,      \* remaining_interrupts
    token,           \* which cancellation token is installed
    cancelled,       \* the tokens that were cancelled
    queue,           \* the strand: request numbers, None for the close handler's task
    pc, cur,         \* the task that runs: where it is, and its request
    left,            \* rows that a PULL may still take, -1 for all of them
    state,           \* SessionState
    query,           \* active_query, or the query of a RUN that is not done
    tx,              \* active_transaction
    fate,            \* what became of transaction i, and which request committed it
    out              \* the summaries that were sent

ioVars == <<reqs, io, closed, stopped, out>>
intVars == <<interrupts, token, cancelled>>
session == <<state, query, tx, fate>>
strand == <<queue, pc, cur, left>>
vars == <<ioVars, io_tasks, intVars, session, strand>>

None == 0
Query(own, rows, t) == [own |-> own, rows |-> rows, token |-> t]
NoQuery == Query(None, 0, 0)
Tx(id, queries, next) == [id |-> id, queries |-> queries, next |-> next]
NoTx == Tx(None, <<>>, 0)
Fate(st, by) == [st |-> st, by |-> by]
Kind(i) == reqs[i].kind

\* HELLO is done: the context is installed and the session is READY.
Init == /\ reqs = <<>> /\ io = "read" /\ io_tasks = <<>> /\ out = <<>>
        /\ closed = FALSE /\ stopped = FALSE
        /\ interrupts = 0 /\ token = 1 /\ cancelled = {}
        /\ queue = <<>> /\ pc = "idle" /\ cur = None /\ left = 0
        /\ state = "READY" /\ query = NoQuery /\ tx = NoTx
        /\ fate = [i \in 1..MaxRequests |-> Fate("none", None)]

-----------------------------------------------------------------------------
(* The IO thread.                                                          *)

\* RequestInterrupt counts first and cancels the installed token after that.
CountInterrupt(then) ==
    /\ interrupts' = interrupts + 1 /\ io' = then
    /\ UNCHANGED <<token, cancelled>>

\* Connection::Close and, the first time, the close handler
Close == closed' = TRUE /\ CountInterrupt("abort")

\* ReadChunkSizeDone and the handler.  A request is posted to the strand, a
\* RESET after it was counted; GOODBYE, a second HELLO and an unknown message
\* close, and so does a request that a stopped pool does not take.
ReadRequest ==
    /\ io = "read" /\ ~closed
    /\ Len(reqs) < MaxRequests /\ Len(reqs) < Len(out) + Window
    /\ \E r \in Request :
         /\ reqs' = Append(reqs, r)
         /\ CASE r.kind = "Reset" ->
                    CountInterrupt("enqueue") /\ UNCHANGED <<closed, queue>>
              [] r.kind = "Goodbye" \/ (r.kind # "Reset" /\ stopped) ->
                    Close /\ UNCHANGED queue
              [] OTHER -> /\ queue' = Append(queue, Len(reqs) + 1)
                          /\ UNCHANGED <<closed, io, intVars>>
    /\ UNCHANGED <<stopped, out, io_tasks, pc, cur, left, session>>

\* The second step of RequestInterrupt
CancelToken == cancelled' = cancelled \cup {token}

\* ... of a RESET, which is posted to the strand after it,
EnqueueReset ==
    /\ io = "enqueue" /\ CancelToken
    /\ IF stopped THEN /\ closed' = TRUE /\ interrupts' = interrupts + 1
                       /\ io' = "abort" /\ UNCHANGED queue
       ELSE /\ queue' = Append(queue, Len(reqs)) /\ io' = "read"
            /\ UNCHANGED <<closed, interrupts>>
    /\ UNCHANGED <<reqs, stopped, out, io_tasks, token, pc, cur, left, session>>

\* Mutant: the close handler leaves idle transactions to the connection's destructor.
MutEnqueueAbort ==
    /\ io = "abort" /\ CancelToken /\ io' = "read"
    /\ UNCHANGED <<reqs, closed, stopped, out, io_tasks, interrupts, token,
                   queue, pc, cur, left, session>>

\* ... and of the close handler.
EnqueueAbort ==
    /\ io = "abort" /\ CancelToken
    /\ queue' = IF stopped THEN queue ELSE Append(queue, None)
    /\ io' = "read"
    /\ UNCHANGED <<reqs, closed, stopped, out, io_tasks, interrupts, token,
                   pc, cur, left, session>>

\* A read or write error, or the server closes the connection.
Disconnect ==
    /\ io = "read" /\ ~closed /\ Close
    /\ UNCHANGED <<reqs, stopped, out, io_tasks, strand, session>>

\* Mutant: answers are sent after the connection was closed.
MutRespond(a) == out' = Append(out, a)

\* BoltConnection::Respond
Respond(a) == out' = IF closed THEN out ELSE Append(out, a)

\* What PostResponse or PostClose posted
IoTask ==
    /\ io = "read" /\ io_tasks # <<>> /\ io_tasks' = Tail(io_tasks)
    /\ IF Head(io_tasks).kind # "close"
       THEN Respond(Head(io_tasks)) /\ UNCHANGED <<closed, io, intVars>>
       ELSE /\ UNCHANGED out
            /\ IF closed THEN UNCHANGED <<closed, io, intVars>> ELSE Close
    /\ UNCHANGED <<reqs, stopped, strand, session>>

\* BoltWorkerPool::Stop: nothing more is posted, what is queued still runs.
StopPool ==
    /\ ~stopped /\ stopped' = TRUE
    /\ UNCHANGED <<reqs, io, io_tasks, closed, out, intVars, strand, session>>

-----------------------------------------------------------------------------
(* What the handlers share.                                                *)

\* PostResponse
Answer(kind) == io_tasks' = IF closed THEN io_tasks
                            ELSE Append(io_tasks, [req |-> cur, kind |-> kind])

\* The transactions of S are rolled back where they are still active.
RolledBack(S) == [i \in DOMAIN fate |-> IF i \in S /\ fate[i].st = "active"
                                         THEN Fate("rolledback", fate[i].by)
                                         ELSE fate[i]]

\* Mutant: the explicit transaction is kept.
MutAbortSession == fate' = RolledBack({query.own}) /\ query' = NoQuery /\ tx' = tx

\* AbortSession: every cursor and transaction of the session is given up.
AbortSession == fate' = RolledBack({query.own, tx.id}) /\ query' = NoQuery /\ tx' = NoTx

HasInterrupt == interrupts > 0
Goto(p) == pc' = p /\ UNCHANGED <<queue, cur>>

\* IgnoreInterruptedOrClosedRequest, and what every caller but BEGIN then does
Interrupted == closed \/ HasInterrupt
Ignore == /\ AbortSession /\ Answer("IGNORED") /\ Goto("end")
          /\ UNCHANGED <<state, left, intVars, ioVars>>

FailSession ==
    /\ AbortSession
    /\ IF Interrupted THEN Answer("IGNORED") /\ UNCHANGED state
       ELSE Answer("FAILURE") /\ state' = "FAILED"
    /\ Goto("end") /\ UNCHANGED <<left, intVars, ioVars>>

\* CloseProtocolError: no answer; the IO thread closes when it gets to it.
CloseProtocolError ==
    /\ AbortSession /\ state' = "DEFUNCT"
    /\ io_tasks' = Append(io_tasks, [req |-> cur, kind |-> "close"])
    /\ Goto("end") /\ UNCHANGED <<left, intVars, ioVars>>

-----------------------------------------------------------------------------
(* The strand.                                                             *)

\* The task of EnqueueSessionMessage, or that of the close handler
StartTask ==
    /\ pc = "idle" /\ queue # <<>>
    /\ queue' = Tail(queue) /\ cur' = Head(queue)
    /\ pc' = IF Head(queue) = None \/ closed THEN "abort" ELSE "dispatch"
    /\ UNCHANGED <<left, session, io_tasks, intVars, ioVars>>

\* The connection may have been closed while the task ran.
EndTask ==
    /\ pc = "end" /\ Goto(IF closed THEN "abort" ELSE "idle")
    /\ UNCHANGED <<left, session, io_tasks, intVars, ioVars>>

AbortTask ==
    /\ pc = "abort" /\ AbortSession /\ Goto("idle")
    /\ UNCHANGED <<left, state, io_tasks, intVars, ioVars>>

\* ProcessBoltMessage while an interrupt is pending: RESET uses one up, and the
\* last one goes on to RenewToken; everything else is ignored.
DispatchInterrupted ==
    /\ pc = "dispatch" /\ HasInterrupt /\ AbortSession
    /\ interrupts' = IF Kind(cur) = "Reset" THEN interrupts - 1 ELSE interrupts
    /\ IF Kind(cur) = "Reset" /\ interrupts = 1
       THEN Goto("renew") /\ UNCHANGED io_tasks
       ELSE Goto("end") /\ Answer("IGNORED")
    /\ UNCHANGED <<state, left, token, cancelled, ioVars>>

\* Mutant: the token that was cancelled stays installed.
MutRenewToken ==
    /\ pc = "renew" /\ state' = "READY" /\ Answer("SUCCESS") /\ Goto("end")
    /\ UNCHANGED <<token, query, tx, fate, left, interrupts, cancelled, ioVars>>

\* A new cancellation token for the requests that follow
RenewToken ==
    /\ pc = "renew" /\ state' = "READY" /\ Answer("SUCCESS") /\ Goto("end")
    /\ token' = token + 1
    /\ UNCHANGED <<query, tx, fate, left, interrupts, cancelled, ioVars>>

\* ProcessReadyState, ProcessStreamingState, ProcessTransactionState
Allowed == CASE state = "READY" -> {"Begin", "Route", "Run"}
             [] state = "STREAMING" -> {"Pull"}
             [] state = "TX_READY" -> {"Run", "Commit", "Rollback"}
             [] state = "TX_STREAMING" -> {"Run", "Pull"}
             [] OTHER -> {}

Dispatching == pc = "dispatch" /\ ~HasInterrupt
Executing(kind) == Dispatching /\ Kind(cur) = kind /\ kind \in Allowed

\* ProcessRecoverableState
DispatchFailed ==
    /\ Dispatching /\ state = "FAILED" /\ Kind(cur) # "Reset"
    /\ Answer("IGNORED") /\ Goto("end")
    /\ UNCHANGED <<left, session, intVars, ioVars>>

DispatchUnexpected ==
    /\ Dispatching /\ Kind(cur) \notin Allowed
    /\ state # "FAILED" \/ Kind(cur) = "Reset"
    /\ CloseProtocolError

\* ProcessRoute
ProcessRoute ==
    /\ Executing("Route")
    /\ \/ FailSession
       \/ /\ Answer("SUCCESS") /\ Goto("end")
          /\ UNCHANGED <<left, session, intVars, ioVars>>

\* ProcessBegin up to its check; the transaction is still a local.
ProcessBegin ==
    /\ Executing("Begin")
    /\ \/ FailSession
       \/ /\ fate' = [fate EXCEPT ![cur] = Fate("active", None)] /\ Goto("begun")
          /\ UNCHANGED <<left, state, query, tx, io_tasks, intVars, ioVars>>

\* The rest of ProcessBegin
BeginDone ==
    /\ pc = "begun"
    /\ IF Interrupted
       THEN /\ fate' = RolledBack({cur}) /\ Answer("IGNORED")
            /\ UNCHANGED <<state, tx>>
       ELSE /\ tx' = Tx(cur, <<>>, 0) /\ state' = "TX_READY"
            /\ Answer("SUCCESS") /\ UNCHANGED fate
    /\ Goto("end") /\ UNCHANGED <<left, query, intVars, ioVars>>

\* ProcessRun up to its check: outside a transaction the query begins its own.
ProcessRun ==
    /\ Executing("Run")
    /\ \/ FailSession
       \/ /\ \E n \in 0..MaxRows :
                query' = Query(IF tx.id = None THEN cur ELSE None, n, token)
          /\ fate' = IF tx.id = None THEN [fate EXCEPT ![cur] = Fate("active", None)] ELSE fate
          /\ Goto("ran") /\ UNCHANGED <<left, state, tx, io_tasks, intVars, ioVars>>

AddQuery == [q \in DOMAIN tx.queries \cup {tx.next} |->
                IF q = tx.next THEN query ELSE tx.queries[q]]

RunDone ==
    /\ pc = "ran"
    /\ \/ Interrupted /\ Ignore
       \/ /\ ~Interrupted
          /\ IF tx.id = None THEN state' = "STREAMING" /\ UNCHANGED <<tx, query>>
             ELSE /\ tx' = Tx(tx.id, AddQuery, tx.next + 1)
                  /\ state' = "TX_STREAMING" /\ query' = NoQuery
          /\ Answer("SUCCESS") /\ Goto("end")
          /\ UNCHANGED <<fate, left, intVars, ioVars>>

\* The cursor that a PULL or DISCARD takes rows from
InTx == tx.id # None
Qid == IF reqs[cur].qid = -1 THEN tx.next - 1 ELSE reqs[cur].qid
Known == IF InTx THEN Qid \in DOMAIN tx.queries ELSE reqs[cur].qid = -1
Rows == IF InTx THEN tx.queries[Qid].rows ELSE query.rows

Shorter(q) == Query(q.own, q.rows - 1, q.token)
TakeRow == IF InTx THEN /\ tx' = Tx(tx.id, [tx.queries EXCEPT ![Qid] = Shorter(@)], tx.next)
                        /\ UNCHANGED query
                   ELSE query' = Shorter(query) /\ UNCHANGED tx

\* ProcessPullOrDiscard: the stream is looked up,
ProcessPullOrDiscard ==
    /\ Executing("Pull")
    /\ \/ FailSession
       \/ /\ Known /\ left' = reqs[cur].n /\ Goto("pull")
          /\ UNCHANGED <<session, io_tasks, intVars, ioVars>>

\* ... a row is taken after a look for an interrupt, or Next throws or has no row,
PullRow ==
    /\ pc = "pull" /\ left # 0
    /\ \/ Interrupted /\ Ignore
       \/ ~Interrupted /\ FailSession
       \/ /\ ~Interrupted /\ Rows > 0 /\ TakeRow
          /\ left' = IF left > 0 THEN left - 1 ELSE left
          /\ UNCHANGED <<pc, queue, cur, state, fate, io_tasks, intVars, ioVars>>
       \/ /\ ~Interrupted /\ Rows = 0 /\ Goto("pulled")
          /\ UNCHANGED <<left, session, io_tasks, intVars, ioVars>>

\* ... the row after the last one is buffered,
PeekRow ==
    /\ pc = "pull" /\ left = 0
    /\ \/ FailSession
       \/ Goto("pulled") /\ UNCHANGED <<left, session, io_tasks, intVars, ioVars>>

\* ... and the stream goes on, or it ends and outside a transaction is committed.
PullDone ==
    /\ pc = "pulled"
    /\ \/ Interrupted /\ Ignore
       \/ /\ ~Interrupted /\ Rows > 0
          /\ state' = IF InTx THEN "TX_STREAMING" ELSE "STREAMING"
          /\ Answer("SUCCESS") /\ Goto("end")
          /\ UNCHANGED <<left, query, tx, fate, intVars, ioVars>>
       \/ /\ ~Interrupted /\ Rows = 0 /\ InTx
          /\ tx' = Tx(tx.id, [q \in DOMAIN tx.queries \ {Qid} |-> tx.queries[q]], tx.next)
          /\ state' = IF DOMAIN tx.queries = {Qid} THEN "TX_READY" ELSE "TX_STREAMING"
          /\ Answer("SUCCESS") /\ Goto("end")
          /\ UNCHANGED <<left, query, fate, intVars, ioVars>>
       \/ /\ ~Interrupted /\ Rows = 0 /\ ~InTx /\ Goto("commit")
          /\ UNCHANGED <<left, session, io_tasks, intVars, ioVars>>

\* ProcessCommitOrRollback up to its second check; the first is for fields.
StartCommit ==
    /\ Executing("Commit")
    /\ \/ FailSession
       \/ Interrupted /\ Ignore
       \/ /\ ~Interrupted /\ Goto("commit")
          /\ UNCHANGED <<left, session, io_tasks, intVars, ioVars>>

\* Commit, of the transaction or of the query's own: it throws because nothing
\* was proposed, it throws although the proposal is applied after the timeout,
\* or it returns.
Mine == IF InTx THEN tx.id ELSE query.own
Settled(st) == /\ fate' = [fate EXCEPT ![Mine] = Fate(st, cur)]
               /\ query' = NoQuery /\ tx' = NoTx

\* Mutant: the answer looks for an interrupt after the commit.
MutCommit ==
    /\ pc = "commit"
    /\ \/ FailSession
       \/ /\ Settled("committed")
          /\ IF Interrupted THEN Answer("IGNORED") /\ UNCHANGED state
             ELSE Answer("SUCCESS") /\ state' = "READY"
          /\ Goto("end") /\ UNCHANGED <<left, intVars, ioVars>>

Commit ==
    /\ pc = "commit"
    /\ \/ FailSession
       \/ /\ Settled("late")
          /\ IF Interrupted THEN Answer("IGNORED") /\ UNCHANGED state
             ELSE Answer("FAILURE") /\ state' = "FAILED"
          /\ Goto("end") /\ UNCHANGED <<left, intVars, ioVars>>
       \/ /\ Settled("committed") /\ state' = "READY" /\ Answer("SUCCESS")
          /\ Goto("end") /\ UNCHANGED <<left, intVars, ioVars>>

ProcessRollback ==
    /\ Executing("Rollback")
    /\ \/ FailSession
       \/ Interrupted /\ Ignore
       \/ /\ ~Interrupted /\ AbortSession /\ state' = "READY" /\ Answer("SUCCESS")
          /\ Goto("end") /\ UNCHANGED <<left, intVars, ioVars>>

-----------------------------------------------------------------------------
Io == ReadRequest \/ EnqueueReset \/ EnqueueAbort \/ Disconnect \/ IoTask

Strand ==
    \/ StartTask \/ EndTask \/ AbortTask
    \/ DispatchInterrupted \/ RenewToken \/ DispatchFailed \/ DispatchUnexpected
    \/ ProcessRoute \/ ProcessBegin \/ BeginDone \/ ProcessRun \/ RunDone
    \/ ProcessPullOrDiscard \/ PullRow \/ PeekRow \/ PullDone
    \/ StartCommit \/ Commit \/ ProcessRollback

Next == Io \/ StopPool \/ Strand

Spec == Init /\ [][Next]_vars

\* The threads run; nobody is bound to send, to disconnect or to stop the pool.
Fairness == /\ WF_vars(Strand)
            /\ WF_vars(EnqueueReset \/ EnqueueAbort \/ IoTask)

FairSpec == Spec /\ Fairness

-----------------------------------------------------------------------------
Tokens == 1..(MaxRequests + 1)
Queries == [own : 0..MaxRequests, rows : 0..MaxRows, token : {0} \cup Tokens]
States == {"READY", "STREAMING", "TX_READY", "TX_STREAMING", "FAILED", "DEFUNCT"}
Steps == {"idle", "dispatch", "abort", "end", "renew", "begun", "ran", "pull",
          "pulled", "commit"}
Answers == [req : 1..MaxRequests, kind : {"SUCCESS", "FAILURE", "IGNORED", "close"}]

\* Every variable stays in its type; at most one RESET per request and one close
\* are counted, and a new token is made for a RESET only.
TypeOK ==
    /\ reqs \in Seq(Request) /\ Len(reqs) <= MaxRequests
    /\ io \in {"read", "enqueue", "abort"}
    /\ io_tasks \in Seq(Answers) /\ out \in Seq(Answers)
    /\ closed \in BOOLEAN /\ stopped \in BOOLEAN
    /\ interrupts \in 0..(MaxRequests + 1)
    /\ token \in Tokens /\ cancelled \subseteq Tokens
    /\ queue \in Seq(0..MaxRequests) /\ cur \in 0..MaxRequests
    /\ pc \in Steps /\ left \in Int
    /\ state \in States /\ query \in Queries
    /\ tx.id \in 0..MaxRequests /\ tx.next \in 0..MaxRequests
    /\ DOMAIN tx.queries \subseteq 0..MaxRequests
    /\ \A q \in DOMAIN tx.queries : tx.queries[q] \in Queries
    /\ fate \in [1..MaxRequests ->
                    [st : {"none", "active", "rolledback", "committed", "late"},
                     by : 0..MaxRequests]]

Count(S) == Cardinality(S)
Closing == \E i \in DOMAIN io_tasks : io_tasks[i].kind = "close"

\* Requests are answered in the order they came, each exactly once, until the
\* connection is closed: whatever path a handler takes, and however RESETs and
\* the close overtake it, it posts one summary and not two or none.
AnsweredInOrder ==
    /\ \A i \in DOMAIN out : out[i].req = i
    /\ pc = "idle" /\ ~closed /\ ~Closing =>
          Len(out) + Len(io_tasks) + Len(queue) + (IF io = "enqueue" THEN 1 ELSE 0)
            = Len(reqs)

\* A request runs with a token that was cancelled only while an interrupt is
\* pending: RESET installs the new token in a race with the next RequestInterrupt,
\* and no query after it fails because of an interrupt that was answered.
NoStaleCancel ==
    ~HasInterrupt => /\ pc # "renew" => token \notin cancelled
                     /\ query # NoQuery => query.token \notin cancelled
                     /\ \A q \in DOMAIN tx.queries : tx.queries[q].token \notin cancelled

\* An interrupt that was requested while a query runs cancels the token of that
\* query: RequestInterrupt finds the installed token to be the query's own.
InterruptReachesQuery ==
    HasInterrupt /\ io = "read" /\ pc \in {"ran", "pull", "pulled"} =>
        (IF InTx /\ pc # "ran" THEN tx.queries[Qid].token ELSE query.token) \in cancelled

\* Between requests, with no interrupt pending, the session's state says what
\* the session holds: no transaction and no cursor is left behind by a request
\* that failed, and COMMIT is taken only when every cursor is closed.
StateMatchesSession ==
    pc = "idle" /\ ~HasInterrupt =>
        /\ state \in {"READY", "FAILED", "DEFUNCT"} => query = NoQuery /\ tx = NoTx
        /\ state = "STREAMING" => query.own # None /\ tx = NoTx
        /\ state = "TX_READY" => InTx /\ query = NoQuery /\ DOMAIN tx.queries = {}
        /\ state = "TX_STREAMING" => InTx /\ query = NoQuery /\ DOMAIN tx.queries # {}

\* A transaction that is active is held by the session or by the BEGIN that
\* runs: every path that drops it rolls it back.
NoLeakedTransaction ==
    \A t \in DOMAIN fate : fate[t].st = "active" =>
        t \in {tx.id, query.own} \/ (pc = "begun" /\ t = cur)

\* What the client is told is what happened: a request that was answered with
\* IGNORED or FAILURE committed nothing before it was answered, and a COMMIT
\* that was answered with SUCCESS did commit.
AnswersAreTrue ==
    \A i \in DOMAIN out :
        /\ out[i].kind # "SUCCESS" =>
              \A t \in DOMAIN fate : ~(fate[t].st = "committed" /\ fate[t].by = out[i].req)
        /\ out[i].kind = "SUCCESS" /\ Kind(out[i].req) = "Commit" =>
              \E t \in DOMAIN fate : fate[t].st = "committed" /\ fate[t].by = out[i].req

\* Every request is answered in the end, unless the connection is closed.
EveryRequestAnswered ==
    \A i \in 1..MaxRequests : Len(reqs) >= i ~> (closed \/ Len(out) >= i)

\* After a close no transaction stays active: the task of the close handler or
\* the request that runs rolls it back, unless the pool is stopped.
RolledBackOnClose ==
    closed ~> (stopped \/ \A t \in DOMAIN fate : fate[t].st # "active")

\* RequestInterrupt cancels what runs and nothing that comes after the RESET.
InterruptsExact == NoStaleCancel /\ InterruptReachesQuery

\* Between requests the session's state tells what it holds, and every
\* transaction that is active is held by someone who will end it.
SessionSound == TypeOK /\ StateMatchesSession /\ NoLeakedTransaction

\* Requests are answered and closed sessions leave no transaction, in the end.
SessionsEnd == EveryRequestAnswered /\ RolledBackOnClose
=============================================================================
