-------------------------- MODULE BoltSessionProofs --------------------------
(***************************************************************************)
(* The invariants of BoltSession hold for any number of requests.          *)
(***************************************************************************)
EXTENDS BoltSession, TLAPS


-----------------------------------------------------------------------------
(* Queues.                                                                 *)

\* A queue gets longer at its end, and the rest of it stays.
LEMMA AppendFacts ==
  ASSUME NEW S, NEW s \in Seq(S), NEW e \in S
  PROVE  /\ Append(s, e) \in Seq(S) /\ Len(s) \in Nat /\ Len(Append(s, e)) = Len(s) + 1
         /\ Append(s, e)[Len(s) + 1] = e
         /\ \A i \in 1 .. Len(s) : Append(s, e)[i] = s[i]
  OBVIOUS

\* A queue gets shorter at its head, and the rest of it moves up.
LEMMA TailFacts ==
  ASSUME NEW S, NEW s \in Seq(S), s # <<>>
  PROVE  /\ Head(s) \in S /\ Head(s) = s[1] /\ Len(s) \in Nat /\ Len(s) > 0
         /\ Tail(s) \in Seq(S) /\ Len(Tail(s)) = Len(s) - 1
         /\ \A i \in 1 .. Len(s) - 1 : Tail(s)[i] = s[i + 1]
  <1>1. Len(s) \in Nat /\ Len(s) > 0 /\ Head(s) = s[1] /\ Head(s) \in S
    OBVIOUS
  <1>2. Tail(s) \in Seq(S) /\ Len(Tail(s)) = Len(s) - 1
    OBVIOUS
  <1>3. \A i \in 1 .. Len(s) - 1 : Tail(s)[i] = s[i + 1]
    OBVIOUS
  <1> QED
    OBVIOUS

-----------------------------------------------------------------------------
(* The steps of a task.                                                    *)

\* The task runs a request that it has not answered.
Active == {"dispatch", "renew", "begun", "ran", "pull", "pulled", "commit"}
Summaries == {"SUCCESS", "FAILURE", "IGNORED", "close"}

Handler ==
    \/ DispatchInterrupted \/ RenewToken \/ DispatchFailed \/ DispatchUnexpected
    \/ ProcessRoute \/ ProcessBegin \/ BeginDone \/ ProcessRun \/ RunDone
    \/ ProcessPullOrDiscard \/ PullRow \/ PeekRow \/ PullDone
    \/ StartCommit \/ Commit \/ ProcessRollback

\* What every step of a handler does to the queues: it posts nothing and goes
\* on, or it posts one summary, which a closed connection does not take, and
\* ends the task.
Work ==
    /\ pc \in Active
    /\ reqs' = reqs /\ io' = io /\ closed' = closed /\ stopped' = stopped
    /\ out' = out /\ queue' = queue /\ cur' = cur
    /\ \/ pc' \in Active \ {"dispatch"} /\ io_tasks' = io_tasks
       \/ pc' = "end" /\ closed /\ io_tasks' = io_tasks
       \/ pc' = "end" /\ \E k \in Summaries :
                            io_tasks' = Append(io_tasks, [req |-> cur, kind |-> k])

\* Whatever handler runs, and whichever of its paths it takes, its step has that shape.
LEMMA HandlersWork == ASSUME Handler PROVE Work
<1> USE DEF Work, Active, Summaries, Answer, Goto, ioVars
<1>1. CASE DispatchInterrupted
  BY <1>1, Zenon DEF DispatchInterrupted, intVars
<1>2. CASE RenewToken
  BY <1>2, Zenon DEF RenewToken
<1>3. CASE DispatchFailed
  BY <1>3, Zenon DEF DispatchFailed, Dispatching
<1>4. CASE DispatchUnexpected
  BY <1>4, Zenon DEF DispatchUnexpected, Dispatching, CloseProtocolError
<1>a. ASSUME FailSession, pc \in Active PROVE Work
  BY <1>a, Zenon DEF FailSession
<1>b. ASSUME Ignore, pc \in Active PROVE Work
  BY <1>b, Zenon DEF Ignore
<1>5. CASE ProcessRoute
  BY <1>5, <1>a, Zenon DEF ProcessRoute, Executing, Dispatching
<1>6. CASE ProcessBegin
  BY <1>6, <1>a, Zenon DEF ProcessBegin, Executing, Dispatching
<1>7. CASE BeginDone
  BY <1>7, Zenon DEF BeginDone
<1>8. CASE ProcessRun
  BY <1>8, <1>a, Zenon DEF ProcessRun, Executing, Dispatching
<1>9. CASE RunDone
  BY <1>9, <1>b, Zenon DEF RunDone
<1>10. CASE ProcessPullOrDiscard
  BY <1>10, <1>a, Zenon DEF ProcessPullOrDiscard, Executing, Dispatching
<1>11. CASE PullRow
  BY <1>11, <1>a, <1>b, Zenon DEF PullRow
<1>12. CASE PeekRow
  BY <1>12, <1>a, Zenon DEF PeekRow
<1>13. CASE PullDone
  BY <1>13, <1>b, Zenon DEF PullDone
<1>14. CASE StartCommit
  BY <1>14, <1>a, <1>b, Zenon DEF StartCommit, Executing, Dispatching
<1>15. CASE Commit
  BY <1>15, <1>a, Zenon DEF Commit
<1>16. CASE ProcessRollback
  BY <1>16, <1>a, <1>b, Zenon DEF ProcessRollback, Executing, Dispatching
<1> QED
  BY <1>1, <1>2, <1>3, <1>4, <1>5, <1>6, <1>7, <1>8, <1>9, <1>10, <1>11, <1>12,
     <1>13, <1>14, <1>15, <1>16, Zenon DEF Handler

-----------------------------------------------------------------------------
(* Requests are answered in order.                                         *)

Posted == Len(out) + Len(io_tasks)
Running == IF pc \in Active THEN 1 ELSE 0
Unposted == IF io = "enqueue" THEN 1 ELSE 0

OrderType ==
    /\ reqs \in Seq(Request) /\ Len(reqs) <= MaxRequests
    /\ io \in {"read", "enqueue", "abort"}
    /\ io_tasks \in Seq(Answers) /\ out \in Seq(Answers)
    /\ closed \in BOOLEAN /\ stopped \in BOOLEAN
    /\ queue \in Seq(0..MaxRequests) /\ cur \in 0..MaxRequests
    /\ pc \in Steps

\* Every request is in one place: answered, posted, with the task, on the
\* strand, or with the IO thread that still has to post it there.
InOrder ==
    /\ \A j \in 1 .. Len(io_tasks) : io_tasks[j].req = Len(out) + j
    /\ \A k \in 1 .. Len(queue) : queue[k] = Posted + Running + k
    /\ Posted + Running + Len(queue) + Unposted = Len(reqs)
    /\ pc \in Active => cur = Posted + 1
    /\ io # "abort" /\ pc # "abort"

OrderInv ==
    /\ OrderType
    /\ ~closed => InOrder
    /\ \A i \in 1 .. Len(out) : out[i].req = i
    /\ Len(out) <= Len(reqs)
    /\ pc \in Active => cur \in 1 .. Len(reqs) /\ Len(out) < cur
    /\ io = "enqueue" => ~closed /\ Len(reqs) > 0 /\ Kind(Len(reqs)) = "Reset"

\* A connection starts with nothing asked and nothing answered.
LEMMA OrderInit == ASSUME Init PROVE OrderInv
<1>1. OrderType
  <2>1. /\ reqs \in Seq(Request) /\ io_tasks \in Seq(Answers) /\ out \in Seq(Answers)
        /\ queue \in Seq(0..MaxRequests)
    BY DEF Init
  <2>2. Len(reqs) <= MaxRequests /\ cur \in 0..MaxRequests
    BY BoltAssumption DEF Init, None
  <2> QED
    BY <2>1, <2>2, Zenon DEF Init, OrderType, Steps
<1>2. InOrder
  BY DEF Init, InOrder, Posted, Running, Unposted, Active
<1> QED
  BY <1>1, <1>2 DEF Init, OrderInv, Active

\* A step of a handler takes its request from the task to the answers.
LEMMA OrderWork == ASSUME OrderInv, Work PROVE OrderInv'
<1>.  /\ reqs' = reqs /\ io' = io /\ closed' = closed /\ stopped' = stopped
      /\ out' = out /\ queue' = queue /\ cur' = cur /\ pc \in Active
      /\ pc' \in (Active \ {"dispatch"}) \cup {"end"}
  BY Zenon DEF Work
<1>1. CASE io_tasks' = io_tasks /\ (closed \/ pc' \in Active)
  <2>1. OrderType'
    BY <1>1, Zenon DEF OrderInv, OrderType, Active, Steps
  <2> QED
    BY <1>1, <2>1, Zenon DEF OrderInv, OrderType, InOrder, Posted, Running, Unposted, Active, Kind
<1>2. ASSUME pc' = "end", NEW k \in Summaries, io_tasks' = Append(io_tasks, [req |-> cur, kind |-> k])
      PROVE  OrderInv'
  <2>1. cur \in 1 .. MaxRequests
    BY DEF OrderInv, OrderType
  <2>2. [req |-> cur, kind |-> k] \in Answers
    BY <2>1, Zenon DEF Answers, Summaries
  <2>3. OrderType'
    BY <1>2, <2>2 DEF OrderInv, OrderType, Steps
  <2>4. ASSUME ~closed PROVE InOrder'
    <3>1. InOrder /\ cur = Posted + 1
      BY <2>4, Zenon DEF OrderInv, InOrder
    <3>2. Len(io_tasks') = Len(io_tasks) + 1
      BY <1>2 DEF OrderInv, OrderType
    <3>3. ASSUME NEW j \in 1 .. Len(io_tasks') PROVE io_tasks'[j].req = Len(out) + j
      <4>1. CASE j = Len(io_tasks) + 1
        <5>1. io_tasks'[j] = [req |-> cur, kind |-> k]
          BY <1>2, <4>1 DEF OrderInv, OrderType
        <5> QED
          BY <3>1, <4>1, <5>1 DEF Posted
      <4>2. CASE j \in 1 .. Len(io_tasks)
        <5>1. io_tasks'[j] = io_tasks[j]
          BY <1>2, <4>2 DEF OrderInv, OrderType
        <5> QED
          BY <3>1, <4>2, <5>1, Zenon DEF InOrder
      <4> QED
        BY <3>2, <4>1, <4>2 DEF OrderInv, OrderType
    <3> QED
      BY <1>2, <3>1, <3>3 DEF OrderInv, OrderType, InOrder, Posted, Running, Unposted, Active
  <2> QED
    BY <2>3, <2>4, Zenon DEF OrderInv, Active, Kind
<1> QED
  BY <1>1, <1>2, Zenon DEF Work

\* The strand takes the oldest request that it holds.
LEMMA OrderStart == ASSUME OrderInv, StartTask PROVE OrderInv'
<1>.  /\ reqs' = reqs /\ io' = io /\ closed' = closed /\ stopped' = stopped
      /\ out' = out /\ io_tasks' = io_tasks
      /\ pc = "idle" /\ queue # <<>> /\ queue' = Tail(queue) /\ cur' = Head(queue)
      /\ pc' = IF Head(queue) = None \/ closed THEN "abort" ELSE "dispatch"
  BY Zenon DEF StartTask, ioVars
<1>1. /\ Head(queue) \in 0..MaxRequests /\ Head(queue) = queue[1] /\ Len(queue) > 0
      /\ Tail(queue) \in Seq(0..MaxRequests) /\ Len(Tail(queue)) = Len(queue) - 1
      /\ \A k \in 1 .. Len(queue) - 1 : Tail(queue)[k] = queue[k + 1]
  BY TailFacts, Zenon DEF OrderInv, OrderType
<1>2. OrderType'
  BY <1>1, Zenon DEF OrderInv, OrderType, Steps
<1>3. ASSUME ~closed PROVE InOrder' /\ pc' = "dispatch" /\ cur' \in 1 .. Len(reqs) /\ Len(out) < cur'
  <2>1. InOrder /\ Posted \in Nat /\ Running = 0 /\ Len(out) <= Posted /\ Unposted \in Nat
    BY <1>3 DEF OrderInv, OrderType, Posted, Running, Active, Unposted
  <2>2. cur' = Posted + 1 /\ pc' = "dispatch"
    BY <1>3, <2>1 DEF InOrder, None
  <2>3. Posted' = Posted /\ Running' = 1 /\ Unposted' = Unposted
    BY <2>2, Zenon DEF Posted, Running, Unposted, Active
  <2>4. \A k \in 1 .. Len(queue') : queue'[k] = Posted + 1 + k
    BY <2>1 DEF InOrder, OrderInv, OrderType
  <2> QED
    BY <2>1, <2>2, <2>3 DEF InOrder, OrderInv, OrderType
<1> QED
  BY <1>2, <1>3, Zenon DEF OrderInv, Active, Kind

\* The end of a task and the task of the close handler move no request.
LEMMA OrderEnd == ASSUME OrderInv, EndTask \/ AbortTask PROVE OrderInv'
<1>.  /\ reqs' = reqs /\ io' = io /\ closed' = closed /\ stopped' = stopped
      /\ out' = out /\ io_tasks' = io_tasks /\ queue' = queue /\ cur' = cur
      /\ pc \in {"end", "abort"} /\ pc' \in {"idle", "abort"} /\ (~closed => pc' = "idle")
  BY Zenon DEF EndTask, AbortTask, Goto, ioVars
<1>1. OrderType'
  BY Zenon DEF OrderInv, OrderType, Steps
<1>2. ~closed => InOrder'
  BY Zenon DEF OrderInv, OrderType, InOrder, Posted, Running, Unposted, Active
<1> QED
  BY <1>1, <1>2, Zenon DEF OrderInv, Active, Kind

\* A request that is read is put behind every other.
LEMMA OrderRead == ASSUME OrderInv, ReadRequest PROVE OrderInv'
<1>.  /\ io = "read" /\ ~closed /\ Len(reqs) < MaxRequests
      /\ stopped' = stopped /\ out' = out /\ io_tasks' = io_tasks /\ pc' = pc /\ cur' = cur
  BY Zenon DEF ReadRequest
<1>1. PICK r \in Request :
         /\ reqs' = Append(reqs, r)
         /\ \/ r.kind = "Reset" /\ io' = "enqueue" /\ closed' = closed /\ queue' = queue
            \/ closed' = TRUE /\ io' = "abort" /\ queue' = queue
            \/ queue' = Append(queue, Len(reqs) + 1) /\ closed' = closed /\ io' = io
  <2>1. PICK r \in Request :
         /\ reqs' = Append(reqs, r)
         /\ CASE r.kind = "Reset" ->
                    CountInterrupt("enqueue") /\ UNCHANGED <<closed, queue>>
              [] r.kind = "Goodbye" \/ (r.kind # "Reset" /\ stopped) ->
                    Close /\ UNCHANGED queue
              [] OTHER -> /\ queue' = Append(queue, Len(reqs) + 1)
                          /\ UNCHANGED <<closed, io, intVars>>
    BY Zenon DEF ReadRequest
  <2> QED
    BY <2>1, Zenon DEF CountInterrupt, Close
<1>2. /\ reqs \in Seq(Request) /\ reqs' \in Seq(Request) /\ Len(reqs') = Len(reqs) + 1
      /\ Len(reqs') <= MaxRequests /\ reqs'[Len(reqs')] = r
      /\ \A i \in 1 .. Len(reqs) : reqs'[i] = reqs[i]
  BY <1>1, BoltAssumption DEF OrderInv, OrderType
<1>3. OrderType'
  <2>1. Len(reqs) + 1 \in 0..MaxRequests
    BY <1>2 DEF OrderInv, OrderType
  <2>2. queue \in Seq(0..MaxRequests) /\ Append(queue, Len(reqs) + 1) \in Seq(0..MaxRequests)
    <3>1. queue \in Seq(0..MaxRequests)
      BY Zenon DEF OrderInv, OrderType
    <3> QED
      BY <2>1, <3>1
  <2> QED
    BY <1>1, <1>2, <2>2, Zenon DEF OrderInv, OrderType
<1>4. ASSUME ~closed' PROVE InOrder'
  <2>1. InOrder /\ Posted' = Posted /\ Running' = Running /\ Unposted = 0
        /\ Posted \in Nat /\ Running \in {0, 1}
    BY DEF OrderInv, OrderType, Posted, Running, Unposted
  <2>2. CASE io' = "enqueue" /\ queue' = queue
    <3>1. Unposted' = 1 /\ Len(queue) \in Nat /\ Len(reqs) \in Nat
      BY <2>2 DEF Unposted, OrderInv, OrderType
    <3>2. Posted' + Running' + Len(queue') + Unposted' = Len(reqs')
      BY <1>2, <2>1, <2>2, <3>1 DEF InOrder
    <3> QED
      BY <2>1, <2>2, <3>2, Zenon DEF InOrder
  <2>3. CASE queue' = Append(queue, Len(reqs) + 1) /\ io' = io
    <3>1. Unposted' = 0 /\ Len(queue') = Len(queue) + 1 /\ Len(queue) \in Nat
      BY <2>3 DEF Unposted, OrderInv, OrderType
    <3>2. ASSUME NEW k \in 1 .. Len(queue') PROVE queue'[k] = Posted + Running + k
      <4>1. queue \in Seq(0..MaxRequests) /\ Len(reqs) + 1 \in 0..MaxRequests
        BY <1>2 DEF OrderInv, OrderType
      <4>2. /\ queue'[Len(queue) + 1] = Len(reqs) + 1
            /\ \A i \in 1 .. Len(queue) : queue'[i] = queue[i]
        BY <2>3
      <4>3. /\ Posted + Running + Len(queue) = Len(reqs)
            /\ \A i \in 1 .. Len(queue) : queue[i] = Posted + Running + i
        BY <2>1 DEF InOrder
      <4>4. CASE k \in 1 .. Len(queue)
        BY <4>2, <4>3, <4>4, Zenon
      <4>5. CASE k = Len(queue) + 1
        BY <2>1, <3>1, <4>2, <4>3, <4>5
      <4>6. k \in 1 .. Len(queue) \/ k = Len(queue) + 1
        BY <3>1
      <4> QED
        BY <4>4, <4>5, <4>6, Zenon
    <3> QED
      BY <1>2, <2>1, <2>3, <3>1, <3>2 DEF InOrder
  <2> QED
    BY <1>1, <1>4, <2>2, <2>3, Zenon
<1>5. /\ Len(out') <= Len(reqs')
      /\ pc' \in Active => cur' \in 1 .. Len(reqs') /\ Len(out') < cur'
  BY <1>2 DEF OrderInv, OrderType
<1> QED
  BY <1>1, <1>3, <1>4 DEF OrderInv, Kind

\* What closes the connection, or finds it closed, moves no request but those
\* that are dropped.
LEMMA OrderClosed ==
  ASSUME OrderInv, closed', io' \in {"read", "abort"}, stopped' \in BOOLEAN,
         reqs' = reqs, out' = out, pc' = pc, cur' = cur,
         io_tasks' \in Seq(Answers), queue' \in Seq(0..MaxRequests), closed' \in BOOLEAN
  PROVE  OrderInv'
<1>1. OrderType'
  BY Zenon DEF OrderInv, OrderType
<1> QED
  BY <1>1, Zenon DEF OrderInv, Kind

\* A RESET takes its place on the strand after it was counted.
LEMMA OrderEnqueue == ASSUME OrderInv, EnqueueReset PROVE OrderInv'
<1>.  /\ io = "enqueue" /\ ~closed
      /\ reqs' = reqs /\ stopped' = stopped /\ out' = out /\ io_tasks' = io_tasks
      /\ pc' = pc /\ cur' = cur
      /\ \/ closed' = TRUE /\ io' = "abort" /\ queue' = queue
         \/ queue' = Append(queue, Len(reqs)) /\ io' = "read" /\ closed' = closed
  BY Zenon DEF EnqueueReset, OrderInv
<1>1. CASE closed' = TRUE /\ io' = "abort" /\ queue' = queue
  <2>1. stopped' \in BOOLEAN /\ io_tasks' \in Seq(Answers) /\ queue' \in Seq(0..MaxRequests)
    BY <1>1, Zenon DEF OrderInv, OrderType
  <2> QED
    BY <1>1, <2>1, OrderClosed, Zenon
<1>2. CASE queue' = Append(queue, Len(reqs)) /\ io' = "read" /\ closed' = closed
  <2>1. /\ queue \in Seq(0..MaxRequests) /\ Len(reqs) \in 0..MaxRequests
        /\ InOrder /\ Posted \in Nat /\ Running \in {0, 1} /\ Unposted = 1
    BY DEF OrderInv, OrderType, Posted, Running, Unposted
  <2>2. /\ queue' \in Seq(0..MaxRequests) /\ Len(queue) \in Nat /\ Len(queue') = Len(queue) + 1
        /\ queue'[Len(queue) + 1] = Len(reqs)
        /\ \A k \in 1 .. Len(queue) : queue'[k] = queue[k]
    BY <1>2, <2>1
  <2>3. OrderType'
    BY <2>2, Zenon DEF OrderInv, OrderType
  <2>4. Posted' = Posted /\ Running' = Running /\ Unposted' = 0
    BY Zenon DEF Posted, Running, Unposted
  <2>5. ASSUME NEW k \in 1 .. Len(queue') PROVE queue'[k] = Posted + Running + k
    <3>1. /\ Posted + Running + Len(queue) + 1 = Len(reqs)
          /\ \A i \in 1 .. Len(queue) : queue[i] = Posted + Running + i
      BY <2>1, Zenon DEF InOrder
    <3>2. CASE k \in 1 .. Len(queue)
      BY <2>2, <3>1, <3>2, Zenon
    <3>3. CASE k = Len(queue) + 1
      BY <2>1, <2>2, <3>1, <3>3
    <3>4. k \in 1 .. Len(queue) \/ k = Len(queue) + 1
      BY <2>2
    <3> QED
      BY <3>2, <3>3, <3>4, Zenon
  <2>6. InOrder'
    BY <2>1, <2>2, <2>4, <2>5 DEF InOrder
  <2> QED
    BY <2>3, <2>6, Zenon DEF OrderInv
<1> QED
  BY <1>1, <1>2, Zenon

\* The close moves no request.
LEMMA OrderClose == ASSUME OrderInv, EnqueueAbort \/ Disconnect PROVE OrderInv'
<1>.  /\ reqs' = reqs /\ stopped' = stopped /\ out' = out /\ io_tasks' = io_tasks
      /\ pc' = pc /\ cur' = cur /\ closed' = TRUE /\ io' \in {"read", "abort"}
      /\ queue' \in {queue, Append(queue, None)}
  BY Zenon DEF EnqueueAbort, Disconnect, Close, CountInterrupt, strand, OrderInv, OrderType, InOrder
<1>1. stopped' \in BOOLEAN /\ io_tasks' \in Seq(Answers) /\ queue \in Seq(0..MaxRequests)
  BY Zenon DEF OrderInv, OrderType
<1>2. Append(queue, None) \in Seq(0..MaxRequests)
  <2>1. None \in 0..MaxRequests
    BY BoltAssumption DEF None
  <2> QED
    BY <1>1, <2>1
<1> QED
  BY <1>1, <1>2, OrderClosed, Zenon

\* The IO thread sends the oldest answer that it holds, or closes.
LEMMA OrderIo == ASSUME OrderInv, IoTask PROVE OrderInv'
<1>.  /\ io = "read" /\ io_tasks # <<>> /\ io_tasks' = Tail(io_tasks)
      /\ reqs' = reqs /\ stopped' = stopped /\ queue' = queue /\ pc' = pc /\ cur' = cur
      /\ \/ closed' = TRUE /\ io' \in {"read", "abort"} /\ out' = out
         \/ ~closed /\ closed' = closed /\ io' = io /\ out' = Append(out, Head(io_tasks))
  BY Zenon DEF IoTask, Respond, Close, CountInterrupt, strand, OrderInv, OrderType
<1>1. /\ Head(io_tasks) \in Answers /\ Head(io_tasks) = io_tasks[1]
      /\ Len(io_tasks) \in Nat /\ Len(io_tasks) > 0
      /\ Tail(io_tasks) \in Seq(Answers) /\ Len(Tail(io_tasks)) = Len(io_tasks) - 1
      /\ \A i \in 1 .. Len(io_tasks) - 1 : Tail(io_tasks)[i] = io_tasks[i + 1]
  BY DEF OrderInv, OrderType
<1>2. CASE closed' = TRUE /\ io' \in {"read", "abort"} /\ out' = out
  <2>1. stopped' \in BOOLEAN /\ io_tasks' \in Seq(Answers) /\ queue' \in Seq(0..MaxRequests)
    BY DEF OrderInv, OrderType
  <2> QED
    BY <1>2, <2>1, OrderClosed, Zenon
<1>3. CASE ~closed /\ closed' = closed /\ io' = io /\ out' = Append(out, Head(io_tasks))
  <2>1. out \in Seq(Answers) /\ InOrder /\ Len(queue) \in Nat
    BY <1>3 DEF OrderInv, OrderType
  <2>2. /\ out' \in Seq(Answers) /\ Len(out) \in Nat /\ Len(out') = Len(out) + 1
        /\ out'[Len(out) + 1] = io_tasks[1]
        /\ \A i \in 1 .. Len(out) : out'[i] = out[i]
    BY <1>1, <1>3, <2>1
  <2>3. OrderType'
    BY <2>2 DEF OrderInv, OrderType
  <2>4. Posted' = Posted /\ Running' = Running /\ Unposted' = Unposted
    BY <2>2 DEF Posted, Running, Unposted
  <2>5. \A j \in 1 .. Len(io_tasks') : io_tasks'[j].req = Len(out') + j
    BY <2>1, <2>2 DEF InOrder
  <2>6. InOrder'
    BY <1>3, <2>1, <2>4 DEF InOrder
  <2>7. io_tasks[1].req = Len(out) + 1
    BY <1>1, <2>1 DEF InOrder
  <2>8. Len(out') <= Len(reqs') /\ (pc' \in Active => cur' \in 1 .. Len(reqs') /\ Len(out') < cur')
    <3>1. /\ Posted = Len(out) + Len(io_tasks) /\ Running \in {0, 1} /\ Unposted \in {0, 1}
          /\ Len(reqs) \in Nat
      BY DEF Posted, Running, Unposted, OrderInv, OrderType
    <3> QED
      BY <3>1 DEF InOrder, OrderInv
  <2>9. \A i \in 1 .. Len(out') : out'[i].req = i
    <3>1. \A i \in 1 .. Len(out) : out[i].req = i
      BY Zenon DEF OrderInv
    <3> SUFFICES ASSUME NEW i \in 1 .. Len(out') PROVE out'[i].req = i
      BY Zenon
    <3>2. i \in 1 .. Len(out) \/ i = Len(out) + 1
      BY <2>2
    <3> QED
      BY <2>2, <2>7, <3>1, <3>2, Zenon
  <2> QED
    BY <2>3, <2>6, <2>8, <2>9, Zenon DEF OrderInv
<1> QED
  BY <1>2, <1>3, Zenon

\* The order is kept by every step.
LEMMA OrderNext == ASSUME OrderInv, [Next]_vars PROVE OrderInv'
<1>1. CASE Handler
  BY <1>1, HandlersWork, OrderWork, Zenon
<1>2. CASE StopPool
  BY <1>2, Zenon DEF StopPool, intVars, strand, session, OrderInv, OrderType, InOrder, Posted,
              Running, Unposted, Kind
<1>3. CASE UNCHANGED vars
  BY <1>3, Zenon DEF vars, ioVars, strand, OrderInv, OrderType, InOrder, Posted, Running, Unposted, Kind
<1> QED
  BY <1>1, <1>2, <1>3, OrderStart, OrderEnd, OrderRead, OrderEnqueue, OrderClose, OrderIo, Zenon
     DEF Next, Io, Strand, Handler

-----------------------------------------------------------------------------
(* The interrupts that are pending.                                        *)

\* The requests that ProcessBoltMessage has looked at
Dispatched == Posted + (IF pc \in Active \ {"dispatch"} THEN 1 ELSE 0)

Monotone(c, n) == \A i, j \in 0 .. n : i <= j => c[i] <= c[j]

\* c[i] is how many of the first i requests are RESETs.
Resets(c) ==
    /\ c[0] = 0
    /\ \A i \in 1 .. Len(reqs) : c[i] = c[i - 1] + (IF Kind(i) = "Reset" THEN 1 ELSE 0)
    /\ Monotone(c, Len(reqs))

\* Until the connection is closed the interrupts are the RESETs that were read
\* and not dispatched; the close adds one that no RESET uses up.
InterruptInv ==
    /\ interrupts \in 0 .. MaxRequests + 1
    /\ ~closed => \E c \in [0 .. Len(reqs) -> 0 .. Len(reqs)] :
                     Resets(c) /\ interrupts = c[Len(reqs)] - c[Dispatched]
    /\ closed => interrupts >= 1 + (IF pc = "dispatch" /\ Kind(cur) = "Reset" THEN 1 ELSE 0)

\* The task takes rows, or is about to.
Querying == {"ran", "pull", "pulled"}

\* The interrupts, seen by a handler that is not about them
Quiet ==
    /\ interrupts' = interrupts /\ token' = token /\ cancelled' = cancelled
    /\ pc # "renew" /\ pc' # "renew"
    /\ pc = "dispatch" => ~HasInterrupt
    /\ pc' \in Querying => pc \in Querying \cup {"dispatch"}

\* The handlers that are about interrupts are those of RESET and of what it interrupts.
LEMMA HandlersQuiet == ASSUME Handler, ~DispatchInterrupted, ~RenewToken PROVE Quiet
<1> USE DEF Quiet, Querying, Goto, intVars
<1>3. CASE DispatchFailed
  BY <1>3, Zenon DEF DispatchFailed, Dispatching
<1>4. CASE DispatchUnexpected
  BY <1>4, Zenon DEF DispatchUnexpected, Dispatching, CloseProtocolError
<1>5. CASE ProcessRoute
  BY <1>5, Zenon DEF ProcessRoute, Executing, Dispatching, FailSession
<1>6. CASE ProcessBegin
  BY <1>6, Zenon DEF ProcessBegin, Executing, Dispatching, FailSession
<1>7. CASE BeginDone
  BY <1>7, Zenon DEF BeginDone
<1>8. CASE ProcessRun
  BY <1>8, Zenon DEF ProcessRun, Executing, Dispatching, FailSession
<1>9. CASE RunDone
  BY <1>9, Zenon DEF RunDone, Ignore
<1>10. CASE ProcessPullOrDiscard
  BY <1>10, Zenon DEF ProcessPullOrDiscard, Executing, Dispatching, FailSession
<1>11. CASE PullRow
  BY <1>11, Zenon DEF PullRow, FailSession, Ignore
<1>12. CASE PeekRow
  BY <1>12, Zenon DEF PeekRow, FailSession
<1>13. CASE PullDone
  BY <1>13, Zenon DEF PullDone, Ignore
<1>14. CASE StartCommit
  BY <1>14, Zenon DEF StartCommit, Executing, Dispatching, FailSession, Ignore
<1>15. CASE Commit
  BY <1>15, Zenon DEF Commit, FailSession
<1>16. CASE ProcessRollback
  BY <1>16, Zenon DEF ProcessRollback, Executing, Dispatching, FailSession, Ignore
<1> QED
  BY <1>3, <1>4, <1>5, <1>6, <1>7, <1>8, <1>9, <1>10, <1>11, <1>12,
     <1>13, <1>14, <1>15, <1>16, Zenon DEF Handler

\* A new connection has no RESET to answer.
LEMMA InterruptInit == ASSUME Init PROVE InterruptInv
<1>1. /\ Len(reqs) = 0 /\ Dispatched = 0 /\ interrupts = 0 /\ ~closed
  BY DEF Init, Dispatched, Posted, Active
<1>2. [i \in 0 .. 0 |-> 0] \in [0 .. Len(reqs) -> 0 .. Len(reqs)] /\ Resets([i \in 0 .. 0 |-> 0])
  BY <1>1 DEF Resets, Monotone
<1> QED
  BY <1>1, <1>2, BoltAssumption DEF InterruptInv

\* While the connection is open, an interrupt is pending for each RESET that is
\* about to be dispatched or posted, and there are no more than requests.
LEMMA InterruptOpen ==
  ASSUME OrderInv, InterruptInv, ~closed
  PROVE  /\ interrupts \in 0 .. Len(reqs) /\ Dispatched \in 0 .. Len(reqs)
         /\ pc = "dispatch" /\ Kind(cur) = "Reset" => interrupts >= 1
         /\ io = "enqueue" => interrupts >= 1
<1>1. PICK c \in [0 .. Len(reqs) -> 0 .. Len(reqs)] :
         Resets(c) /\ interrupts = c[Len(reqs)] - c[Dispatched]
  BY Zenon DEF InterruptInv
<1>2. /\ Len(reqs) \in Nat /\ Len(queue) \in Nat /\ Posted \in Nat
      /\ pc \in Active => cur = Posted + 1
      /\ Posted + Running + Len(queue) + Unposted = Len(reqs)
      /\ io = "enqueue" => Len(reqs) > 0 /\ Kind(Len(reqs)) = "Reset"
      /\ InOrder
  BY DEF OrderInv, OrderType, InOrder, Posted
<1>3. Dispatched \in 0 .. Len(reqs) /\ (io = "enqueue" => Dispatched <= Len(reqs) - 1)
  <2>1. /\ Running \in {0, 1} /\ Unposted \in {0, 1} /\ (io = "enqueue" => Unposted = 1)
        /\ Dispatched = Posted \/ (Dispatched = Posted + 1 /\ Running = 1)
    BY <1>2 DEF Dispatched, Running, Unposted
  <2> QED
    BY <1>2, <2>1
<1>4. interrupts \in 0 .. Len(reqs)
  <2>1. c[Len(reqs)] \in 0 .. Len(reqs) /\ c[Dispatched] \in 0 .. Len(reqs)
    BY <1>3
  <2>2. c[Dispatched] <= c[Len(reqs)]
    BY <1>1, <1>3 DEF Resets, Monotone
  <2> QED
    BY <1>1, <2>1, <2>2
<1>5. ASSUME pc = "dispatch", Kind(cur) = "Reset" PROVE interrupts >= 1
  <2>1. Dispatched = cur - 1 /\ cur \in 1 .. Len(reqs)
    BY <1>2, <1>5 DEF Dispatched, Running, Unposted, Active
  <2>2. c[cur] = c[cur - 1] + 1 /\ c[cur] <= c[Len(reqs)]
    BY <1>1, <1>5, <2>1 DEF Resets, Monotone
  <2> QED
    BY <1>1, <2>1, <2>2
<1>6. ASSUME io = "enqueue" PROVE interrupts >= 1
  <2>1. c[Len(reqs)] = c[Len(reqs) - 1] + 1 /\ c[Dispatched] <= c[Len(reqs) - 1]
    BY <1>1, <1>2, <1>3, <1>6 DEF Resets, Monotone
  <2> QED
    BY <1>1, <1>3, <1>6, <2>1
<1> QED
  BY <1>3, <1>4, <1>5, <1>6, Zenon

\* A step that reads no request and counts no interrupt keeps the count, if it
\* keeps the requests that are dispatched.
LEMMA InterruptSame ==
  ASSUME InterruptInv, reqs' = reqs, closed' = closed, interrupts' = interrupts,
         ~closed => Dispatched' = Dispatched,
         closed /\ pc' = "dispatch" => pc = "dispatch" /\ cur' = cur
  PROVE  InterruptInv'
  BY DEF InterruptInv, Resets, Kind

\* The first close counts one interrupt more.
LEMMA InterruptClose ==
  ASSUME OrderInv, InterruptInv, ~closed, closed' = TRUE, interrupts' = interrupts + 1,
         pc' = pc, cur' = cur, pc = "dispatch" => reqs'[cur] = reqs[cur]
  PROVE  InterruptInv'
<1>1. interrupts \in 0 .. Len(reqs) /\ (pc = "dispatch" /\ Kind(cur) = "Reset" => interrupts >= 1)
  BY InterruptOpen, Zenon
<1>2. Len(reqs) \in 0 .. MaxRequests
  BY DEF OrderInv, OrderType
<1> QED
  BY <1>1, <1>2, BoltAssumption DEF InterruptInv, Kind

\* While the connection is open, a request that a handler has run for is
\* dispatched, whether or not it is answered.
LEMMA WorkDispatched == ASSUME OrderInv, Work, ~closed PROVE Dispatched' = Posted + 1 /\ Posted \in Nat
<1>.  out' = out /\ cur' = cur /\ pc \in Active
  BY Zenon DEF Work
<1>1. CASE io_tasks' = io_tasks /\ pc' \in Active \ {"dispatch"}
  BY <1>1 DEF Dispatched, Posted, Active, OrderInv, OrderType
<1>2. ASSUME pc' = "end", NEW k \in Summaries, io_tasks' = Append(io_tasks, [req |-> cur, kind |-> k])
      PROVE  Dispatched' = Posted + 1 /\ Posted \in Nat
  <2>1. [req |-> cur, kind |-> k] \in Answers
    BY DEF Answers, Summaries, OrderInv, OrderType
  <2>2. Len(io_tasks') = Len(io_tasks) + 1 /\ Len(io_tasks) \in Nat /\ Len(out) \in Nat
    BY <1>2 DEF OrderInv, OrderType
  <2> QED
    BY <1>2 DEF Dispatched, Posted, Active
<1> QED
  BY <1>1, <1>2, Zenon DEF Work

\* A handler that is not about interrupts runs because none is pending, so no
\* RESET is among the requests behind it.
LEMMA InterruptQuiet == ASSUME OrderInv, InterruptInv, Work, Quiet PROVE InterruptInv'
<1>.  /\ reqs' = reqs /\ closed' = closed /\ out' = out /\ cur' = cur /\ interrupts' = interrupts
      /\ pc \in Active /\ pc' # "dispatch" /\ (pc = "dispatch" => interrupts = 0)
  BY DEF Work, Quiet, HasInterrupt, InterruptInv, Active
<1>1. CASE closed
  BY <1>1, InterruptSame, Zenon
<1>2. CASE ~closed
  <2>1. Dispatched' = Posted + 1 /\ Posted \in Nat
    BY <1>2, WorkDispatched, Zenon
  <2>2. CASE pc # "dispatch"
    <3>1. Dispatched = Posted + 1
      BY <2>2, Zenon DEF Dispatched
    <3> QED
      BY <2>1, <3>1, InterruptSame, Zenon
  <2>3. CASE pc = "dispatch"
    <3>1. PICK c \in [0 .. Len(reqs) -> 0 .. Len(reqs)] :
             Resets(c) /\ interrupts = c[Len(reqs)] - c[Dispatched]
      BY <1>2, Zenon DEF InterruptInv
    <3>2. Dispatched = Posted /\ Posted + 1 \in 1 .. Len(reqs) /\ Len(reqs) \in Nat
      BY <1>2, <2>1, <2>3 DEF Dispatched, OrderInv, OrderType, InOrder
    <3>3. /\ c[Posted] <= c[Posted + 1] /\ c[Posted + 1] <= c[Len(reqs)]
          /\ c[Posted] \in Nat /\ c[Posted + 1] \in Nat /\ c[Len(reqs)] \in Nat
      <4>1. \A i, j \in 0 .. Len(reqs) : i <= j => c[i] <= c[j]
        BY <3>1, Zenon DEF Resets, Monotone
      <4>2. Posted \in 0 .. Len(reqs) /\ Posted + 1 \in 0 .. Len(reqs) /\ Len(reqs) \in 0 .. Len(reqs)
        BY <2>1, <3>2
      <4>3. \A i \in 0 .. Len(reqs) : c[i] \in Nat
        BY <3>1
      <4> QED
        BY <3>2, <4>1, <4>2, <4>3
    <3>4. interrupts = c[Len(reqs)] - c[Dispatched']
      BY <2>1, <2>3, <3>1, <3>2, <3>3
    <3>5. Resets(c)'
      BY <3>1, Zenon DEF Resets, Monotone, Kind
    <3> QED
      BY <3>4, <3>5 DEF InterruptInv
  <2> QED
    BY <2>2, <2>3, Zenon
<1> QED
  BY <1>1, <1>2, Zenon

\* A RESET that is dispatched takes its interrupt with it; what it interrupts
\* leaves the count alone.
LEMMA InterruptDispatch == ASSUME OrderInv, InterruptInv, Work, DispatchInterrupted PROVE InterruptInv'
<1>.  /\ reqs' = reqs /\ closed' = closed /\ out' = out /\ cur' = cur
      /\ pc = "dispatch" /\ pc' # "dispatch" /\ interrupts > 0
      /\ interrupts' = IF Kind(cur) = "Reset" THEN interrupts - 1 ELSE interrupts
  BY Zenon DEF Work, DispatchInterrupted, HasInterrupt, Active, Goto
<1>a. interrupts \in 0 .. MaxRequests + 1 /\ interrupts' \in 0 .. MaxRequests + 1
  BY BoltAssumption DEF InterruptInv
<1>1. CASE closed
  <2>1. interrupts' >= 1
    BY <1>1 DEF InterruptInv
  <2> QED
    BY <1>a, <1>1 DEF InterruptInv
<1>2. CASE ~closed
  <2>1. Dispatched' = Posted + 1 /\ Posted \in Nat
    BY <1>2, WorkDispatched, Zenon
  <2>2. PICK c \in [0 .. Len(reqs) -> 0 .. Len(reqs)] :
           Resets(c) /\ interrupts = c[Len(reqs)] - c[Dispatched]
    BY <1>2, Zenon DEF InterruptInv
  <2>3. Dispatched = Posted /\ cur = Posted + 1 /\ cur \in 1 .. Len(reqs) /\ Len(reqs) \in Nat
    BY <1>2, <2>1 DEF Dispatched, OrderInv, OrderType, InOrder, Active
  <2>4. /\ c[cur] = c[cur - 1] + (IF Kind(cur) = "Reset" THEN 1 ELSE 0)
        /\ c[cur] \in Nat /\ c[cur - 1] \in Nat /\ c[Len(reqs)] \in Nat
    <3>1. cur - 1 \in 0 .. Len(reqs) /\ cur \in 0 .. Len(reqs) /\ Len(reqs) \in 0 .. Len(reqs)
      BY <2>3
    <3>2. \A i \in 0 .. Len(reqs) : c[i] \in Nat
      OBVIOUS
    <3> QED
      BY <2>2, <3>1, <3>2 DEF Resets, Monotone
  <2>5. interrupts' = c[Len(reqs)] - c[Dispatched']
    BY <2>1, <2>2, <2>3, <2>4
  <2>6. Resets(c)'
    BY <2>2, Zenon DEF Resets, Monotone, Kind
  <2> QED
    BY <1>a, <2>5, <2>6 DEF InterruptInv
<1> QED
  BY <1>1, <1>2, Zenon

\* A count of the RESETs goes on with the request that is read.
LEMMA CountGoesOn ==
  ASSUME NEW n \in Nat, NEW c \in [0 .. n -> 0 .. n], NEW e \in {0, 1},
         Monotone(c, n)
  PROVE  \E d \in [0 .. n + 1 -> 0 .. n + 1] :
            d[n + 1] = c[n] + e /\ (\A i \in 0 .. n : d[i] = c[i]) /\ Monotone(d, n + 1)
<1> DEFINE d == [i \in 0 .. n + 1 |-> IF i = n + 1 THEN c[n] + e ELSE c[i]]
<1>1. \A i \in 0 .. n : c[i] \in 0 .. n /\ i \in 0 .. n + 1 /\ i # n + 1 /\ c[i] <= c[n]
  BY DEF Monotone
<1>2. c[n] + e \in 0 .. n + 1 /\ n + 1 \in 0 .. n + 1
  OBVIOUS
<1>3. ASSUME NEW i \in 0 .. n + 1 PROVE (IF i = n + 1 THEN c[n] + e ELSE c[i]) \in 0 .. n + 1
  <2>1. i = n + 1 \/ i \in 0 .. n
    OBVIOUS
  <2> QED
    BY <1>1, <1>2
<1>4. d \in [0 .. n + 1 -> 0 .. n + 1]
  BY <1>3, Zenon
<1>5. d[n + 1] = c[n] + e /\ \A i \in 0 .. n : d[i] = c[i]
  OBVIOUS
<1> HIDE DEF d
<1>6. ASSUME NEW i \in 0 .. n + 1, NEW j \in 0 .. n + 1, i <= j PROVE d[i] <= d[j]
  <2>1. CASE i \in 0 .. n /\ j \in 0 .. n
    <3>1. c[i] <= c[j]
      BY <1>6, <2>1, Zenon DEF Monotone
    <3>2. d[i] = c[i] /\ d[j] = c[j]
      BY <1>5, <2>1, Zenon
    <3> QED
      BY <3>1, <3>2, Zenon
  <2>2. CASE i \in 0 .. n /\ j = n + 1
    <3>1. c[i] \in Nat /\ c[n] \in Nat /\ c[i] <= c[n] /\ c[n] <= c[n] + e
      BY <1>1, <2>2
    <3>2. d[i] = c[i] /\ d[j] = c[n] + e
      BY <1>5, <2>2, Zenon
    <3> QED
      BY <3>1, <3>2
  <2>3. CASE i = n + 1 /\ j = n + 1
    BY <1>5, <2>3
  <2> QED
    BY <1>6, <2>1, <2>2, <2>3
<1>7. Monotone(d, n + 1)
  BY <1>6, Zenon DEF Monotone
<1> QED
  BY <1>4, <1>5, <1>7, Zenon

\* A RESET that is read is counted.
LEMMA InterruptRead == ASSUME OrderInv, InterruptInv, ReadRequest PROVE InterruptInv'
<1>.  /\ ~closed /\ Len(reqs) < MaxRequests
      /\ out' = out /\ io_tasks' = io_tasks /\ pc' = pc /\ cur' = cur
  BY Zenon DEF ReadRequest
<1>1. PICK r \in Request :
         /\ reqs' = Append(reqs, r)
         /\ \/ r.kind = "Reset" /\ interrupts' = interrupts + 1 /\ closed' = closed
            \/ closed' = TRUE /\ interrupts' = interrupts + 1
            \/ r.kind # "Reset" /\ interrupts' = interrupts /\ closed' = closed
  <2>1. PICK r \in Request :
         /\ reqs' = Append(reqs, r)
         /\ CASE r.kind = "Reset" ->
                    CountInterrupt("enqueue") /\ UNCHANGED <<closed, queue>>
              [] r.kind = "Goodbye" \/ (r.kind # "Reset" /\ stopped) ->
                    Close /\ UNCHANGED queue
              [] OTHER -> /\ queue' = Append(queue, Len(reqs) + 1)
                          /\ UNCHANGED <<closed, io, intVars>>
    BY Zenon DEF ReadRequest
  <2> QED
    BY <2>1, Zenon DEF CountInterrupt, Close, intVars
<1>2. /\ reqs' \in Seq(Request) /\ Len(reqs) \in Nat /\ Len(reqs') = Len(reqs) + 1
      /\ reqs'[Len(reqs) + 1] = r
      /\ \A i \in 1 .. Len(reqs) : reqs'[i] = reqs[i]
  BY <1>1 DEF OrderInv, OrderType
<1>3. CASE closed' = TRUE /\ interrupts' = interrupts + 1
  BY <1>2, <1>3, InterruptClose, Zenon DEF OrderInv, Active
<1>4. CASE closed' = closed /\ interrupts' = interrupts + (IF r.kind = "Reset" THEN 1 ELSE 0)
  <2>1. PICK c \in [0 .. Len(reqs) -> 0 .. Len(reqs)] :
           Resets(c) /\ interrupts = c[Len(reqs)] - c[Dispatched]
    BY Zenon DEF InterruptInv
  <2>2. Dispatched' = Dispatched /\ Dispatched \in 0 .. Len(reqs) /\ interrupts \in 0 .. Len(reqs)
    BY InterruptOpen, Zenon DEF Dispatched, Posted
  <2> DEFINE e == IF r.kind = "Reset" THEN 1 ELSE 0
  <2>3. e \in {0, 1} /\ Monotone(c, Len(reqs))
    BY <2>1, Zenon DEF Resets
  <2>4. PICK d \in [0 .. Len(reqs) + 1 -> 0 .. Len(reqs) + 1] :
            /\ d[Len(reqs) + 1] = c[Len(reqs)] + e
            /\ \A i \in 0 .. Len(reqs) : d[i] = c[i]
            /\ Monotone(d, Len(reqs) + 1)
    <3> HIDE DEF e
    <3>1. Len(reqs) \in Nat /\ c \in [0 .. Len(reqs) -> 0 .. Len(reqs)]
      OBVIOUS
    <3> QED
      BY <2>3, <3>1, CountGoesOn, Zenon
  <2>5. ASSUME NEW i \in 1 .. Len(reqs) + 1
        PROVE  d[i] = d[i - 1] + (IF reqs'[i].kind = "Reset" THEN 1 ELSE 0)
    <3>1. CASE i \in 1 .. Len(reqs)
      <4>1. i \in 0 .. Len(reqs) /\ i - 1 \in 0 .. Len(reqs) /\ reqs'[i] = reqs[i]
        BY <1>2, <3>1
      <4>2. c[i] = c[i - 1] + (IF reqs[i].kind = "Reset" THEN 1 ELSE 0)
        BY <2>1, <3>1, Zenon DEF Resets, Monotone, Kind
      <4> QED
        BY <2>4, <4>1, <4>2, Zenon
    <3>2. CASE i = Len(reqs) + 1
      <4>1. i - 1 = Len(reqs) /\ Len(reqs) \in 0 .. Len(reqs)
        BY <3>2
      <4> QED
        BY <1>2, <2>4, <4>1
    <3> QED
      BY <3>1, <3>2
  <2>6. d[0] = 0
    BY <2>1, <2>4 DEF Resets, Monotone
  <2>7. Resets(d)'
    BY <1>2, <2>4, <2>5, <2>6, Zenon DEF Resets, Monotone, Kind
  <2>8. interrupts' = d[Len(reqs')] - d[Dispatched']
    <3>1. d[Dispatched'] = c[Dispatched]
      BY <2>2, <2>4, Zenon
    <3>2. c[Len(reqs)] \in Int /\ c[Dispatched] \in Int
      BY <1>2, <2>2
    <3> QED
      BY <1>2, <1>4, <2>1, <2>4, <3>1, <3>2
  <2>9. interrupts' \in 0 .. MaxRequests + 1
    BY <1>4, <2>2, BoltAssumption
  <2> QED
    BY <1>2, <1>4, <2>4, <2>7, <2>8, <2>9, Zenon DEF InterruptInv
<1>5. interrupts \in Int
  BY DEF InterruptInv
<1>6. \/ closed' = TRUE /\ interrupts' = interrupts + 1
      \/ closed' = closed /\ interrupts' = interrupts + (IF r.kind = "Reset" THEN 1 ELSE 0)
  BY <1>1, <1>5
<1> QED
  BY <1>3, <1>4, <1>6, Zenon

\* The count is kept by every step.
LEMMA InterruptNext == ASSUME OrderInv, InterruptInv, [Next]_vars PROVE InterruptInv'
<1>.  interrupts \in Int
  BY DEF InterruptInv
<1>1. CASE Handler /\ ~DispatchInterrupted /\ ~RenewToken
  BY <1>1, HandlersWork, HandlersQuiet, InterruptQuiet, Zenon
<1>2. CASE DispatchInterrupted
  BY <1>2, HandlersWork, InterruptDispatch, Zenon DEF Handler
<1>3. CASE RenewToken
  <2>1. Work /\ reqs' = reqs /\ closed' = closed /\ interrupts' = interrupts /\ pc = "renew" /\ pc' = "end"
    BY <1>3, HandlersWork, Zenon DEF Handler, RenewToken, ioVars, Goto
  <2>2. ~closed => Dispatched' = Dispatched
    BY <2>1, WorkDispatched, Zenon DEF Dispatched, Active
  <2> QED
    BY <2>1, <2>2, InterruptSame, Zenon
<1>4. CASE StartTask
  <2>1. /\ reqs' = reqs /\ closed' = closed /\ interrupts' = interrupts /\ pc = "idle"
        /\ out' = out /\ io_tasks' = io_tasks /\ pc' \in {"abort", "dispatch"}
        /\ (closed => pc' = "abort")
    BY <1>4, Zenon DEF StartTask, ioVars, intVars
  <2> QED
    BY <2>1, InterruptSame, Zenon DEF Dispatched, Posted, Active
<1>5. CASE EndTask \/ AbortTask
  <2>1. /\ reqs' = reqs /\ closed' = closed /\ interrupts' = interrupts
        /\ out' = out /\ io_tasks' = io_tasks /\ pc \in {"end", "abort"} /\ pc' \in {"abort", "idle"}
    BY <1>5, Zenon DEF EndTask, AbortTask, ioVars, intVars, Goto
  <2> QED
    BY <2>1, InterruptSame, Zenon DEF Dispatched, Posted, Active
<1>6. CASE EnqueueReset
  <2>1. /\ reqs' = reqs /\ out' = out /\ io_tasks' = io_tasks /\ pc' = pc /\ cur' = cur /\ ~closed
        /\ \/ closed' = TRUE /\ interrupts' = interrupts + 1
           \/ closed' = closed /\ interrupts' = interrupts
    BY <1>6, Zenon DEF EnqueueReset, OrderInv
  <2> QED
    BY <2>1, InterruptSame, InterruptClose, Zenon DEF Dispatched, Posted
<1>7. CASE Disconnect \/ IoTask
  <2>1. /\ reqs' = reqs /\ pc' = pc /\ cur' = cur
        /\ \/ ~closed /\ closed' = TRUE /\ interrupts' = interrupts + 1
           \/ closed' = closed /\ interrupts' = interrupts
    BY <1>7, Zenon DEF Disconnect, IoTask, Close, CountInterrupt, strand, intVars
  <2>2. CASE ~closed /\ closed' = TRUE /\ interrupts' = interrupts + 1
    BY <2>1, <2>2, InterruptClose, Zenon
  <2>3. CASE closed' = closed /\ interrupts' = interrupts
    <3>1. ~closed => Posted' = Posted
      <4>1. ASSUME ~closed PROVE IoTask /\ Head(io_tasks).kind # "close"
        BY <1>7, <2>3, <4>1, Zenon DEF Disconnect, IoTask, Close, CountInterrupt
      <4>2. ASSUME ~closed PROVE io_tasks # <<>> /\ io_tasks' = Tail(io_tasks) /\ out' = Append(out, Head(io_tasks))
        BY <4>1, <4>2, Zenon DEF IoTask, Respond
      <4>3. io_tasks \in Seq(Answers) /\ out \in Seq(Answers)
        BY Zenon DEF OrderInv, OrderType
      <4>4. ASSUME ~closed PROVE /\ Head(io_tasks) \in Answers /\ Len(io_tasks') = Len(io_tasks) - 1
                                 /\ Len(io_tasks) \in Nat
        BY <4>2, <4>3, <4>4
      <4>5. ASSUME ~closed PROVE Len(out') = Len(out) + 1 /\ Len(out) \in Nat
        BY <4>2, <4>5
      <4> QED
        BY <4>4, <4>5 DEF Posted
    <3> QED
      BY <2>1, <2>3, <3>1, InterruptSame, Zenon DEF Dispatched
  <2> QED
    BY <2>1, <2>2, <2>3, Zenon
<1>8. CASE EnqueueAbort \/ StopPool \/ UNCHANGED vars
  <2>1. /\ reqs' = reqs /\ closed' = closed /\ interrupts' = interrupts /\ pc' = pc /\ cur' = cur
        /\ out' = out /\ io_tasks' = io_tasks
    BY <1>8, Zenon DEF EnqueueAbort, StopPool, vars, ioVars, intVars, strand
  <2> QED
    BY <2>1, InterruptSame, Zenon DEF Dispatched, Posted
<1> QED
  BY <1>1, <1>2, <1>3, <1>4, <1>5, <1>6, <1>7, <1>8, InterruptRead, Zenon
     DEF Next, Io, Strand, Handler

-----------------------------------------------------------------------------
(* The cancellation token.                                                 *)

\* No token from the future is cancelled, and the one that is installed is
\* cancelled only by an interrupt that is pending, which does cancel it.
TokenInv ==
    /\ token \in Tokens /\ cancelled \subseteq 1 .. token
    /\ pc \in Active => token <= cur
    /\ ~closed => token <= Posted + 1
    /\ ~HasInterrupt /\ pc # "renew" => token \notin cancelled
    /\ HasInterrupt /\ io = "read" /\ pc \in Querying => token \in cancelled

\* The first token is not cancelled.
LEMMA TokenInit == ASSUME Init PROVE TokenInv
  BY BoltAssumption DEF Init, TokenInv, Tokens, Posted, Active, Querying, HasInterrupt

\* The answers that are posted only get more.
LEMMA PostedGrows ==
  ASSUME OrderInv, [Next]_vars, ~closed, ~closed' PROVE Posted \in Nat /\ Posted' \in Nat /\ Posted <= Posted'
<1>.  OrderInv'
  BY OrderNext, Zenon
<1>1. Posted \in Nat /\ Posted' \in Nat
  BY DEF OrderInv, OrderType, Posted
<1>2. CASE Handler
  <2>1. Work
    BY <1>2, HandlersWork, Zenon
  <2>2. Dispatched' = Posted + 1
    BY <2>1, WorkDispatched, Zenon
  <2>3. pc' \in Active \ {"dispatch"} => io_tasks' = io_tasks /\ out' = out
    BY <2>1, Zenon DEF Work, Active
  <2> QED
    BY <2>2 DEF Dispatched, Posted
<1>3. CASE IoTask
  <2>1. /\ io_tasks # <<>> /\ io_tasks' = Tail(io_tasks) /\ out' = Append(out, Head(io_tasks))
    BY <1>3, Zenon DEF IoTask, Respond, Close
  <2>2. io_tasks \in Seq(Answers) /\ out \in Seq(Answers)
    BY Zenon DEF OrderInv, OrderType
  <2>3. Head(io_tasks) \in Answers /\ Len(io_tasks') = Len(io_tasks) - 1 /\ Len(io_tasks) \in Nat
    BY <2>1, <2>2
  <2>4. Len(out') = Len(out) + 1 /\ Len(out) \in Nat
    BY <2>1
  <2> QED
    BY <2>3, <2>4 DEF Posted
<1>4. CASE ~Handler /\ ~IoTask
  <2>1. out' = out /\ io_tasks' = io_tasks
    BY <1>4, Zenon DEF Next, Io, Strand, Handler, StartTask, EndTask, AbortTask, ReadRequest, EnqueueReset,
                EnqueueAbort, Disconnect, StopPool, ioVars, vars
  <2> QED
    BY <2>1 DEF Posted
<1> QED
  BY <1>2, <1>3, <1>4, Zenon

\* A step that leaves the token alone keeps what is known of it, if it neither
\* ends an interrupt nor starts a query while one is pending.
LEMMA TokenSame ==
  ASSUME TokenInv, OrderInv, [Next]_vars, token' = token, cancelled' = cancelled,
         closed => closed',
         pc' \in Active => token <= cur',
         ~HasInterrupt' /\ pc' # "renew" => ~HasInterrupt /\ pc # "renew",
         HasInterrupt' /\ io' = "read" /\ pc' \in Querying =>
            HasInterrupt /\ io = "read" /\ pc \in Querying
  PROVE  TokenInv'
<1>1. ~closed' => token <= Posted' + 1
  BY PostedGrows DEF TokenInv, Tokens
<1> QED
  BY <1>1, Zenon DEF TokenInv

\* The second step of RequestInterrupt cancels the token of the request that
\* runs while the interrupt is pending.
LEMMA TokenCancel ==
  ASSUME TokenInv, OrderInv, InterruptInv, EnqueueReset \/ EnqueueAbort
  PROVE  TokenInv'
<1>.  /\ token' = token /\ cancelled' = cancelled \cup {token} /\ pc' = pc /\ cur' = cur
      /\ out' = out /\ io_tasks' = io_tasks /\ (closed => closed')
      /\ io \in {"enqueue", "abort"} /\ interrupts' \in {interrupts, interrupts + 1}
  BY DEF EnqueueReset, EnqueueAbort, CancelToken
<1>1. HasInterrupt
  <2>1. io = "abort" => closed
    BY Zenon DEF OrderInv, InOrder
  <2>2. CASE closed
    BY <2>2 DEF InterruptInv, HasInterrupt
  <2>3. CASE ~closed
    BY <2>1, <2>3, InterruptOpen DEF HasInterrupt
  <2> QED
    BY <2>2, <2>3, Zenon
<1>2. HasInterrupt'
  BY <1>1 DEF HasInterrupt, InterruptInv
<1>3. cancelled' \subseteq 1 .. token
  BY DEF TokenInv, Tokens
<1> QED
  BY <1>2, <1>3, Zenon DEF TokenInv, Posted

\* What is known of the token is kept by every step.
LEMMA TokenNext == ASSUME TokenInv, OrderInv, InterruptInv, [Next]_vars PROVE TokenInv'
<1>.  interrupts \in Nat /\ OrderInv'
  BY OrderNext DEF InterruptInv
<1>1. CASE Handler /\ ~DispatchInterrupted /\ ~RenewToken
  <2>1. Work /\ Quiet
    BY <1>1, HandlersWork, HandlersQuiet, Zenon
  <2>2. pc \in Active /\ cur' = cur /\ closed' = closed /\ io' = io
    BY <2>1, Zenon DEF Work
  <2>3. token <= cur
    BY <2>2, Zenon DEF TokenInv
  <2> QED
    BY <2>1, <2>2, <2>3, TokenSame, Zenon DEF Quiet, HasInterrupt, Querying
<1>2. CASE DispatchInterrupted
  <2>1. /\ pc = "dispatch" /\ cur' = cur /\ closed' = closed /\ token' = token /\ cancelled' = cancelled
        /\ pc' \in {"renew", "end"} /\ HasInterrupt /\ (pc' = "end" => HasInterrupt')
    BY <1>2 DEF DispatchInterrupted, Goto, ioVars, HasInterrupt
  <2>2. token <= cur
    BY <2>1, Zenon DEF TokenInv, Active
  <2> QED
    BY <2>1, <2>2, TokenSame, Zenon DEF Querying
<1>3. CASE RenewToken
  <2>1. /\ pc = "renew" /\ pc' = "end" /\ closed' = closed /\ token' = token + 1 /\ cancelled' = cancelled
    BY <1>3, Zenon DEF RenewToken, Goto, ioVars
  <2>2. token <= cur /\ cur \in 0 .. MaxRequests /\ token \in Nat
    BY <2>1 DEF TokenInv, Active, OrderInv, OrderType, Tokens
  <2>3. token' \in Tokens /\ cancelled' \subseteq 1 .. token' /\ token' \notin cancelled'
    BY <2>1, <2>2, BoltAssumption DEF TokenInv, Tokens
  <2>4. ASSUME ~closed PROVE token' <= Posted' + 1
    <3>1. Work
      BY <1>3, HandlersWork, Zenon DEF Handler
    <3>2. cur = Posted + 1 /\ Posted' \in Int
      BY <2>1, <2>4 DEF Active, OrderInv, OrderType, InOrder, Posted
    <3>3. Posted' = Posted + 1
      BY <2>1, <2>4, <3>1, <3>2, WorkDispatched DEF Dispatched, Active
    <3> QED
      BY <2>1, <2>2, <3>2, <3>3
  <2> QED
    BY <2>1, <2>3, <2>4, Zenon DEF TokenInv, Active, Querying
<1>4. CASE StartTask
  <2>1. /\ closed' = closed /\ token' = token /\ cancelled' = cancelled /\ interrupts' = interrupts
        /\ pc = "idle" /\ pc' \in {"abort", "dispatch"} /\ (pc' = "dispatch" => ~closed)
        /\ out' = out /\ io_tasks' = io_tasks
    BY <1>4, Zenon DEF StartTask, ioVars, intVars
  <2>2. pc' = "dispatch" => cur' = Posted + 1
    BY <2>1, Zenon DEF OrderInv, InOrder, Active, Posted
  <2>3. pc' \in Active => token <= cur'
    BY <2>1, <2>2, Zenon DEF TokenInv, Active
  <2> QED
    BY <2>1, <2>3, TokenSame, Zenon DEF HasInterrupt, Querying
<1>5. CASE EndTask \/ AbortTask
  <2>1. /\ closed' = closed /\ token' = token /\ cancelled' = cancelled /\ interrupts' = interrupts
        /\ pc \in {"end", "abort"} /\ pc' \in {"abort", "idle"}
    BY <1>5, Zenon DEF EndTask, AbortTask, ioVars, intVars, Goto
  <2> QED
    BY <2>1, TokenSame, Zenon DEF HasInterrupt, Querying, Active
<1>6. CASE ReadRequest \/ Disconnect \/ IoTask
  <2>1. /\ token' = token /\ cancelled' = cancelled /\ pc' = pc /\ cur' = cur /\ (closed => closed')
        /\ io = "read"
        /\ \/ interrupts' = interrupts + 1 /\ io' \in {"enqueue", "abort"}
           \/ interrupts' = interrupts
    BY <1>6, Zenon DEF ReadRequest, Disconnect, IoTask, Close, CountInterrupt, strand, intVars
  <2>2. (HasInterrupt => HasInterrupt') /\ (HasInterrupt' /\ io' = "read" => HasInterrupt)
    BY <2>1 DEF HasInterrupt
  <2> QED
    BY <2>1, <2>2, TokenSame, Zenon DEF TokenInv
<1>7. CASE StopPool \/ UNCHANGED vars
  <2>1. /\ token' = token /\ cancelled' = cancelled /\ pc' = pc /\ cur' = cur /\ closed' = closed
        /\ io' = io /\ interrupts' = interrupts
    BY <1>7, Zenon DEF StopPool, vars, ioVars, intVars, strand
  <2> QED
    BY <2>1, TokenSame, Zenon DEF TokenInv, HasInterrupt
<1> QED
  BY <1>1, <1>2, <1>3, <1>4, <1>5, <1>6, <1>7, TokenCancel, Zenon
     DEF Next, Io, Strand, Handler

-----------------------------------------------------------------------------
(* What the session holds.                                                 *)

Aborted == query = NoQuery /\ tx = NoTx

\* The state tells what the session holds.
Matches ==
    /\ state \in {"READY", "FAILED", "DEFUNCT"} => Aborted
    /\ state = "STREAMING" => query.own # None /\ tx = NoTx
    /\ state = "TX_READY" => InTx /\ query = NoQuery /\ DOMAIN tx.queries = {}
    /\ state = "TX_STREAMING" => InTx /\ query = NoQuery /\ DOMAIN tx.queries # {}

SessionType ==
    /\ left \in Int /\ state \in States /\ query \in Queries
    /\ tx.id \in 0..MaxRequests /\ tx.next \in 0..MaxRequests
    /\ DOMAIN tx.queries \subseteq 0..MaxRequests
    /\ \A q \in DOMAIN tx.queries : tx.queries[q] \in Queries

\* A query of the session's own, outside a transaction
OwnQuery == tx = NoTx /\ query.own # None

\* What a handler finds where it goes on
Doing ==
    /\ pc = "renew" => Aborted /\ Kind(cur) = "Reset"
    /\ pc = "begun" => Aborted /\ Kind(cur) = "Begin"
    /\ pc = "ran" => /\ Kind(cur) = "Run" /\ query # NoQuery
                     /\ (InTx /\ query.own = None) \/ OwnQuery
    /\ pc \in {"pull", "pulled"} =>
          /\ Kind(cur) = "Pull"
          /\ (InTx /\ query = NoQuery /\ Qid \in DOMAIN tx.queries) \/ OwnQuery
    /\ pc = "commit" => (InTx /\ query = NoQuery) \/ (OwnQuery /\ Kind(cur) = "Pull")

\* A transaction has fewer queries than there were requests before this one.
Numbered == /\ pc \in Active => tx.next < cur
            /\ ~closed => tx.next <= Posted

\* Every query has the token that is installed.
SameToken == /\ query # NoQuery => query.token = token
             /\ \A q \in DOMAIN tx.queries : tx.queries[q].token = token

SessionInv ==
    /\ SessionType /\ Numbered /\ SameToken /\ Doing
    /\ pc \in {"idle", "dispatch", "end"} /\ ~HasInterrupt => Matches

\* A session that holds nothing
LEMMA NothingHeld ==
  /\ NoTx.id = 0 /\ NoTx.next = 0 /\ DOMAIN NoTx.queries = {}
  /\ NoQuery.own = 0 /\ NoQuery \in Queries
<1>1. NoTx.id = 0 /\ NoTx.next = 0 /\ NoTx.queries = <<>>
  BY Zenon DEF NoTx, Tx, None
<1>2. DOMAIN <<>> = {}
  OBVIOUS
<1>3. NoQuery.own = 0 /\ NoQuery \in Queries
  BY BoltAssumption DEF NoQuery, Query, Queries, None
<1> QED
  BY <1>1, <1>3

\* Whatever gives everything up leaves a session that holds nothing.
LEMMA SessionAborted ==
  ASSUME OrderInv', Aborted', left' \in Int, state' \in States,
         pc' \in {"idle", "end", "renew"}, pc' = "renew" => Kind(cur)' = "Reset",
         pc' # "renew" /\ ~HasInterrupt' => state' \in {"READY", "FAILED", "DEFUNCT"}
  PROVE  SessionInv'
<1>1. /\ query' = NoQuery /\ tx' = NoTx /\ tx'.next = 0 /\ tx'.id = 0
      /\ DOMAIN tx'.queries = {} /\ query' \in Queries
  BY NothingHeld, Zenon DEF Aborted
<1>2. SessionType'
  BY <1>1, BoltAssumption DEF SessionType
<1>3. Numbered'
  <2>1. Posted' \in Nat /\ (pc' \in Active => cur' \in 1 .. Len(reqs'))
    BY DEF OrderInv, OrderType, Posted
  <2> QED
    BY <1>1, <2>1 DEF Numbered
<1>4. SameToken' /\ Doing'
  BY <1>1, Zenon DEF SameToken, Doing, Aborted
<1>5. pc' # "renew" /\ ~HasInterrupt' => Matches'
  BY Zenon DEF Matches
<1> QED
  BY <1>2, <1>3, <1>4, <1>5, Zenon DEF SessionInv

\* A new connection holds nothing.
LEMMA SessionInit == ASSUME Init PROVE SessionInv
<1>1. /\ query = NoQuery /\ tx = NoTx /\ tx.next = 0 /\ tx.id = 0
      /\ DOMAIN tx.queries = {} /\ query \in Queries /\ state = "READY" /\ pc = "idle" /\ left = 0
  BY NothingHeld, Zenon DEF Init
<1>2. SessionType
  BY <1>1, BoltAssumption DEF SessionType, States
<1>3. Numbered
  BY <1>1 DEF Numbered, Posted, Init, Active
<1>4. SameToken /\ Doing /\ Matches
  BY <1>1, Zenon DEF SameToken, Doing, Matches, Aborted
<1> QED
  BY <1>2, <1>3, <1>4, Zenon DEF SessionInv

\* What happens beside the task leaves the session alone.
LEMMA SessionSame ==
  ASSUME SessionInv, OrderInv, [Next]_vars,
         left' = left, state' = state, query' = query, tx' = tx, token' = token,
         pc' = pc, cur' = cur, closed => closed', HasInterrupt => HasInterrupt',
         pc \in Active => reqs'[cur] = reqs[cur]
  PROVE  SessionInv'
<1>1. SessionType' /\ SameToken'
  BY Zenon DEF SessionInv, SessionType, SameToken
<1>2. Numbered'
  BY PostedGrows DEF SessionInv, SessionType, Numbered
<1>3. Doing'
  BY Zenon DEF SessionInv, Doing, Aborted, OwnQuery, InTx, Qid, Kind, Active
<1>4. pc' \in {"idle", "dispatch", "end"} /\ ~HasInterrupt' => Matches'
  BY Zenon DEF SessionInv, Matches, Aborted, InTx
<1> QED
  BY <1>1, <1>2, <1>3, <1>4, Zenon DEF SessionInv

\* A handler numbers at most one query, and then it answers.
LEMMA NumberedWork ==
  ASSUME OrderInv, OrderInv', SessionInv, Work,
         tx'.next = tx.next \/ tx'.next = 0 \/ (pc' = "end" /\ tx'.next = tx.next + 1)
  PROVE  Numbered' /\ tx'.next \in 0 .. MaxRequests
<1>.  /\ pc \in Active /\ cur' = cur /\ closed' = closed /\ out' = out
      /\ (pc' \in Active => io_tasks' = io_tasks) /\ pc' \in Active \cup {"end"}
  BY Zenon DEF Work, Active
<1>1. tx.next \in Nat /\ tx.next < cur /\ cur \in 1 .. MaxRequests /\ Posted \in Nat /\ Posted' \in Nat
  BY DEF SessionInv, SessionType, Numbered, OrderInv, OrderType, Posted
<1>2. pc' \in Active => tx'.next < cur'
  BY <1>1 DEF Active
<1>3. ASSUME ~closed PROVE tx'.next <= Posted'
  <2>1. tx.next <= Posted /\ cur = Posted + 1
    BY <1>3, Zenon DEF SessionInv, Numbered, OrderInv, InOrder
  <2>2. CASE pc' \in Active
    BY <2>1, <2>2 DEF Posted, Active
  <2>3. CASE pc' = "end"
    <3>1. Posted' = Posted + 1
      <4>1. Dispatched' = Posted + 1
        BY <1>3, WorkDispatched, Zenon
      <4>2. Posted' \in Int
        BY <1>1
      <4> QED
        BY <2>3, <4>1, <4>2 DEF Dispatched, Active
    <3> QED
      BY <1>1, <2>1, <3>1
  <2> QED
    BY <2>2, <2>3, Zenon
<1>4. tx'.next \in 0 .. MaxRequests
  BY <1>1, BoltAssumption
<1> QED
  BY <1>2, <1>3, <1>4, Zenon DEF Numbered

\* Every close is counted, so IgnoreInterruptedOrClosedRequest is about interrupts.
LEMMA InterruptedHas == ASSUME InterruptInv PROVE Interrupted <=> HasInterrupt
<1>1. closed => HasInterrupt
  BY DEF InterruptInv, HasInterrupt
<1> QED
  BY <1>1, Zenon DEF Interrupted

\* A request that is ignored or that fails gives everything up.
LEMMA SessionGivenUp ==
  ASSUME SessionInv, InterruptInv, OrderInv', (Interrupted /\ Ignore) \/ FailSession
  PROVE  SessionInv'
<1>1. /\ Aborted' /\ left' = left /\ pc' = "end" /\ interrupts' = interrupts
      /\ \/ Interrupted /\ state' = state
         \/ state' = "FAILED"
  BY Zenon DEF Ignore, FailSession, AbortSession, Goto, Aborted, intVars
<1>2. left' \in Int /\ state' \in States
  BY <1>1, Zenon DEF SessionInv, SessionType, States
<1>3. ~HasInterrupt' => state' = "FAILED"
  BY <1>1, InterruptedHas, Zenon DEF HasInterrupt
<1> QED
  BY <1>1, <1>2, <1>3, SessionAborted, Zenon

\* RESET, and what it interrupts
LEMMA SessionReset ==
  ASSUME SessionInv, InterruptInv, OrderInv', DispatchInterrupted \/ RenewToken
  PROVE  SessionInv'
<1>1. /\ Aborted' /\ left' = left /\ pc' \in {"end", "renew"} /\ state' \in {state, "READY"}
      /\ pc' = "renew" => Kind(cur)' = "Reset"
      /\ pc' = "end" => HasInterrupt' \/ state' = "READY"
  <2>1. CASE DispatchInterrupted
    <3>1. interrupts \in Nat
      BY DEF InterruptInv
    <3>2. pc' = "end" => HasInterrupt'
      BY <2>1, <3>1 DEF DispatchInterrupted, HasInterrupt, Goto
    <3> QED
      BY <2>1, <3>2, Zenon DEF DispatchInterrupted, AbortSession, Goto, Aborted, Kind, ioVars
  <2>2. CASE RenewToken
    BY <2>2, Zenon DEF RenewToken, Goto, Aborted, SessionInv, Doing
  <2> QED
    BY <2>1, <2>2, Zenon
<1>2. left' \in Int /\ state' \in States
  BY <1>1, Zenon DEF SessionInv, SessionType, States
<1>3. CASE pc' = "end"
  BY <1>1, <1>2, SessionAborted, Zenon
<1>4. CASE pc' = "renew"
  <2>1. DispatchInterrupted /\ state' = state
    BY <1>4, Zenon DEF RenewToken, DispatchInterrupted, Goto
  <2> QED
    BY <1>1, <1>2, SessionAborted
<1> QED
  BY <1>1, <1>3, <1>4, Zenon

\* BEGIN holds its transaction as a local, then hands it to the session.
LEMMA SessionBegin ==
  ASSUME SessionInv, InterruptInv, OrderInv, OrderInv', Work, ProcessBegin \/ BeginDone
  PROVE  SessionInv'
<1>.  cur \in 1 .. MaxRequests /\ cur' = cur /\ reqs' = reqs
  BY DEF OrderInv, OrderType, Work
<1>1. CASE FailSession
  BY <1>1, SessionGivenUp, Zenon
<1>2. CASE ProcessBegin /\ ~FailSession
  <2>1. /\ pc = "dispatch" /\ ~HasInterrupt /\ Kind(cur) = "Begin" /\ "Begin" \in Allowed
        /\ pc' = "begun" /\ left' = left /\ state' = state /\ query' = query /\ tx' = tx
        /\ token' = token
    BY <1>2, Zenon DEF ProcessBegin, Executing, Dispatching, Goto, intVars
  <2>2. state = "READY"
    BY <2>1, Zenon DEF Allowed, SessionInv, SessionType, States
  <2>3. Aborted
    BY <2>1, <2>2, Zenon DEF SessionInv, Matches
  <2>4. Numbered'
    BY <2>1, NumberedWork, Zenon
  <2>5. SessionType' /\ SameToken'
    BY <2>1, Zenon DEF SessionInv, SessionType, SameToken
  <2>6. Doing'
    BY <2>1, <2>3, Zenon DEF Doing, Aborted, Kind
  <2> QED
    BY <2>1, <2>4, <2>5, <2>6, Zenon DEF SessionInv
<1>3. CASE BeginDone /\ Interrupted
  <2>1. /\ pc = "begun" /\ pc' = "end" /\ left' = left /\ state' = state /\ query' = query /\ tx' = tx
        /\ HasInterrupt'
    BY <1>3, InterruptedHas, Zenon DEF BeginDone, Goto, intVars, HasInterrupt
  <2>2. Aborted' /\ left' \in Int /\ state' \in States
    BY <2>1, Zenon DEF SessionInv, SessionType, Doing, Aborted
  <2> QED
    BY <2>1, <2>2, SessionAborted, Zenon
<1>4. CASE BeginDone /\ ~Interrupted
  <2>1. /\ pc = "begun" /\ pc' = "end" /\ left' = left /\ state' = "TX_READY" /\ query' = query
        /\ tx' = Tx(cur, <<>>, 0)
    BY <1>4, Zenon DEF BeginDone, Goto
  <2>2. tx'.id = cur /\ tx'.queries = <<>> /\ tx'.next = 0 /\ DOMAIN tx'.queries = {}
    <3>1. DOMAIN <<>> = {}
      OBVIOUS
    <3> QED
      BY <2>1 DEF Tx
  <2>3. query = NoQuery
    BY <2>1, Zenon DEF SessionInv, Doing, Aborted
  <2>4. Numbered' /\ tx'.next \in 0 .. MaxRequests
    BY <2>2, NumberedWork, Zenon
  <2>5. SessionType' /\ SameToken'
    BY <2>1, <2>2, <2>3, <2>4 DEF SessionInv, SessionType, SameToken, States
  <2>6. Doing' /\ Matches'
    BY <2>1, <2>2, <2>3 DEF Doing, Matches, InTx, None
  <2> QED
    BY <2>4, <2>5, <2>6, Zenon DEF SessionInv
<1> QED
  BY <1>1, <1>2, <1>3, <1>4, Zenon

\* RUN opens a cursor under the installed token, and then the transaction
\* takes it or the session does.
LEMMA SessionRun ==
  ASSUME SessionInv, InterruptInv, TokenInv, OrderInv, OrderInv', Work, ProcessRun \/ RunDone
  PROVE  SessionInv'
<1>.  cur \in 1 .. MaxRequests /\ cur' = cur /\ reqs' = reqs
  BY DEF OrderInv, OrderType, Work
<1>1. CASE FailSession
  BY <1>1, SessionGivenUp, Zenon
<1>2. CASE RunDone /\ Interrupted
  BY <1>2, SessionGivenUp, Zenon DEF RunDone
<1>3. CASE ProcessRun /\ ~FailSession
  <2>1. /\ pc = "dispatch" /\ ~HasInterrupt /\ Kind(cur) = "Run" /\ "Run" \in Allowed
        /\ pc' = "ran" /\ left' = left /\ state' = state /\ tx' = tx /\ token' = token
        /\ \E n \in 0..MaxRows : query' = Query(IF tx.id = None THEN cur ELSE None, n, token)
    BY <1>3, Zenon DEF ProcessRun, Executing, Dispatching, Goto, intVars
  <2>2. PICK n \in 0..MaxRows : query' = Query(IF tx.id = None THEN cur ELSE None, n, token)
    BY <2>1, Zenon
  <2>3. /\ query'.own = (IF tx.id = None THEN cur ELSE None) /\ query'.token = token
        /\ query'.rows = n
        /\ query' = [own |-> IF tx.id = None THEN cur ELSE None, rows |-> n, token |-> token]
    BY <2>2, Zenon DEF Query
  <2>4. query' \in Queries /\ query' # NoQuery
    BY <2>3, BoltAssumption DEF Queries, None, TokenInv, NoQuery, Query, Tokens
  <2>5. InTx \/ (tx = NoTx /\ tx.id = None)
    <3>1. state \in {"READY", "TX_READY", "TX_STREAMING"}
      BY <2>1, Zenon DEF Allowed, SessionInv, SessionType, States
    <3> QED
      BY <2>1, <3>1, NothingHeld, Zenon DEF SessionInv, Matches, Aborted, None
  <2>6. Numbered'
    BY <2>1, NumberedWork, Zenon
  <2>7. SessionType' /\ SameToken'
    BY <2>1, <2>3, <2>4, Zenon DEF SessionInv, SessionType, SameToken
  <2>8. Doing'
    BY <2>1, <2>3, <2>4, <2>5 DEF Doing, InTx, OwnQuery, None, Kind
  <2> QED
    BY <2>1, <2>6, <2>7, <2>8, Zenon DEF SessionInv
<1>4. CASE RunDone /\ ~Interrupted /\ tx.id = None
  <2>1. /\ pc = "ran" /\ pc' = "end" /\ left' = left /\ state' = "STREAMING" /\ query' = query
        /\ tx' = tx /\ token' = token
    BY <1>4, Zenon DEF RunDone, Goto, intVars
  <2>2. OwnQuery
    BY <1>4, <2>1, Zenon DEF SessionInv, Doing, InTx
  <2>3. Numbered'
    BY <2>1, NumberedWork, Zenon
  <2>4. SessionType' /\ SameToken'
    BY <2>1, Zenon DEF SessionInv, SessionType, SameToken, States
  <2>5. Doing' /\ Matches'
    BY <2>1, <2>2, Zenon DEF Doing, Matches, OwnQuery
  <2> QED
    BY <2>3, <2>4, <2>5, Zenon DEF SessionInv
<1>5. CASE RunDone /\ ~Interrupted /\ tx.id # None
  <2>1. /\ pc = "ran" /\ pc' = "end" /\ left' = left /\ state' = "TX_STREAMING" /\ query' = NoQuery
        /\ tx' = Tx(tx.id, AddQuery, tx.next + 1) /\ token' = token
    BY <1>5, Zenon DEF RunDone, Goto, intVars
  <2>2. tx'.id = tx.id /\ tx'.queries = AddQuery /\ tx'.next = tx.next + 1
    BY <2>1, Zenon DEF Tx
  <2>3. query # NoQuery /\ query \in Queries /\ query.token = token
    BY <2>1, Zenon DEF SessionInv, SessionType, SameToken, Doing
  <2>4. Numbered' /\ tx'.next \in 0 .. MaxRequests
    BY <2>1, <2>2, NumberedWork, Zenon
  <2>5. /\ DOMAIN tx'.queries = DOMAIN tx.queries \cup {tx.next}
        /\ \A q \in DOMAIN tx'.queries :
              tx'.queries[q] = IF q = tx.next THEN query ELSE tx.queries[q]
    BY <2>2, Zenon DEF AddQuery
  <2>6. SessionType'
    BY <2>1, <2>2, <2>4, <2>5, NothingHeld, Zenon DEF SessionInv, SessionType, States
  <2>7. SameToken'
    BY <2>1, <2>3, <2>5, Zenon DEF SessionInv, SameToken
  <2>8. Doing' /\ Matches'
    BY <1>5, <2>1, <2>2, <2>5, Zenon DEF Doing, Matches, InTx
  <2> QED
    BY <2>4, <2>6, <2>7, <2>8, Zenon DEF SessionInv
<1> QED
  BY <1>1, <1>2, <1>3, <1>4, <1>5, Zenon
=============================================================================
