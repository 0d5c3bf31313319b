---------------------------- MODULE IdGenerator ----------------------------
(* graphdb/id_generator.cc: vertex ids, which each replica hands out from  *)
(* ranges that it stores beforehand, and label ids, which are stored one   *)
(* by one.  Edge ids are handed out like vertex ids, edge types and        *)
(* property names are numbered like labels.                                *)
(*                                                                         *)
(* With raft, what is stored goes through the log of the graph and reaches *)
(* the counters of every replica when the replica applies it; the raft     *)
(* group is what RaftProposals and RaftCore show it to be: one log, which  *)
(* a new leader has from the start and applies when it gets to it.         *)
EXTENDS Naturals, Sequences, FiniteSets

CONSTANTS Node, Thread, Name,
          None,
          RangeSize,   \* kIdRangeSize
          MaxId,       \* the largest int64_t
          Scenarios    \* how the graph runs and what its threads ask for

ASSUME ScenarioAssumption ==
    /\ RangeSize \in Nat \ {0} /\ MaxId \in Nat
    /\ \A k \in DOMAIN Scenarios :
        /\ Scenarios[k].raft \in BOOLEAN
        /\ Scenarios[k].home \in [Thread -> Node]
        /\ Scenarios[k].calls \in [Thread -> Seq(Name \cup {"vid"})]

VARIABLES
    sc,      \* the number of the scenario
    mem,     \* mem[n]: the counters and the label map of replica n
    store,   \* store[n]: what meta_info of n holds of them
    log,     \* the log of the raft group
    leader,
    stage,   \* stage[n]: how far n is with the entry that it is applying
    refill, create, \* refill[n], create[n]: the thread that holds the mutex
    th,      \* th[t]: where thread t is, the calls it still has to make, its locals
    given,   \* every vertex id that a call returned
    tokens,  \* every label id that a call returned
    left     \* how many more restarts, elections and timeouts there may be

vars == <<sc, mem, store, log, leader, stage, refill, create, th, given, tokens, left>>

scenario == Scenarios[sc]
Home(t) == scenario.home[t]
Calling(t) == Head(th[t].calls)

NoLabels == [a \in Name |-> 0]
Highest(lids) == CHOOSE m \in {0} \cup {lids[a] : a \in Name} : \A a \in Name : lids[a] <= m

\* MetaInfo::Init, SetMaxIds, SetNextEntityIds
Loaded(s) == [persisted |-> s.nextId, next |-> s.nextId, end |-> s.nextId,
              lids |-> s.lids, nextLid |-> Highest(s.lids) + 1]

EmptyStore == [nextId |-> 1, lids |-> NoLabels, applied |-> 0]
Idle(calls) == [pc |-> "idle", calls |-> calls, cand |-> 0, limit |-> 0, new |-> 0, at |-> 0]

Init ==
    /\ sc \in DOMAIN Scenarios
    /\ store = [n \in Node |-> EmptyStore]
    /\ mem = [n \in Node |-> Loaded(EmptyStore)]
    /\ log = <<>> /\ leader = scenario.leader
    /\ stage = [n \in Node |-> 0]
    /\ refill = [n \in Node |-> None] /\ create = [n \in Node |-> None]
    /\ th = [t \in Thread |-> Idle(scenario.calls[t])]
    /\ given = {} /\ tokens = {} /\ left = scenario.left

-----------------------------------------------------------------------------
Goto(t, pc) == th' = [th EXCEPT ![t].pc = pc]

Unlock(t) ==
    /\ refill' = [n \in Node |-> IF refill[n] = t THEN None ELSE refill[n]]
    /\ create' = [n \in Node |-> IF create[n] = t THEN None ELSE create[n]]

\* a call ends, with a result or with an exception
End(t) == th' = [th EXCEPT ![t] = Idle(Tail(@.calls))] /\ Unlock(t)

ReturnId(t, id) ==
    /\ given' = given \cup {[by |-> t, call |-> Len(th[t].calls), id |-> id]}
    /\ End(t) /\ UNCHANGED tokens
ReturnToken(t, id) ==
    /\ tokens' = tokens \cup {[name |-> Calling(t), id |-> id]}
    /\ End(t) /\ UNCHANGED given
Throw(t) == End(t) /\ UNCHANGED <<given, tokens>>

\* the first load of GetNextEntityId
LoadNext(t) ==
    /\ th[t].pc \in {"idle", "again"} /\ th[t].calls # <<>> /\ Calling(t) = "vid"
    /\ th' = [th EXCEPT ![t].pc = "limit", ![t].cand = mem[Home(t)].next]
    /\ UNCHANGED <<sc, mem, store, log, leader, stage, refill, create, given, tokens, left>>

LoadEnd(t) ==
    /\ th[t].pc = "limit"
    /\ th' = [th EXCEPT ![t].limit = mem[Home(t)].end,
                        ![t].pc = IF th[t].cand < mem[Home(t)].end THEN "cas" ELSE "lock"]
    /\ UNCHANGED <<sc, mem, store, log, leader, stage, refill, create, given, tokens, left>>

\* compare_exchange_weak, which loads the candidate anew when it fails
TakeNext(t) ==
    /\ th[t].pc = "cas"
    /\ LET m == mem[Home(t)]
       IN  IF m.next = th[t].cand
           THEN /\ mem' = [mem EXCEPT ![Home(t)].next = @ + 1]
                /\ ReturnId(t, th[t].cand)
           ELSE /\ th' = [th EXCEPT ![t].cand = m.next,
                            ![t].pc = IF m.next < th[t].limit THEN "cas" ELSE "lock"]
                /\ UNCHANGED <<mem, refill, create, given, tokens>>
    /\ UNCHANGED <<sc, store, log, leader, stage, left>>

LockRefill(t) ==
    /\ th[t].pc = "lock" /\ refill[Home(t)] = None
    /\ refill' = [refill EXCEPT ![Home(t)] = t]
    /\ th' = [th EXCEPT ![t].pc = "recheck", ![t].cand = mem[Home(t)].next]
    /\ UNCHANGED <<sc, mem, store, log, leader, stage, create, given, tokens, left>>

Recheck(t) ==
    /\ th[t].pc = "recheck"
    /\ IF th[t].cand < mem[Home(t)].end
       THEN Goto(t, "again") /\ Unlock(t)
       ELSE Goto(t, "start") /\ UNCHANGED <<refill, create>>
    /\ UNCHANGED <<sc, mem, store, log, leader, stage, given, tokens, left>>

LoadStart(t) ==
    /\ th[t].pc = "start"
    /\ LET start == mem[Home(t)].persisted
       IN  IF start + RangeSize > MaxId THEN Throw(t)
           ELSE /\ th' = [th EXCEPT ![t].pc = "propose", ![t].new = start]
                /\ UNCHANGED <<refill, create, given, tokens>>
    /\ UNCHANGED <<sc, mem, store, log, leader, stage, left>>

\* GetOrCreateLid up to the create mutex
FindLabel(t) ==
    /\ th[t].pc = "idle" /\ th[t].calls # <<>> /\ Calling(t) # "vid"
    /\ LET id == mem[Home(t)].lids[Calling(t)]
       IN  IF id # 0 THEN ReturnToken(t, id)
           ELSE Goto(t, "create") /\ UNCHANGED <<refill, create, given, tokens>>
    /\ UNCHANGED <<sc, mem, store, log, leader, stage, left>>

LockCreate(t) ==
    /\ th[t].pc = "create" /\ create[Home(t)] = None
    /\ LET id == mem[Home(t)].lids[Calling(t)]
       IN  IF id # 0 THEN ReturnToken(t, id)
           ELSE /\ create' = [create EXCEPT ![Home(t)] = t]
                /\ Goto(t, "number") /\ UNCHANGED <<refill, given, tokens>>
    /\ UNCHANGED <<sc, mem, store, log, leader, stage, left>>

NumberLabel(t) ==
    /\ th[t].pc = "number"
    /\ th' = [th EXCEPT ![t].pc = "propose", ![t].new = mem[Home(t)].nextLid]
    /\ mem' = [mem EXCEPT ![Home(t)].nextLid = @ + 1]
    /\ UNCHANGED <<sc, store, log, leader, stage, refill, create, given, tokens, left>>

-----------------------------------------------------------------------------
\* what PersistEntityId and PersistToken put into the batch
Record(t) == IF Calling(t) = "vid" THEN [kind |-> "range", end |-> th[t].new + RangeSize]
             ELSE [kind |-> "token", name |-> Calling(t), id |-> th[t].new]

Stored(s, e) == IF e.kind = "range" THEN [s EXCEPT !.nextId = e.end]
                ELSE [s EXCEPT !.lids[e.name] = e.id]

\* ProposeAndApply without raft
WriteRecord(t) ==
    /\ th[t].pc = "propose" /\ ~scenario.raft
    /\ store' = [store EXCEPT ![Home(t)] = Stored(@, Record(t))]
    /\ Goto(t, "stored")
    /\ UNCHANGED <<sc, mem, log, leader, stage, refill, create, given, tokens, left>>

\* ProposeAndApply with raft: the leader's entry gets into the log, or it is lost
\* with the leadership
Propose(t) ==
    /\ th[t].pc = "propose" /\ scenario.raft /\ leader = Home(t)
    /\ \/ log' = Append(log, Record(t)) /\ th' = [th EXCEPT ![t].pc = "wait", ![t].at = Len(log')]
       \/ left.elections > 0 /\ Goto(t, "wait") /\ UNCHANGED log
    /\ UNCHANGED <<sc, mem, store, leader, stage, refill, create, given, tokens, left>>

NotLeader(t) ==
    /\ th[t].pc = "propose" /\ scenario.raft /\ leader # Home(t)
    /\ Throw(t)
    /\ UNCHANGED <<sc, mem, store, log, leader, stage, left>>

\* the driver gave up on the proposal: the time is over, or the leadership is
Refused(t) ==
    /\ \/ th[t].pc = "refused" /\ UNCHANGED left
       \/ th[t].pc = "wait" /\ left.timeouts > 0 /\ left' = [left EXCEPT !.timeouts = @ - 1]
    /\ Throw(t)
    /\ UNCHANGED <<sc, mem, store, log, leader, stage>>

Larger(a, b) == IF a < b THEN b ELSE a

\* ApplyRaftWriteBatch and ApplyMetaRecord: the batch and the applied index are
\* written at once, then each counter is raised; the proposer is told at the end.
Apply(n) ==
    /\ LET i == store[n].applied + (IF stage[n] = 0 THEN 1 ELSE 0)
           e == log[i]
           told == [t \in Thread |->
                       IF Home(t) = n /\ th[t].pc = "wait" /\ th[t].at = i
                       THEN [th[t] EXCEPT !.pc = "stored"] ELSE th[t]]
       IN  /\ i <= Len(log)
           /\ store' = [store EXCEPT ![n] = IF stage[n] > 0 THEN @
                                            ELSE [Stored(@, e) EXCEPT !.applied = i]]
           /\ mem' = [mem EXCEPT ![n] =
                CASE e.kind = "token" ->
                        [@ EXCEPT !.lids[e.name] = e.id, !.nextLid = Larger(@, e.id + 1)]
                  [] stage[n] = 0 -> [@ EXCEPT !.persisted = Larger(@, e.end)]
                  [] stage[n] = 1 -> [@ EXCEPT !.next = Larger(@, e.end)]
                  [] stage[n] = 2 -> [@ EXCEPT !.end = Larger(@, e.end)]]
           /\ IF e.kind = "token" \/ stage[n] = 2
              THEN stage' = [stage EXCEPT ![n] = 0] /\ th' = told
              ELSE stage' = [stage EXCEPT ![n] = @ + 1] /\ UNCHANGED th
    /\ UNCHANGED <<sc, log, leader, refill, create, given, tokens, left>>

\* Mutant: the id that this call returns stays in the range.
MutStoreNext(t) ==
    /\ th[t].pc = "stored next"
    /\ mem' = [mem EXCEPT ![Home(t)].next = th[t].new]
    /\ Goto(t, "stored end")
    /\ UNCHANGED <<sc, store, log, leader, stage, refill, create, given, tokens, left>>

\* the three stores of GetNextEntityId after PersistEntityId
StorePersisted(t) ==
    /\ th[t].pc = "stored" /\ Calling(t) = "vid"
    /\ mem' = [mem EXCEPT ![Home(t)].persisted = th[t].new + RangeSize]
    /\ Goto(t, "stored next")
    /\ UNCHANGED <<sc, store, log, leader, stage, refill, create, given, tokens, left>>

StoreNext(t) ==
    /\ th[t].pc = "stored next"
    /\ mem' = [mem EXCEPT ![Home(t)].next = th[t].new + 1]
    /\ Goto(t, "stored end")
    /\ UNCHANGED <<sc, store, log, leader, stage, refill, create, given, tokens, left>>

StoreEnd(t) ==
    /\ th[t].pc = "stored end"
    /\ mem' = [mem EXCEPT ![Home(t)].end = th[t].new + RangeSize]
    /\ ReturnId(t, th[t].new)
    /\ UNCHANGED <<sc, store, log, leader, stage, left>>

\* the end of GetOrCreateLid
StoreLabel(t) ==
    /\ th[t].pc = "stored" /\ Calling(t) # "vid"
    /\ mem' = [mem EXCEPT ![Home(t)].lids[Calling(t)] = th[t].new]
    /\ ReturnToken(t, th[t].new)
    /\ UNCHANGED <<sc, store, log, leader, stage, left>>

-----------------------------------------------------------------------------
\* Another replica is elected; the old leader rejects what it has not applied.
Elect(n) ==
    /\ scenario.raft /\ left.elections > 0 /\ leader # n
    /\ leader' = n /\ left' = [left EXCEPT !.elections = @ - 1]
    /\ th' = [t \in Thread |-> IF Home(t) = leader /\ th[t].pc = "wait"
                               THEN [th[t] EXCEPT !.pc = "refused"] ELSE th[t]]
    /\ UNCHANGED <<sc, mem, store, log, stage, refill, create, given, tokens>>

\* The process ends and the graph is opened again.
Restart(n) ==
    /\ left.restarts > 0 /\ left' = [left EXCEPT !.restarts = @ - 1]
    /\ mem' = [mem EXCEPT ![n] = Loaded(store[n])]
    /\ stage' = [stage EXCEPT ![n] = 0]
    /\ refill' = [refill EXCEPT ![n] = None] /\ create' = [create EXCEPT ![n] = None]
    /\ th' = [t \in Thread |-> IF Home(t) # n \/ th[t].pc = "idle" THEN th[t]
                               ELSE Idle(Tail(th[t].calls))]
    /\ UNCHANGED <<sc, store, log, leader, given, tokens>>

Next ==
    \/ \E t \in Thread :
        \/ LoadNext(t) \/ LoadEnd(t) \/ TakeNext(t) \/ LockRefill(t) \/ Recheck(t)
        \/ LoadStart(t) \/ FindLabel(t) \/ LockCreate(t) \/ NumberLabel(t)
        \/ WriteRecord(t) \/ Propose(t) \/ NotLeader(t) \/ Refused(t)
        \/ StorePersisted(t) \/ StoreNext(t) \/ StoreEnd(t) \/ StoreLabel(t)
    \/ \E n \in Node : Apply(n) \/ Elect(n) \/ Restart(n)

Spec == Init /\ [][Next]_vars

-----------------------------------------------------------------------------
\* The counters stay within int64_t, also when the last range is used up, a replica
\* holds a label or none under each name, and each mutex has at most one holder,
\* a thread inside the section that it guards.
TypeOK ==
    /\ sc \in DOMAIN Scenarios
    /\ mem \in [Node -> [persisted : 1..MaxId, next : 1..MaxId, end : 1..MaxId,
                         lids : [Name -> Nat], nextLid : Nat \ {0}]]
    /\ store \in [Node -> [nextId : 1..MaxId, lids : [Name -> Nat], applied : 0..Len(log)]]
    /\ leader \in Node \cup {None} /\ stage \in [Node -> 0..2]
    /\ \A t \in Thread : /\ th[t].cand \in 0..MaxId /\ th[t].limit \in 0..MaxId
                         /\ th[t].at \in 0..Len(log)
    /\ \A n \in Node :
        /\ refill[n] # None => th[refill[n]].pc \notin {"idle", "again", "limit", "cas", "lock"}
        /\ create[n] # None => th[create[n]].pc \notin {"idle", "create"}

\* No two calls of GetNextVid return the same id, whatever restarts, timeouts and
\* interleavings of the loads and stores with the apply thread there are.
IdsUnique == \A x, y \in given : x.id = y.id => x = y

\* A label has one id and an id one label, for everyone who ever asked.
OneIdPerLabel == \A x, y \in tokens : x.name = y.name <=> x.id = y.id

\* Every vertex id is given once and every label has one id: the counters of
\* GetNextVid and of the tokens, with their loads, stores and refills.
GivenOnce == TypeOK /\ IdsUnique /\ OneIdPerLabel
=============================================================================
