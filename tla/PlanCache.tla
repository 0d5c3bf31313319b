----------------------------- MODULE PlanCache ------------------------------
(***************************************************************************)
(* The plan cache of runtime/plan_cache.cc and the way ExecuteQueryCursor  *)
(* uses it: the key is built from the catalog version before the lookup,   *)
(* the plan is compiled outside mutex_ against the catalog as it is then,  *)
(* and callers with the same key and epoch wait for one compilation.       *)
(*                                                                         *)
(* A compilation is a member of flights; a plan is known by the position   *)
(* of its compilation.  One action is one section under mutex_.            *)
(***************************************************************************)
EXTENDS Integers, Sequences, FiniteSets, Functions

CONSTANTS
    Threads,
    Queries,         \* the other fields of PlanCacheKey, as one value
    Capacities,      \* what capacity_ may be
    MaxCalls,        \* bound: calls of LookupOrCompile
    MaxEpoch,        \* bound: calls of Clear
    MaxCatalog       \* bound: index changes

ASSUME PlanCacheAssumption ==
    /\ Queries # {} /\ Capacities \subseteq Nat
    /\ MaxCalls \in Nat /\ MaxEpoch \in Nat /\ MaxCatalog \in Nat

VARIABLES
    capacity_,       \* set when the cache is made
    planner_catalog_version_,
    entries_,        \* key -> position of the compilation
    lru_,            \* keys, most recently used first
    in_flight_,      \* [plan, epoch] -> position of the compilation
    epoch_,
    clears,          \* history: calls of Clear so far
    stats,
    flights,         \* every compilation so far
    pc, key, flight, \* of each thread
    asked,           \* clears when the call began
    result           \* what the last call of each thread returned

cacheVars  == <<entries_, lru_>>
epochVars  == <<epoch_, clears>>
threadVars == <<pc, key, flight, asked, result>>
vars == <<capacity_, planner_catalog_version_, cacheVars, in_flight_, epochVars, stats,
          flights, threadVars>>

Keys == [query : Queries, version : Nat]
NoFlight == 0
NoKey == [query |-> CHOOSE q \in Queries : TRUE, version |-> 0]
NoResult == [flight |-> NoFlight, asked |-> 0, version |-> 0]

Init ==
    /\ capacity_ \in Capacities
    /\ planner_catalog_version_ = 0
    /\ entries_ = <<>>
    /\ lru_ = <<>>
    /\ in_flight_ = <<>>
    /\ epoch_ = 0
    /\ clears = 0
    /\ stats = [hits |-> 0, misses |-> 0, waits |-> 0, evictions |-> 0]
    /\ flights = <<>>
    /\ pc = [t \in Threads |-> "idle"]
    /\ key = [t \in Threads |-> NoKey]
    /\ flight = [t \in Threads |-> NoFlight]
    /\ asked = [t \in Threads |-> 0]
    /\ result = [t \in Threads |-> NoResult]

Calls == stats.hits + stats.misses + Cardinality({t \in Threads : pc[t] = "keyed"})
Count(field) == stats' = [stats EXCEPT ![field] = @ + 1]
Put(f, x, y) == [z \in DOMAIN f \cup {x} |-> IF z = x THEN y ELSE f[z]]
Drop(f, x) == [z \in DOMAIN f \ {x} |-> f[z]]
InFlightKey(t) == [plan |-> key[t], epoch |-> flights[flight[t]].epoch]

-----------------------------------------------------------------------------
\* ExecuteQueryCursor builds the key; the catalog may change right after.
BuildKey(t, q) ==
    /\ pc[t] = "idle"
    /\ Calls < MaxCalls
    /\ key' = [key EXCEPT ![t] = [query |-> q, version |-> planner_catalog_version_]]
    /\ asked' = [asked EXCEPT ![t] = clears]
    /\ pc' = [pc EXCEPT ![t] = "keyed"]
    /\ UNCHANGED <<planner_catalog_version_, cacheVars, in_flight_, epochVars, stats,
                   flights, flight, result>>

Return(t, f) ==
    /\ pc' = [pc EXCEPT ![t] = "idle"]
    /\ result' = [result EXCEPT ![t] =
                    [flight |-> f, asked |-> asked[t], version |-> key[t].version]]
    /\ key' = [key EXCEPT ![t] = NoKey]
    /\ flight' = [flight EXCEPT ![t] = NoFlight]
    /\ asked' = [asked EXCEPT ![t] = 0]

\* A compilation starts under the current epoch.
StartCompile(t) ==
    /\ stats' = [stats EXCEPT !.misses = @ + 1]
    /\ flights' = Append(flights, [key |-> key[t], epoch |-> epoch_, clears |-> clears,
                                   catalog |-> 0, state |-> "running"])
    /\ flight' = [flight EXCEPT ![t] = Len(flights) + 1]
    /\ pc' = [pc EXCEPT ![t] = "compiling"]

\* capacity_ = 0: every call compiles for itself.
LookupUncached(t) ==
    /\ pc[t] = "keyed"
    /\ capacity_ = 0
    /\ StartCompile(t)
    /\ UNCHANGED <<planner_catalog_version_, cacheVars, in_flight_, epochVars, key,
                   asked, result>>

\* lru_.splice moves the element at lru_position to the front.
MoveToFront(s, i) ==
    [j \in DOMAIN s |-> IF j = 1 THEN s[i] ELSE IF j <= i THEN s[j - 1] ELSE s[j]]

LookupHit(t) ==
    /\ pc[t] = "keyed"
    /\ key[t] \in DOMAIN entries_
    /\ lru_' = MoveToFront(lru_, CHOOSE i \in DOMAIN lru_ : lru_[i] = key[t])
    /\ Count("hits")
    /\ Return(t, entries_[key[t]])
    /\ UNCHANGED <<planner_catalog_version_, entries_, in_flight_, epochVars, flights>>

LookupWait(t) ==
    LET k == [plan |-> key[t], epoch |-> epoch_]
    IN  /\ pc[t] = "keyed"
        /\ key[t] \notin DOMAIN entries_
        /\ k \in DOMAIN in_flight_
        /\ stats' = [stats EXCEPT !.misses = @ + 1, !.waits = @ + 1]
        /\ flight' = [flight EXCEPT ![t] = in_flight_[k]]
        /\ pc' = [pc EXCEPT ![t] = "waiting"]
        /\ UNCHANGED <<planner_catalog_version_, cacheVars, in_flight_, epochVars, flights,
                       key, asked, result>>

\* Mutant: registers without looking for a compilation in flight.
MutLookupRegister(t) ==
    /\ pc[t] = "keyed" /\ capacity_ # 0
    /\ key[t] \notin DOMAIN entries_
    /\ in_flight_' = Put(in_flight_, [plan |-> key[t], epoch |-> epoch_],
                         Len(flights) + 1)
    /\ StartCompile(t)
    /\ UNCHANGED <<planner_catalog_version_, cacheVars, epochVars, key, asked, result>>

LookupRegister(t) ==
    LET k == [plan |-> key[t], epoch |-> epoch_]
    IN  /\ pc[t] = "keyed"
        /\ capacity_ # 0
        /\ key[t] \notin DOMAIN entries_
        /\ k \notin DOMAIN in_flight_
        /\ in_flight_' = Put(in_flight_, k, Len(flights) + 1)
        /\ StartCompile(t)
        /\ UNCHANGED <<planner_catalog_version_, cacheVars, epochVars, key, asked, result>>

\* compiler(), outside mutex_: it returns a plan made with the catalog of this
\* moment, or throws (a null result throws as well).
Compile(t, ok) ==
    /\ pc[t] = "compiling"
    /\ flights' = [flights EXCEPT ![flight[t]] =
                      [@ EXCEPT !.state = IF ok THEN "plan" ELSE "error",
                                !.catalog = planner_catalog_version_]]
    /\ pc' = [pc EXCEPT ![t] = "compiled"]
    /\ UNCHANGED <<planner_catalog_version_, cacheVars, in_flight_, epochVars, stats,
                   key, flight, asked, result>>

\* The entry is put in front; the least recently used one makes room.
Insert(k, f) ==
    IF k \in DOMAIN entries_
    THEN UNCHANGED <<cacheVars, stats>>
    ELSE LET all == <<k>> \o lru_
             old == all[Len(all)]
         IN  IF Cardinality(DOMAIN entries_) + 1 > capacity_
             THEN /\ entries_' = Drop(Put(entries_, k, f), old)
                  /\ lru_' = SubSeq(all, 1, Len(all) - 1)
                  /\ Count("evictions")
             ELSE /\ entries_' = Put(entries_, k, f)
                  /\ lru_' = all
                  /\ UNCHANGED stats

Cacheable(f) == f.state = "plan" /\ f.epoch = epoch_

\* Mutant: an error is rethrown before the waiters are released.
MutPublish(t) ==
    /\ pc[t] = "compiled" /\ capacity_ # 0
    /\ IF flights[flight[t]].state = "error"
       THEN UNCHANGED <<cacheVars, stats, in_flight_>>
       ELSE /\ Insert(key[t], flight[t])
            /\ in_flight_' = Drop(in_flight_, InFlightKey(t))
    /\ Return(t, flight[t])
    /\ UNCHANGED <<planner_catalog_version_, epochVars, flights>>

\* The result is cached if no Clear came since, unless the allocation of the
\* entry fails; either way the waiters are released.
Publish(t) ==
    /\ pc[t] = "compiled"
    /\ capacity_ # 0
    /\ \/ Cacheable(flights[flight[t]]) /\ Insert(key[t], flight[t])
       \/ UNCHANGED <<cacheVars, stats>>
    /\ in_flight_' = Drop(in_flight_, InFlightKey(t))
    /\ Return(t, flight[t])
    /\ UNCHANGED <<planner_catalog_version_, epochVars, flights>>

ReturnUncached(t) ==
    /\ pc[t] = "compiled"
    /\ capacity_ = 0
    /\ Return(t, flight[t])
    /\ UNCHANGED <<planner_catalog_version_, cacheVars, in_flight_, epochVars, stats, flights>>

\* done is set when the compilation leaves in_flight_.
Done(f) == \A k \in DOMAIN in_flight_ : in_flight_[k] # f

\* completed.wait returns once done is set.
WaitDone(t) ==
    /\ pc[t] = "waiting"
    /\ Done(flight[t])
    /\ Return(t, flight[t])
    /\ UNCHANGED <<planner_catalog_version_, cacheVars, in_flight_, epochVars, stats, flights>>

\* Mutant: empties the cache and leaves the epoch alone.
MutClear ==
    /\ clears < MaxEpoch
    /\ clears' = clears + 1
    /\ entries_' = <<>> /\ lru_' = <<>>
    /\ UNCHANGED <<planner_catalog_version_, in_flight_, epoch_, stats, flights,
                   threadVars>>

Clear ==
    /\ clears < MaxEpoch
    /\ clears' = clears + 1
    /\ entries_' = <<>>
    /\ lru_' = <<>>
    /\ epoch_' = epoch_ + 1
    /\ UNCHANGED <<planner_catalog_version_, in_flight_, stats, flights, threadVars>>

\* MetaInfo publishes or drops a property index, under its own lock.
AdvancePlannerCatalogVersion ==
    /\ planner_catalog_version_ < MaxCatalog
    /\ planner_catalog_version_' = planner_catalog_version_ + 1
    /\ UNCHANGED <<cacheVars, in_flight_, epochVars, stats, flights, threadVars>>

LookupOrCompile(t) ==
    /\ \/ LookupUncached(t) \/ LookupHit(t) \/ LookupWait(t) \/ LookupRegister(t)
       \/ Compile(t, TRUE) \/ Compile(t, FALSE)
       \/ Publish(t) \/ ReturnUncached(t) \/ WaitDone(t)
    /\ UNCHANGED capacity_

Next ==
    \/ \E t \in Threads : LookupOrCompile(t)
    \/ /\ \/ \E t \in Threads, q \in Queries : BuildKey(t, q)
          \/ Clear
          \/ AdvancePlannerCatalogVersion
       /\ UNCHANGED capacity_

Spec == Init /\ [][Next]_vars

\* Threads run, and the compiler terminates.
FairSpec == Spec /\ \A t \in Threads : WF_vars(LookupOrCompile(t))

-----------------------------------------------------------------------------
Flight == [key : Keys, epoch : Nat, clears : Nat, catalog : Nat,
           state : {"running", "plan", "error"}]

Compiling == {t \in Threads : pc[t] \in {"compiling", "compiled"}}

\* Every field of the cache and every local of LookupOrCompile keeps its shape;
\* lru_ and entries_ hold the same keys, each once, and never more than the
\* capacity, so that the entry evicted is one that exists.
TypeOK ==
    /\ planner_catalog_version_ \in Nat /\ epoch_ \in Nat /\ clears \in Nat
    /\ flights \in Seq(Flight)
    /\ DOMAIN entries_ \subseteq Keys
    /\ \A k \in DOMAIN entries_ : entries_[k] \in DOMAIN flights
    /\ DOMAIN in_flight_ \subseteq [plan : Keys, epoch : Nat]
    /\ \A k \in DOMAIN in_flight_ : in_flight_[k] \in DOMAIN flights
    /\ pc \in [Threads -> {"idle", "keyed", "compiling", "compiled", "waiting"}]
    /\ key \in [Threads -> Keys]
    /\ flight \in [Threads -> Nat]
    /\ asked \in [Threads -> Nat]
    /\ IsInjective(lru_)
    /\ Range(lru_) = DOMAIN entries_
    /\ Len(lru_) <= capacity_

\* "Clear does not cancel callers that already started compilation ... is not
\* inserted after this call", "Compilation failures ... are never cached": a
\* cached plan is complete, was begun after the last Clear, answers its own key,
\* and was compiled with a catalog no older than the version in the key.
NoStalePlan ==
    \A k \in DOMAIN entries_ :
       LET f == flights[entries_[k]]
       IN  /\ f.state = "plan"
           /\ f.clears = clears
           /\ f.key = k
           /\ f.catalog >= k.version

\* What LookupOrCompile returns was compiled after the Clear and the index
\* changes that preceded the call, whether it was a hit, a wait or a compilation.
ReturnedFresh ==
    \A t \in Threads :
       result[t].flight # NoFlight =>
          LET f == flights[result[t].flight]
          IN  /\ f.state # "running"
              /\ f.clears >= result[t].asked
              /\ f.catalog >= result[t].version

\* Between two calls of Clear a key is compiled by one caller at a time, and
\* in_flight_ holds exactly the compilations that are not yet published.
SingleFlight ==
    /\ \A s, t \in Compiling :
          /\ key[s] = key[t]
          /\ flights[flight[s]].epoch = flights[flight[t]].epoch
          /\ capacity_ # 0
          => s = t
    /\ capacity_ # 0 =>
          /\ DOMAIN in_flight_ = {InFlightKey(t) : t \in Compiling}
          /\ \A t \in Compiling : in_flight_[InFlightKey(t)] = flight[t]

\* Every call returns: no waiter is left behind by a compiler that failed, by a
\* Clear, or by an entry that could not be allocated.
CallsReturn == \A t \in Threads : pc[t] = "keyed" ~> pc[t] = "idle"

\* The cache holds and returns no plan that a Clear or a change of the indexes
\* made stale, and evicts only what it holds.
CacheSound == TypeOK /\ NoStalePlan /\ ReturnedFresh
=============================================================================
