-------------------------- MODULE PlanCacheSafety ---------------------------
(***************************************************************************)
(* The plan cache is sound for any number of threads and queries, every    *)
(* capacity, and any number of calls, of Clear and of index changes: the   *)
(* steps by which a call returns, those of Clear and of the catalog, and   *)
(* the theorems.                                                           *)
(***************************************************************************)
EXTENDS PlanCacheProofs, FiniteSetTheorems

\* A list without repetitions has as many elements as it has members: the
\* comparison of entries_.size() with the capacity is one of the list's length.
LEMMA LruCount ==
    ASSUME NEW s \in Seq(Keys), IsInjective(s)
    PROVE  IsFiniteSet(Range(s)) /\ Cardinality(Range(s)) = Len(s)
<1>0. Len(s) \in Nat /\ 1 \in Int
  OBVIOUS
<1>1. IsFiniteSet(1 .. Len(s)) /\ Cardinality(1 .. Len(s)) = Len(s)
  BY <1>0, FS_Interval, SMTT(20)
<1>2. s \in Bijection(1 .. Len(s), Range(s))
  BY DEF IsInjective, Range, Bijection, Injection, Surjection
<1>3. ExistsBijection(1 .. Len(s), Range(s))
  BY <1>2, Zenon DEF ExistsBijection
<1>. QED
  BY <1>1, <1>3, FS_Bijection, Zenon

\* A call that returns leaves the others alone.
Returned(t) ==
    /\ pc' \in [Threads -> States] /\ key' \in [Threads -> Keys]
    /\ flight' \in [Threads -> Nat] /\ asked' \in [Threads -> Nat]
    /\ pc'[t] = "idle" /\ Compiling' = Compiling \ {t}
    /\ OnlyCall(t)

\* What a call returns is fresh if its compilation is.
LEMMA ReturnKeeps ==
    ASSUME IInv, NEW t \in Threads, NEW f \in DOMAIN flights, Return(t, f),
           flights[f].state # "running", flights[f].clears >= asked[t],
           flights[f].catalog >= key[t].version,
           UNCHANGED <<capacity_, planner_catalog_version_, epochVars, flights>>
    PROVE  /\ Returned(t) /\ ReturnedFresh' /\ CallsBegan' /\ Owners'
           /\ result' \in [Threads -> Results]
           /\ \A s \in Threads : result'[s].flight # NoFlight => result'[s].flight \in DOMAIN flights
<1>. DEFINE r == [flight |-> f, asked |-> asked[t], version |-> key[t].version]
<1>0. /\ pc' = [pc EXCEPT ![t] = "idle"] /\ key' = [key EXCEPT ![t] = NoKey]
      /\ flight' = [flight EXCEPT ![t] = NoFlight] /\ asked' = [asked EXCEPT ![t] = 0]
      /\ result' = [result EXCEPT ![t] = r]
      /\ flights' = flights /\ clears' = clears
      /\ planner_catalog_version_' = planner_catalog_version_
  BY Zenon DEF Return, epochVars
<1>1. /\ pc \in [Threads -> States] /\ key \in [Threads -> Keys] /\ flight \in [Threads -> Nat]
      /\ asked \in [Threads -> Nat] /\ result \in [Threads -> Results] /\ flights \in Seq(Flight)
  BY Zenon DEF IInv, CacheSound, TypeOK, Shape, States, Results
<1>2. NoKey \in Keys /\ NoFlight \in Nat
  BY PlanCacheAssumption, Zenon DEF NoKey, Keys, NoFlight
<1>3. r \in Results /\ r.flight = f /\ r.asked = asked[t] /\ r.version = key[t].version
  <2>1. key[t] \in Keys /\ asked[t] \in Nat /\ f \in Nat
    BY <1>1
  <2>. QED
    BY <2>1, Zenon DEF Results, Keys
<1>. HIDE DEF r
<1>4. /\ pc' \in [Threads -> States] /\ key' \in [Threads -> Keys] /\ flight' \in [Threads -> Nat]
      /\ asked' \in [Threads -> Nat] /\ pc'[t] = "idle"
      /\ \A s \in Threads \ {t} : SameCall(s)
  BY <1>0, <1>1, <1>2, Zenon DEF SameCall, States
<1>5. FlightsKept /\ OnlyCall(t)
  BY <1>0, <1>4, Zenon DEF FlightsKept, OnlyCall
<1>6. Returned(t)
  <2>1. Compiling' = Compiling \ {t}
    BY <1>4, Zenon DEF Compiling, SameCall
  <2>. QED
    BY <1>4, <1>5, <2>1, Zenon DEF Returned
<1>7. /\ result' \in [Threads -> Results] /\ result'[t] = r
      /\ \A s \in Threads \ {t} : result'[s] = result[s]
  BY <1>0, <1>1, <1>3, Zenon
<1>8. \A s \in Threads : result'[s].flight # NoFlight => result'[s].flight \in DOMAIN flights
  BY <1>3, <1>7, Zenon DEF IInv, Shape
<1>9. ReturnedFresh'
  BY <1>0, <1>3, <1>7, Zenon DEF IInv, CacheSound, ReturnedFresh
<1>10. CallsBegan'
  BY <1>0, <1>4 DEF IInv, CallsBegan, SameCall
<1>11. Owners'
  BY <1>5, <1>6, OwnersKept, Zenon DEF IInv, Returned
<1>. QED
  BY <1>6, <1>7, <1>8, <1>9, <1>10, <1>11, Zenon

\* A hit returns a plan begun after the last Clear, and its key is the most
\* recently used one.
LEMMA LookupHitKeeps ==
    ASSUME IInv, NEW t \in Threads, LookupHit(t), capacity_' = capacity_
    PROVE  IInv'
<1>. DEFINE i == CHOOSE j \in DOMAIN lru_ : lru_[j] = key[t]
            f == entries_[key[t]]
<1>0. /\ planner_catalog_version_' = planner_catalog_version_ /\ entries_' = entries_
      /\ epoch_' = epoch_ /\ clears' = clears /\ in_flight_' = in_flight_ /\ flights' = flights
      /\ pc[t] = "keyed" /\ key[t] \in DOMAIN entries_ /\ lru_' = MoveToFront(lru_, i)
      /\ Return(t, f)
  BY Zenon DEF LookupHit, epochVars
<1>1. /\ f \in DOMAIN flights /\ flights[f].state # "running" /\ flights[f].clears >= asked[t]
      /\ flights[f].catalog >= key[t].version
  <2>1. f \in DOMAIN flights /\ clears \in Nat /\ asked[t] \in Nat
    BY <1>0, Zenon DEF IInv, CacheSound, TypeOK
  <2>. QED
    BY <1>0, <2>1, Zenon DEF IInv, CacheSound, NoStalePlan, CallsBegan
<1>2. /\ Returned(t) /\ ReturnedFresh' /\ CallsBegan' /\ Owners'
      /\ result' \in [Threads -> Results]
      /\ \A s \in Threads : result'[s].flight # NoFlight => result'[s].flight \in DOMAIN flights
  BY <1>0, <1>1, ReturnKeeps, Zenon DEF epochVars
<1>3. /\ lru_' \in Seq(Keys) /\ IsInjective(lru_') /\ Range(lru_') = Range(lru_)
      /\ Len(lru_') = Len(lru_)
  <2>1. lru_ \in Seq(Keys) /\ IsInjective(lru_) /\ key[t] \in Range(lru_)
    BY <1>0, Zenon DEF IInv, CacheSound, TypeOK, Shape
  <2>2. i \in DOMAIN lru_
    BY <2>1, Zenon DEF Range
  <2>. HIDE DEF i
  <2>. QED
    BY <1>0, <2>1, <2>2, LruMove, Zenon
<1>4. TypeOK'
  BY <1>0, <1>2, <1>3, Zenon DEF Returned, IInv, CacheSound, TypeOK, States
<1>5. NoStalePlan'
  BY <1>0, Zenon DEF IInv, CacheSound, NoStalePlan
<1>6. Shape'
  BY <1>0, <1>2, <1>3, Zenon DEF IInv, Shape, Results
<1>7. OnlyCall(t) /\ pc'[t] = "idle" /\ t \notin Compiling /\ t \notin Compiling'
  BY <1>0, <1>2, Zenon DEF Returned, Compiling
<1>8. Waiters' /\ Registered'
  BY <1>0, <1>7, WaitersKept, RegisteredKept, Zenon DEF IInv
<1>. QED
  BY <1>2, <1>4, <1>5, <1>6, <1>8, Zenon DEF IInv, CacheSound

\* Insert puts the key in front; what it evicts is an entry that exists.
LEMMA InsertKeeps ==
    ASSUME IInv, NEW t \in Threads, capacity_ # 0, Insert(key[t], flight[t])
    PROVE  /\ lru_' \in Seq(Keys) /\ IsInjective(lru_') /\ Range(lru_') = DOMAIN entries_'
           /\ Len(lru_') <= capacity_
           /\ \A k \in DOMAIN entries_' :
                 \/ k \in DOMAIN entries_ /\ entries_'[k] = entries_[k]
                 \/ k = key[t] /\ entries_'[k] = flight[t]
<1>. DEFINE all == <<key[t]>> \o lru_
            front == SubSeq(all, 1, Len(all) - 1)
            old == all[Len(all)]
            put == Put(entries_, key[t], flight[t])
<1>0. /\ lru_ \in Seq(Keys) /\ IsInjective(lru_) /\ Range(lru_) = DOMAIN entries_
      /\ Len(lru_) <= capacity_ /\ key[t] \in Keys /\ capacity_ \in Nat
  BY Zenon DEF IInv, CacheSound, TypeOK, Shape
<1>1. CASE key[t] \in DOMAIN entries_
  BY <1>0, <1>1, Zenon DEF Insert, cacheVars
<1>2. CASE key[t] \notin DOMAIN entries_
  <2>1. Cardinality(DOMAIN entries_) = Len(lru_) /\ Len(lru_) \in Nat
    BY <1>0, LruCount
  <2>2. /\ all \in Seq(Keys) /\ IsInjective(all) /\ Len(all) = Len(lru_) + 1
        /\ Range(all) = Range(lru_) \cup {key[t]}
        /\ front \in Seq(Keys) /\ IsInjective(front) /\ Len(front) = Len(lru_)
        /\ Range(front) = Range(all) \ {old}
    BY <1>0, <1>2, LruPush, Zenon
  <2>3. /\ DOMAIN put = DOMAIN entries_ \cup {key[t]} /\ put[key[t]] = flight[t]
        /\ \A k \in DOMAIN entries_ : put[k] = entries_[k]
    BY <1>2, Zenon DEF Put
  <2>4. /\ Len(lru_) + 1 > capacity_ => entries_' = Drop(put, old) /\ lru_' = front
        /\ ~(Len(lru_) + 1 > capacity_) => entries_' = put /\ lru_' = all
    BY <1>2, <2>1 DEF Insert
  <2>. HIDE DEF all, front, old, put
  <2>5. CASE Len(lru_) + 1 > capacity_
    <3>1. /\ DOMAIN entries_' = DOMAIN put \ {old}
          /\ \A k \in DOMAIN entries_' : entries_'[k] = put[k]
      BY <2>4, <2>5 DEF Drop
    <3>2. Range(lru_') = DOMAIN entries_'
      BY <1>0, <2>2, <2>3, <2>4, <2>5, <3>1, Zenon
    <3>3. \A k \in DOMAIN entries_' :
             \/ k \in DOMAIN entries_ /\ entries_'[k] = entries_[k]
             \/ k = key[t] /\ entries_'[k] = flight[t]
      BY <2>3, <3>1
    <3>. QED
      BY <1>0, <2>2, <2>4, <2>5, <3>2, <3>3, Zenon
  <2>6. CASE ~(Len(lru_) + 1 > capacity_)
    <3>1. Range(lru_') = DOMAIN entries_'
      BY <1>0, <2>2, <2>3, <2>4, <2>6
    <3>2. Len(lru_') <= capacity_
      BY <1>0, <2>1, <2>2, <2>4, <2>6
    <3>. QED
      BY <2>2, <2>3, <2>4, <2>6, <3>1, <3>2, Zenon
  <2>. QED
    BY <2>5, <2>6, Zenon
<1>. QED
  BY <1>1, <1>2, Zenon

\* The result of a compilation is cached if no Clear came since, and those who
\* wait for it return what is no older than their calls.
LEMMA PublishKeeps ==
    ASSUME IInv, NEW t \in Threads, Publish(t), capacity_' = capacity_
    PROVE  IInv'
<1>. DEFINE f == flight[t]
<1>0. /\ planner_catalog_version_' = planner_catalog_version_ /\ epoch_' = epoch_
      /\ clears' = clears /\ flights' = flights /\ capacity_ # 0 /\ pc[t] = "compiled"
      /\ in_flight_' = Drop(in_flight_, InFlightKey(t)) /\ Return(t, f)
      /\ \/ Cacheable(flights[f]) /\ Insert(key[t], f)
         \/ entries_' = entries_ /\ lru_' = lru_
  BY Zenon DEF Publish, epochVars, cacheVars
<1>1. t \in Compiling /\ Serves(t) /\ Over(t)
  BY <1>0, Zenon DEF IInv, Owners, Compiling
<1>2. /\ Returned(t) /\ ReturnedFresh' /\ CallsBegan' /\ Owners'
      /\ result' \in [Threads -> Results]
      /\ \A s \in Threads : result'[s].flight # NoFlight => result'[s].flight \in DOMAIN flights
  BY <1>0, <1>1, ReturnKeeps, Zenon DEF Serves, Over, epochVars
<1>3. OnlyCall(t) /\ pc'[t] = "idle" /\ Compiling' = Compiling \ {t}
  BY <1>2 DEF Returned
<1>4. /\ lru_' \in Seq(Keys) /\ IsInjective(lru_') /\ Range(lru_') = DOMAIN entries_'
      /\ Len(lru_') <= capacity_
      /\ \A k \in DOMAIN entries_' :
            \/ k \in DOMAIN entries_ /\ entries_'[k] = entries_[k]
            \/ k = key[t] /\ entries_'[k] = f /\ Cacheable(flights[f])
  <2>1. CASE Cacheable(flights[f]) /\ Insert(key[t], f)
    BY <1>0, <2>1, InsertKeeps, Zenon
  <2>2. CASE entries_' = entries_ /\ lru_' = lru_
    BY <2>2 DEF IInv, CacheSound, TypeOK, Shape
  <2>. QED
    BY <1>0, <2>1, <2>2, Zenon
<1>5. /\ DOMAIN in_flight_' = DOMAIN in_flight_ \ {InFlightKey(t)}
      /\ \A k \in DOMAIN in_flight_' : in_flight_'[k] = in_flight_[k]
  BY <1>0, Zenon DEF Drop
<1>6. TypeOK'
  <2>1. /\ DOMAIN entries_' \subseteq Keys
        /\ \A k \in DOMAIN entries_' : entries_'[k] \in DOMAIN flights
    <3>1. /\ DOMAIN entries_ \subseteq Keys /\ key[t] \in Keys /\ f \in DOMAIN flights
          /\ \A k \in DOMAIN entries_ : entries_[k] \in DOMAIN flights
      BY <1>1, Zenon DEF IInv, CacheSound, TypeOK, Serves
    <3>. QED
      BY <1>4, <3>1, Zenon
  <2>2. /\ DOMAIN in_flight_' \subseteq [plan : Keys, epoch : Nat]
        /\ \A k \in DOMAIN in_flight_' : in_flight_'[k] \in DOMAIN flights
    BY <1>5, Zenon DEF IInv, CacheSound, TypeOK
  <2>. QED
    BY <1>0, <1>2, <1>4, <2>1, <2>2, Zenon DEF Returned, IInv, CacheSound, TypeOK, States
<1>7. NoStalePlan'
  <2>1. ASSUME NEW k \in DOMAIN entries_', k \in DOMAIN entries_, entries_'[k] = entries_[k]
        PROVE  LET g == flights[entries_'[k]]
               IN  g.state = "plan" /\ g.clears = clears /\ g.key = k /\ g.catalog >= k.version
    BY <2>1, Zenon DEF IInv, CacheSound, NoStalePlan
  <2>2. Cacheable(flights[f]) =>
          /\ flights[f].state = "plan" /\ flights[f].clears = clears
          /\ flights[f].key = key[t] /\ flights[f].catalog >= key[t].version
    BY <1>1, Zenon DEF Cacheable, IInv, Shape, Serves, Over
  <2>. QED
    BY <1>0, <1>4, <2>1, <2>2 DEF NoStalePlan
<1>8. Shape'
  BY <1>0, <1>2, <1>4 DEF IInv, Shape, Results
<1>9. Waiters'
  <2>. SUFFICES ASSUME NEW w \in Threads, pc'[w] = "waiting"
                PROVE  Serves(w)' /\ (Done(flight[w])' => Over(w)')
    BY Zenon DEF Waiters
  <2>1. w \in Threads \ {t} /\ pc[w] = "waiting" /\ flight'[w] = flight[w]
    BY <1>3, Zenon DEF OnlyCall, SameCall
  <2>2. Serves(w) /\ (Done(flight[w]) => Over(w))
    BY <2>1, Zenon DEF IInv, Waiters
  <2>3. ASSUME Done(flight[w])', ~Done(flight[w]) PROVE Over(w)
    <3>1. in_flight_[InFlightKey(t)] = f
      BY <1>0, <1>1 DEF IInv, Registered
    <3>2. flight[w] = f
      BY <1>5, <2>1, <2>3, <3>1 DEF Done
    <3>. QED
      BY <1>1, <2>2, <3>2, Zenon DEF Serves, Over
  <2>. QED
    BY <1>3, <2>1, <2>2, <2>3, OthersKept, Zenon
<1>10. Registered'
  <2>1. ASSUME NEW s \in Compiling'
        PROVE  /\ s \in Compiling /\ s # t
               /\ InFlightKey(s)' = InFlightKey(s) /\ flight'[s] = flight[s]
    <3>1. s \in Compiling /\ s \in Threads \ {t} /\ Serves(s)
      BY <1>3, Zenon DEF Compiling, IInv, Owners
    <3>. QED
      BY <1>3, <3>1, OthersKept DEF OnlyCall, SameCall
  <2>2. \A r, s \in Compiling' : InFlightKey(r)' = InFlightKey(s)' => r = s
    BY <1>0, <2>1 DEF IInv, Registered
  <2>3. ASSUME NEW k \in DOMAIN in_flight_'
        PROVE  \E s \in Compiling' : k = InFlightKey(s)'
    <3>1. PICK s \in Compiling : k = InFlightKey(s)
      BY <1>0, <1>5, Zenon DEF IInv, Registered
    <3>2. s \in Compiling'
      BY <1>3, <1>5, <3>1, Zenon
    <3>. QED
      BY <2>1, <3>1, <3>2, Zenon
  <2>4. ASSUME NEW s \in Compiling'
        PROVE  InFlightKey(s)' \in DOMAIN in_flight_' /\ in_flight_'[InFlightKey(s)'] = flight'[s]
    <3>1. InFlightKey(s) # InFlightKey(t)
      BY <1>0, <1>1, <2>1, Zenon DEF IInv, Registered
    <3>. QED
      BY <1>0, <1>5, <2>1, <3>1 DEF IInv, Registered
  <2>. QED
    BY <1>0, <2>2, <2>3, <2>4, Zenon DEF Registered
<1>. QED
  BY <1>2, <1>6, <1>7, <1>8, <1>9, <1>10, Zenon DEF IInv, CacheSound

\* A call that returns what it compiled or waited for, with the cache as it was.
LEMMA PlainReturnKeeps ==
    ASSUME IInv, NEW t \in Threads, Return(t, flight[t]), Serves(t), Over(t),
           t \in Compiling => capacity_ = 0,
           UNCHANGED <<capacity_, planner_catalog_version_, cacheVars, in_flight_, epochVars,
                       stats, flights>>
    PROVE  IInv'
<1>0. /\ planner_catalog_version_' = planner_catalog_version_ /\ entries_' = entries_
      /\ lru_' = lru_ /\ epoch_' = epoch_ /\ clears' = clears /\ flights' = flights
      /\ in_flight_' = in_flight_ /\ capacity_' = capacity_
  BY Zenon DEF cacheVars, epochVars
<1>1. /\ Returned(t) /\ ReturnedFresh' /\ CallsBegan' /\ Owners'
      /\ result' \in [Threads -> Results]
      /\ \A s \in Threads : result'[s].flight # NoFlight => result'[s].flight \in DOMAIN flights
  BY ReturnKeeps, Zenon DEF Serves, Over
<1>2. TypeOK'
  BY <1>0, <1>1, Zenon DEF Returned, IInv, CacheSound, TypeOK, States
<1>3. NoStalePlan' /\ Shape'
  BY <1>0, <1>1 DEF IInv, CacheSound, NoStalePlan, Shape, Results
<1>4. OnlyCall(t) /\ pc'[t] = "idle" /\ t \notin Compiling'
  BY <1>1, Zenon DEF Returned
<1>5. Waiters' /\ Registered'
  BY <1>0, <1>4, WaitersKept, RegisteredKept, Zenon DEF IInv
<1>. QED
  BY <1>1, <1>2, <1>3, <1>5, Zenon DEF IInv, CacheSound

\* Without a capacity a call returns what it compiled itself.
LEMMA ReturnUncachedKeeps ==
    ASSUME IInv, NEW t \in Threads, ReturnUncached(t), capacity_' = capacity_
    PROVE  IInv'
<1>1. Serves(t) /\ Over(t)
  BY Zenon DEF IInv, Owners, Compiling, ReturnUncached
<1>. QED
  BY <1>1, PlainReturnKeeps, Zenon DEF ReturnUncached

\* A waiter returns what the compilation it waited for made.
LEMMA WaitDoneKeeps ==
    ASSUME IInv, NEW t \in Threads, WaitDone(t), capacity_' = capacity_
    PROVE  IInv'
<1>1. Serves(t) /\ Over(t) /\ t \notin Compiling
  BY DEF IInv, Waiters, Compiling, WaitDone
<1>. QED
  BY <1>1, PlainReturnKeeps DEF WaitDone

\* Clear empties the cache and starts an epoch; the compilations under way stay
\* registered under theirs.
LEMMA ClearKeeps ==
    ASSUME IInv, Clear, capacity_' = capacity_
    PROVE  IInv'
<1>0. /\ clears' = clears + 1 /\ epoch_' = epoch_ + 1 /\ entries_' = <<>> /\ lru_' = <<>>
      /\ UNCHANGED planner_catalog_version_ /\ UNCHANGED in_flight_ /\ UNCHANGED flights
      /\ UNCHANGED pc /\ UNCHANGED key /\ UNCHANGED flight /\ UNCHANGED asked /\ UNCHANGED result
  BY Zenon DEF Clear, threadVars
<1>1. /\ lru_' = <<>> /\ lru_' \in Seq(Keys) /\ IsInjective(lru_') /\ Len(lru_') = 0
      /\ DOMAIN entries_' = {} /\ Range(lru_') = {}
  BY <1>0 DEF IsInjective, Range
<1>2. TypeOK'
  <2>1. Len(lru_') <= capacity_'
    BY <1>1 DEF IInv, Shape
  <2>. QED
    BY <1>0, <1>1, <2>1 DEF IInv, CacheSound, TypeOK
<1>3. NoStalePlan' /\ ReturnedFresh'
  BY <1>0, <1>1, Zenon DEF IInv, CacheSound, NoStalePlan, ReturnedFresh
<1>4. Shape'
  BY <1>0, <1>1, Zenon DEF IInv, Shape
<1>5. CallsBegan'
  <2>1. clears \in Nat /\ asked \in [Threads -> Nat]
    BY Zenon DEF IInv, CacheSound, TypeOK
  <2>. QED
    BY <1>0, <2>1 DEF IInv, CallsBegan
<1>6. Compiling' = Compiling
  BY <1>0, Zenon DEF Compiling
<1>7. Owners'
  BY <1>0, <1>6, Zenon DEF IInv, Owners, Serves, Over
<1>8. Waiters'
  BY <1>0, Zenon DEF IInv, Waiters, Serves, Over, Done
<1>9. Registered'
  BY <1>0, <1>6 DEF IInv, Registered, InFlightKey
<1>. QED
  BY <1>2, <1>3, <1>4, <1>5, <1>7, <1>8, <1>9, Zenon DEF IInv, CacheSound

\* A change of the indexes leaves the cache alone.
LEMMA AdvanceKeeps ==
    ASSUME IInv, AdvancePlannerCatalogVersion, capacity_' = capacity_
    PROVE  IInv'
<1>0. /\ planner_catalog_version_' = planner_catalog_version_ + 1
      /\ UNCHANGED entries_ /\ UNCHANGED lru_ /\ UNCHANGED in_flight_ /\ UNCHANGED epoch_
      /\ UNCHANGED clears /\ UNCHANGED flights /\ UNCHANGED pc /\ UNCHANGED key
      /\ UNCHANGED flight /\ UNCHANGED asked /\ UNCHANGED result
  BY Zenon DEF AdvancePlannerCatalogVersion, threadVars, cacheVars, epochVars
<1>1. TypeOK'
  BY <1>0 DEF IInv, CacheSound, TypeOK
<1>2. NoStalePlan' /\ ReturnedFresh' /\ Shape'
  BY <1>0, Zenon DEF IInv, CacheSound, NoStalePlan, ReturnedFresh, Shape
<1>3. CallsBegan'
  <2>1. planner_catalog_version_ \in Nat /\ \A t \in Threads : key[t].version \in Nat
    BY Zenon DEF IInv, CacheSound, TypeOK, Keys
  <2>. QED
    BY <1>0, <2>1 DEF IInv, CallsBegan
<1>4. Compiling' = Compiling
  BY <1>0, Zenon DEF Compiling
<1>5. Owners' /\ Waiters'
  BY <1>0, <1>4 DEF IInv, Owners, Waiters, Serves, Over, Done
<1>6. Registered'
  BY <1>0, <1>4 DEF IInv, Registered, InFlightKey
<1>. QED
  BY <1>1, <1>2, <1>3, <1>5, <1>6, Zenon DEF IInv, CacheSound

-----------------------------------------------------------------------------
\* An empty cache is sound.
LEMMA InitSound == Init => IInv
<1>. SUFFICES ASSUME Init PROVE IInv
  BY Zenon
<1>. USE DEF Init
<1>1. NoKey \in Keys /\ NoFlight \in Nat
  BY PlanCacheAssumption, Zenon DEF NoKey, Keys, NoFlight
<1>2. /\ lru_ \in Seq(Keys) /\ IsInjective(lru_) /\ Len(lru_) = 0
      /\ DOMAIN entries_ = {} /\ Range(lru_) = {} /\ DOMAIN in_flight_ = {}
      /\ flights \in Seq(Flight) /\ DOMAIN flights = {}
  BY DEF IsInjective, Range
<1>3. Compiling = {}
  BY Zenon DEF Compiling
<1>4. capacity_ \in Nat
  BY PlanCacheAssumption, Zenon
<1>5. TypeOK
  BY <1>1, <1>2, <1>4 DEF TypeOK
<1>6. \A t \in Threads : result[t].flight = NoFlight
  BY Zenon DEF NoResult
<1>7. NoStalePlan /\ ReturnedFresh
  BY <1>2, <1>6, Zenon DEF NoStalePlan, ReturnedFresh
<1>8. Shape
  BY <1>1, <1>2, <1>4, <1>6, Zenon DEF Shape, NoResult
<1>. QED
  BY <1>2, <1>3, <1>5, <1>7, <1>8, Zenon DEF IInv, CacheSound, CallsBegan, Owners, Waiters, Registered

\* Every step of a call, of Clear and of MetaInfo keeps the invariant.
LEMMA StepSound == IInv /\ [Next]_vars => IInv'
<1>. SUFFICES ASSUME IInv, [Next]_vars PROVE IInv'
  OBVIOUS
<1>1. ASSUME NEW t \in Threads, LookupOrCompile(t) PROVE IInv'
  <2>. USE <1>1
  <2>1. CASE LookupUncached(t)
    BY <2>1, LookupUncachedKeeps, Zenon DEF LookupOrCompile
  <2>2. CASE LookupHit(t)
    BY <2>2, LookupHitKeeps, Zenon DEF LookupOrCompile
  <2>3. CASE LookupWait(t)
    BY <2>3, LookupWaitKeeps, Zenon DEF LookupOrCompile
  <2>4. CASE LookupRegister(t)
    BY <2>4, LookupRegisterKeeps, Zenon DEF LookupOrCompile
  <2>5. CASE Compile(t, TRUE)
    BY <2>5, CompileKeeps, Zenon DEF LookupOrCompile
  <2>6. CASE Compile(t, FALSE)
    BY <2>6, CompileKeeps, Zenon DEF LookupOrCompile
  <2>7. CASE Publish(t)
    BY <2>7, PublishKeeps, Zenon DEF LookupOrCompile
  <2>8. CASE ReturnUncached(t)
    BY <2>8, ReturnUncachedKeeps, Zenon DEF LookupOrCompile
  <2>9. CASE WaitDone(t)
    BY <2>9, WaitDoneKeeps, Zenon DEF LookupOrCompile
  <2>. QED
    BY <2>1, <2>2, <2>3, <2>4, <2>5, <2>6, <2>7, <2>8, <2>9, Zenon DEF LookupOrCompile
<1>2. ASSUME NEW t \in Threads, NEW q \in Queries, BuildKey(t, q), UNCHANGED capacity_
      PROVE  IInv'
  BY <1>2, BuildKeyKeeps, Zenon
<1>3. CASE Clear /\ UNCHANGED capacity_
  BY <1>3, ClearKeeps, Zenon
<1>4. CASE AdvancePlannerCatalogVersion /\ UNCHANGED capacity_
  BY <1>4, AdvanceKeeps, Zenon
<1>5. CASE UNCHANGED vars
  <2>. USE <1>5 DEF vars, cacheVars, epochVars, threadVars
  <2>1. CacheSound'
    BY Zenon DEF IInv, CacheSound, TypeOK, NoStalePlan, ReturnedFresh
  <2>2. Compiling' = Compiling
    BY Zenon DEF Compiling
  <2>3. Shape' /\ CallsBegan' /\ Owners' /\ Waiters'
    BY <2>2 DEF IInv, Shape, CallsBegan, Owners, Waiters, Serves, Over, Done
  <2>4. Registered'
    BY <2>2 DEF IInv, Registered, InFlightKey
  <2>. QED
    BY <2>1, <2>3, <2>4 DEF IInv
<1>. QED
  BY <1>1, <1>2, <1>3, <1>4, <1>5 DEF Next

\* The invariant holds in every state.
LEMMA Inductive == Spec => []IInv
  BY InitSound, StepSound, PTL DEF Spec

\* LookupOrCompile never serves a plan that a Clear or a change of the indexes
\* made stale before the call, lru_ and entries_ always hold the same keys, and
\* no more of them than the capacity.
THEOREM NoStalePlanIsServed == Spec => []CacheSound
<1>1. IInv => CacheSound
  BY Zenon DEF IInv
<1>. QED
  BY <1>1, Inductive, PTL

\* Between two calls of Clear no two callers compile the same key, and
\* in_flight_ holds exactly the compilations under way.
THEOREM OneCompilationPerKey == Spec => []SingleFlight
<1>1. IInv => SingleFlight
  <2>. SUFFICES ASSUME IInv PROVE SingleFlight
    BY Zenon
  <2>1. \A s, t \in Compiling : key[s] = key[t]
           /\ flights[flight[s]].epoch = flights[flight[t]].epoch /\ capacity_ # 0 => s = t
    BY Zenon DEF IInv, Registered, InFlightKey
  <2>2. ASSUME capacity_ # 0
        PROVE  /\ DOMAIN in_flight_ = {InFlightKey(t) : t \in Compiling}
               /\ \A t \in Compiling : in_flight_[InFlightKey(t)] = flight[t]
    BY <2>2, Zenon DEF IInv, Registered
  <2>. QED
    BY <2>1, <2>2, Zenon DEF SingleFlight
<1>. QED
  BY <1>1, Inductive, PTL
=============================================================================
