-------------------------- MODULE PlanCacheProofs ---------------------------
(***************************************************************************)
(* The inductive invariant of the plan cache, what the operations on lru_  *)
(* do to the list, and the steps of a call up to the end of its            *)
(* compilation.  PlanCacheSafety has the other steps and the theorems.     *)
(***************************************************************************)
EXTENDS PlanCache, TLAPS

\* What TypeOK does not say of the variables.
Shape ==
    /\ capacity_ \in Nat
    /\ lru_ \in Seq(Keys)
    /\ result \in [Threads -> [flight : Nat, asked : Nat, version : Nat]]
    /\ \A t \in Threads : result[t].flight # NoFlight => result[t].flight \in DOMAIN flights
    /\ epoch_ = clears
    /\ \A f \in DOMAIN flights : flights[f].epoch = flights[f].clears

\* A call that is under way began before now.
CallsBegan ==
    \A t \in Threads : pc[t] # "idle" =>
       /\ asked[t] <= clears
       /\ key[t].version <= planner_catalog_version_

\* The compilation that a thread performs or waits for answers its key and
\* began after the last Clear that preceded the call.
Serves(t) ==
    /\ flight[t] \in DOMAIN flights
    /\ flights[flight[t]].key = key[t]
    /\ flights[flight[t]].clears >= asked[t]

\* A compilation that is over saw the catalog that the key was built from.
Over(t) ==
    /\ flights[flight[t]].state # "running"
    /\ flights[flight[t]].catalog >= key[t].version

\* Threads that compile do so for themselves; a compilation runs until its
\* thread has compiled.
Owners ==
    /\ \A t \in Compiling : Serves(t)
    /\ \A t \in Compiling : pc[t] = "compiling" => flights[flight[t]].state = "running"
    /\ \A t \in Compiling : pc[t] = "compiled" => Over(t)
    /\ \A s, t \in Compiling : flight[s] = flight[t] => s = t

\* Threads that wait are registered with a compilation or can return.
Waiters ==
    \A t \in Threads : pc[t] = "waiting" =>
       /\ Serves(t)
       /\ Done(flight[t]) => Over(t)

\* SingleFlight key by key; without a capacity nothing is registered.
Registered ==
    /\ capacity_ # 0 => \A s, t \in Compiling : InFlightKey(s) = InFlightKey(t) => s = t
    /\ capacity_ # 0 => \A k \in DOMAIN in_flight_ : \E t \in Compiling : k = InFlightKey(t)
    /\ capacity_ # 0 => \A t \in Compiling : /\ InFlightKey(t) \in DOMAIN in_flight_
                                             /\ in_flight_[InFlightKey(t)] = flight[t]
    /\ capacity_ = 0 => DOMAIN in_flight_ = {}

IInv ==
    /\ CacheSound
    /\ Shape /\ CallsBegan /\ Owners /\ Waiters /\ Registered

-----------------------------------------------------------------------------
(* The list of the least recently used keys.                               *)

\* lru_.splice keeps the keys of the list and repeats none.
LEMMA LruMove ==
    ASSUME NEW s \in Seq(Keys), IsInjective(s), NEW i \in DOMAIN s
    PROVE  LET m == MoveToFront(s, i)
           IN  m \in Seq(Keys) /\ IsInjective(m) /\ Range(m) = Range(s) /\ Len(m) = Len(s)
<1>. DEFINE m == MoveToFront(s, i)
<1>1. /\ DOMAIN s = 1 .. Len(s) /\ Len(s) \in Nat /\ i \in 1 .. Len(s)
      /\ \A j \in 1 .. Len(s) : s[j] \in Keys
  OBVIOUS
<1>2. /\ m \in [1 .. Len(s) -> Keys]
      /\ \A j \in 1 .. Len(s) : m[j] = IF j = 1 THEN s[i] ELSE IF j <= i THEN s[j - 1] ELSE s[j]
  BY <1>1 DEF MoveToFront
<1>3. m \in Seq(Keys) /\ Len(m) = Len(s) /\ DOMAIN m = 1 .. Len(s)
  BY <1>1, <1>2
<1>. HIDE DEF m
<1>4. IsInjective(m)
  <2>. SUFFICES ASSUME NEW a \in 1 .. Len(s), NEW b \in 1 .. Len(s), m[a] = m[b]
                PROVE  a = b
    BY <1>3, Zenon DEF IsInjective
  <2>1. \A x, y \in 1 .. Len(s) : s[x] = s[y] => x = y
    BY <1>1, Zenon DEF IsInjective
  <2>. QED
    BY <1>1, <1>2, <2>1
<1>5. ASSUME NEW j \in DOMAIN m PROVE m[j] \in Range(s)
  <2>1. \E n \in DOMAIN s : m[j] = s[n]
    BY <1>1, <1>2, <1>3
  <2>. QED
    BY <2>1, Zenon DEF Range
<1>6. ASSUME NEW j \in DOMAIN s PROVE s[j] \in Range(m)
  <2>1. CASE j = i
    <3>1. 1 \in DOMAIN m /\ m[1] = s[j]
      BY <1>1, <1>2, <1>3, <2>1
    <3>. QED
      BY <3>1, Zenon DEF Range
  <2>2. CASE j < i
    <3>1. j + 1 \in DOMAIN m /\ m[j + 1] = s[j]
      BY <1>1, <1>2, <1>3, <2>2
    <3>. QED
      BY <3>1, Zenon DEF Range
  <2>3. CASE j > i
    <3>1. j \in DOMAIN m /\ m[j] = s[j]
      BY <1>1, <1>2, <1>3, <2>3
    <3>. QED
      BY <3>1, Zenon DEF Range
  <2>. QED
    BY <1>1, <2>1, <2>2, <2>3
<1>7. Range(m) = Range(s)
  BY <1>5, <1>6, Zenon DEF Range
<1>. QED
  BY <1>3, <1>4, <1>7, Zenon DEF m

\* push_front puts a new key before the others, and the erase of the last
\* element removes exactly the least recently used key.
LEMMA LruPush ==
    ASSUME NEW s \in Seq(Keys), IsInjective(s), NEW k \in Keys, k \notin Range(s)
    PROVE  LET a == <<k>> \o s
               f == SubSeq(a, 1, Len(a) - 1)
           IN  /\ a \in Seq(Keys) /\ IsInjective(a)
               /\ Range(a) = Range(s) \cup {k} /\ Len(a) = Len(s) + 1
               /\ f \in Seq(Keys) /\ IsInjective(f)
               /\ Range(f) = Range(a) \ {a[Len(a)]} /\ Len(f) = Len(s)
<1>. DEFINE a == <<k>> \o s
            f == SubSeq(a, 1, Len(a) - 1)
<1>0. /\ DOMAIN s = 1 .. Len(s) /\ Len(s) \in Nat
      /\ \A x, y \in 1 .. Len(s) : s[x] = s[y] => x = y
      /\ \A x \in 1 .. Len(s) : s[x] # k
  BY DEF IsInjective, Range
<1>1. /\ a \in Seq(Keys) /\ Len(a) = Len(s) + 1 /\ a[1] = k
      /\ \A j \in 1 .. Len(s) : a[j + 1] = s[j]
  OBVIOUS
<1>2. \A j \in 2 .. Len(a) : a[j] = s[j - 1] /\ j - 1 \in 1 .. Len(s)
  BY <1>0, <1>1
<1>. HIDE DEF a
<1>3. DOMAIN a = 1 .. Len(a) /\ \A x, y \in 1 .. Len(a) : a[x] = a[y] => x = y
  <2>. SUFFICES ASSUME NEW x \in 1 .. Len(a), NEW y \in 1 .. Len(a), a[x] = a[y]
                PROVE  x = y
    BY <1>0, <1>1
  <2>1. CASE x = 1
    BY <1>0, <1>1, <1>2, <2>1
  <2>2. CASE y = 1
    BY <1>0, <1>1, <1>2, <2>2
  <2>3. CASE x \in 2 .. Len(a) /\ y \in 2 .. Len(a)
    <3>1. s[x - 1] = s[y - 1] /\ x - 1 \in 1 .. Len(s) /\ y - 1 \in 1 .. Len(s)
      BY <1>2, <2>3, Zenon
    <3>2. x - 1 = y - 1
      BY <1>0, <3>1, Zenon
    <3>. QED
      BY <2>3, <3>2
  <2>4. Len(a) \in Nat
    BY <1>0, <1>1
  <2>. QED
    BY <2>1, <2>2, <2>3, <2>4
<1>4. Range(a) = Range(s) \cup {k}
  <2>1. ASSUME NEW j \in DOMAIN a PROVE a[j] \in Range(s) \cup {k}
    BY <1>0, <1>1, <1>2, <1>3 DEF Range
  <2>2. ASSUME NEW j \in DOMAIN s PROVE s[j] \in Range(a)
    <3>1. j + 1 \in DOMAIN a /\ a[j + 1] = s[j]
      BY <1>0, <1>1
    <3>. QED
      BY <3>1, Zenon DEF Range
  <2>3. k \in Range(a)
    <3>1. 1 \in DOMAIN a /\ a[1] = k
      BY <1>0, <1>1
    <3>. QED
      BY <3>1, Zenon DEF Range
  <2>. QED
    BY <2>1, <2>2, <2>3, Zenon DEF Range
<1>5. /\ f \in Seq(Keys) /\ Len(f) = Len(s) /\ DOMAIN f = 1 .. Len(s)
      /\ \A j \in 1 .. Len(s) : f[j] = a[j]
  BY <1>0, <1>1
<1>. HIDE DEF f
<1>6. IsInjective(f)
  BY <1>0, <1>1, <1>3, <1>5 DEF IsInjective
<1>7. Range(f) = Range(a) \ {a[Len(a)]}
  <2>1. ASSUME NEW j \in DOMAIN f PROVE f[j] \in Range(a) \ {a[Len(a)]}
    <3>1. j \in DOMAIN a /\ f[j] = a[j] /\ a[j] # a[Len(a)]
      BY <1>0, <1>1, <1>3, <1>5
    <3>. QED
      BY <3>1, Zenon DEF Range
  <2>2. ASSUME NEW j \in DOMAIN a, a[j] # a[Len(a)] PROVE a[j] \in Range(f)
    <3>1. j \in DOMAIN f /\ f[j] = a[j]
      BY <1>0, <1>1, <1>3, <1>5, <2>2
    <3>. QED
      BY <3>1, Zenon DEF Range
  <2>. QED
    BY <2>1, <2>2, Zenon DEF Range
<1>8. IsInjective(a)
  BY <1>3, Zenon DEF IsInjective
<1>. QED
  BY <1>1, <1>4, <1>5, <1>6, <1>7, <1>8, Zenon DEF a, f

-----------------------------------------------------------------------------
(* What a step of one call leaves to the others.                           *)

States == {"idle", "keyed", "compiling", "compiled", "waiting"}
Results == [flight : Nat, asked : Nat, version : Nat]

\* Compilations are added and never changed or removed.
FlightsKept == \A f \in DOMAIN flights : f \in DOMAIN flights' /\ flights'[f] = flights[f]

SameCall(s) == pc'[s] = pc[s] /\ key'[s] = key[s] /\ flight'[s] = flight[s] /\ asked'[s] = asked[s]
OnlyCall(t) == FlightsKept /\ \A s \in Threads \ {t} : SameCall(s)

\* What is true of the compilation of another thread stays true.
LEMMA OthersKept ==
    ASSUME NEW t \in Threads, OnlyCall(t)
    PROVE  \A s \in Threads \ {t} :
              /\ s \in Compiling' <=> s \in Compiling
              /\ Serves(s) => /\ Serves(s)' /\ InFlightKey(s)' = InFlightKey(s)
                              /\ flights'[flight'[s]] = flights[flight[s]]
                              /\ Over(s) => Over(s)'
<1>. SUFFICES ASSUME NEW s \in Threads \ {t}
              PROVE  /\ s \in Compiling' <=> s \in Compiling
                     /\ Serves(s) => /\ Serves(s)' /\ InFlightKey(s)' = InFlightKey(s)
                                     /\ flights'[flight'[s]] = flights[flight[s]]
                                     /\ Over(s) => Over(s)'
  BY Zenon
<1>1. s \in Threads /\ SameCall(s) /\ FlightsKept
  BY Zenon DEF OnlyCall
<1>2. s \in Compiling' <=> s \in Compiling
  BY <1>1, Zenon DEF SameCall, Compiling
<1>3. Serves(s) => flights'[flight'[s]] = flights[flight[s]] /\ flight'[s] \in DOMAIN flights'
  BY <1>1 DEF SameCall, FlightsKept, Serves
<1>4. Serves(s) => Serves(s)' /\ (Over(s) => Over(s)') /\ InFlightKey(s)' = InFlightKey(s)
  BY <1>1, <1>3, Zenon DEF SameCall, Serves, Over, InFlightKey
<1>. QED
  BY <1>2, <1>3, <1>4, Zenon

\* The owners of compilations, if the thread that steps is one by rights.
LEMMA OwnersKept ==
    ASSUME Owners, NEW t \in Threads, OnlyCall(t),
           t \in Compiling' => /\ Serves(t)'
                               /\ pc'[t] = "compiling" => flights'[flight'[t]].state = "running"
                               /\ pc'[t] = "compiled" => Over(t)'
                               /\ \A s \in Compiling \ {t} : flight[s] # flight'[t]
    PROVE  Owners'
<1>1. ASSUME NEW s \in Compiling', s # t
      PROVE  /\ s \in Threads \ {t} /\ s \in Compiling /\ SameCall(s) /\ Serves(s) /\ Serves(s)'
             /\ flights'[flight'[s]] = flights[flight[s]] /\ (Over(s) => Over(s)')
  <2>1. s \in Threads \ {t}
    BY <1>1, Zenon DEF Compiling
  <2>2. s \in Compiling /\ SameCall(s)
    BY <2>1, OthersKept, Zenon DEF OnlyCall
  <2>3. Serves(s)
    BY <2>2, Zenon DEF Owners
  <2>. QED
    BY <2>1, <2>2, <2>3, OthersKept, Zenon
<1>2. \A s \in Compiling' : Serves(s)'
  BY <1>1, Zenon
<1>3. \A s \in Compiling' : pc'[s] = "compiling" => flights'[flight'[s]].state = "running"
  BY <1>1 DEF Owners, SameCall
<1>4. \A s \in Compiling' : pc'[s] = "compiled" => Over(s)'
  BY <1>1, Zenon DEF Owners, SameCall
<1>5. \A r, s \in Compiling' : flight'[r] = flight'[s] => r = s
  BY <1>1 DEF Owners, SameCall
<1>. QED
  BY <1>2, <1>3, <1>4, <1>5, Zenon DEF Owners

\* Those who wait, as long as no compilation is taken off in_flight_.
LEMMA WaitersKept ==
    ASSUME Waiters, NEW t \in Threads, OnlyCall(t),
           \A k \in DOMAIN in_flight_ : k \in DOMAIN in_flight_' /\ in_flight_'[k] = in_flight_[k],
           pc'[t] = "waiting" => Serves(t)' /\ (Done(flight[t])' => Over(t)')
    PROVE  Waiters'
<1>1. ASSUME NEW w \in Threads \ {t}, pc'[w] = "waiting"
      PROVE  Serves(w)' /\ (Done(flight[w])' => Over(w)')
  <2>1. SameCall(w)
    BY Zenon DEF OnlyCall
  <2>2. Serves(w) /\ (Done(flight[w]) => Over(w))
    BY <1>1, <2>1, Zenon DEF Waiters, SameCall
  <2>3. Done(flight[w])' => Done(flight[w])
    BY <2>1, Zenon DEF Done, SameCall
  <2>. QED
    BY <2>2, <2>3, OthersKept, Zenon
<1>. QED
  BY <1>1, Zenon DEF Waiters

\* The registrations, if the thread that steps has and gets none.
LEMMA RegisteredKept ==
    ASSUME Owners, Registered, NEW t \in Threads, OnlyCall(t), capacity_' = capacity_,
           in_flight_' = in_flight_, capacity_ # 0 => t \notin Compiling /\ t \notin Compiling'
    PROVE  Registered'
<1>1. CASE capacity_ = 0
  BY <1>1, Zenon DEF Registered
<1>2. CASE capacity_ # 0
  <2>1. Compiling' = Compiling
    <3>1. \A s \in Compiling' : s \in Compiling
      BY <1>2, OthersKept, Zenon DEF Compiling
    <3>2. \A s \in Compiling : s \in Compiling'
      BY <1>2, OthersKept, Zenon DEF Compiling
    <3>. QED
      BY <3>1, <3>2, Zenon
  <2>2. \A s \in Compiling : InFlightKey(s)' = InFlightKey(s) /\ flight'[s] = flight[s]
    <3>. SUFFICES ASSUME NEW s \in Compiling
                  PROVE  InFlightKey(s)' = InFlightKey(s) /\ flight'[s] = flight[s]
      BY Zenon
    <3>1. s \in Threads \ {t} /\ Serves(s)
      BY <1>2, Zenon DEF Compiling, Owners
    <3>. QED
      BY <3>1, OthersKept, Zenon DEF OnlyCall, SameCall
  <2>. QED
    BY <1>2, <2>1, <2>2 DEF Registered
<1>. QED
  BY <1>1, <1>2, Zenon

\* What was returned before.
LEMMA ReturnedKept ==
    ASSUME IInv, FlightsKept, result' = result
    PROVE  /\ ReturnedFresh'
           /\ \A s \in Threads : result'[s].flight # NoFlight => result'[s].flight \in DOMAIN flights'
<1>1. \A s \in Threads : result[s].flight # NoFlight =>
         /\ result[s].flight \in DOMAIN flights'
         /\ flights'[result[s].flight] = flights[result[s].flight]
  BY Zenon DEF IInv, Shape, FlightsKept
<1>. QED
  BY <1>1, Zenon DEF IInv, CacheSound, ReturnedFresh

-----------------------------------------------------------------------------
(* The steps.                                                              *)

\* ExecuteQueryCursor reads the catalog version into its key.
LEMMA BuildKeyKeeps ==
    ASSUME IInv, NEW t \in Threads, NEW q \in Queries, BuildKey(t, q), capacity_' = capacity_
    PROVE  IInv'
<1>. DEFINE k == [query |-> q, version |-> planner_catalog_version_]
<1>0. /\ pc[t] = "idle" /\ pc' = [pc EXCEPT ![t] = "keyed"]
      /\ key' = [key EXCEPT ![t] = k] /\ asked' = [asked EXCEPT ![t] = clears]
      /\ planner_catalog_version_' = planner_catalog_version_
      /\ entries_' = entries_ /\ lru_' = lru_ /\ in_flight_' = in_flight_
      /\ epoch_' = epoch_ /\ clears' = clears
      /\ flights' = flights /\ flight' = flight /\ result' = result
  BY Zenon DEF BuildKey, cacheVars, epochVars
<1>1. /\ pc \in [Threads -> States] /\ key \in [Threads -> Keys] /\ asked \in [Threads -> Nat]
      /\ planner_catalog_version_ \in Nat /\ clears \in Nat
  BY Zenon DEF IInv, CacheSound, TypeOK, States
<1>2. k \in Keys /\ k.version = planner_catalog_version_
  BY <1>1, Zenon DEF Keys
<1>. HIDE DEF k
<1>3. /\ pc' \in [Threads -> States] /\ key' \in [Threads -> Keys] /\ asked' \in [Threads -> Nat]
      /\ pc'[t] = "keyed" /\ key'[t] = k /\ asked'[t] = clears
      /\ OnlyCall(t)
  BY <1>0, <1>1, <1>2, Zenon DEF OnlyCall, SameCall, FlightsKept, States
<1>4. TypeOK'
  BY <1>0, <1>3, Zenon DEF IInv, CacheSound, TypeOK, States
<1>5. NoStalePlan' /\ ReturnedFresh' /\ Shape'
  BY <1>0, Zenon DEF IInv, CacheSound, NoStalePlan, ReturnedFresh, Shape
<1>6. CallsBegan'
  BY <1>0, <1>1, <1>2, <1>3 DEF IInv, CallsBegan, OnlyCall, SameCall
<1>7. t \notin Compiling /\ t \notin Compiling'
  BY <1>0, <1>3, Zenon DEF Compiling
<1>8. Owners' /\ Waiters' /\ Registered'
  BY <1>0, <1>3, <1>7, OwnersKept, WaitersKept, RegisteredKept, Zenon DEF IInv
<1>. QED
  BY <1>4, <1>5, <1>6, <1>8, Zenon DEF IInv, CacheSound

\* A call adds its compilation to the others and is the only one to own it.
Started(t) ==
    /\ flights' \in Seq(Flight) /\ DOMAIN flights' = 1 .. Len(flights) + 1
    /\ OnlyCall(t)
    /\ flight'[t] = Len(flights) + 1 /\ flight'[t] \in DOMAIN flights'
    /\ flight'[t] \notin DOMAIN flights
    /\ flights'[flight'[t]] = [key |-> key[t], epoch |-> epoch_, clears |-> clears,
                               catalog |-> 0, state |-> "running"]
    /\ flight' \in [Threads -> Nat] /\ pc' \in [Threads -> States]
    /\ t \notin Compiling /\ Compiling' = Compiling \cup {t}
    /\ pc'[t] = "compiling"

\* make_shared<InFlight> and the increment of the misses.
LEMMA StartCompileStarts ==
    ASSUME IInv, NEW t \in Threads, pc[t] = "keyed", StartCompile(t), key' = key, asked' = asked
    PROVE  Started(t)
<1>. DEFINE r == [key |-> key[t], epoch |-> epoch_, clears |-> clears, catalog |-> 0,
                  state |-> "running"]
<1>0. /\ flights' = Append(flights, r) /\ flight' = [flight EXCEPT ![t] = Len(flights) + 1]
      /\ pc' = [pc EXCEPT ![t] = "compiling"]
  BY Zenon DEF StartCompile
<1>1. /\ flights \in Seq(Flight) /\ flight \in [Threads -> Nat] /\ pc \in [Threads -> States]
      /\ key[t] \in Keys /\ epoch_ \in Nat /\ clears \in Nat
  BY Zenon DEF IInv, CacheSound, TypeOK, States
<1>2. r \in Flight
  BY <1>1, Zenon DEF Flight
<1>3. /\ flights' \in Seq(Flight) /\ DOMAIN flights' = 1 .. Len(flights) + 1
      /\ FlightsKept /\ flights'[Len(flights) + 1] = r
      /\ Len(flights) + 1 \in Nat /\ Len(flights) + 1 \in DOMAIN flights'
      /\ Len(flights) + 1 \notin DOMAIN flights
  <2>. HIDE DEF r
  <2>. QED
    BY <1>0, <1>1, <1>2 DEF FlightsKept
<1>4. /\ flight' \in [Threads -> Nat] /\ pc' \in [Threads -> States]
      /\ flight'[t] = Len(flights) + 1 /\ pc'[t] = "compiling"
      /\ \A s \in Threads \ {t} : SameCall(s)
  BY <1>0, <1>1, <1>3, Zenon DEF SameCall, States
<1>5. t \notin Compiling /\ Compiling' = Compiling \cup {t}
  BY <1>4, Zenon DEF Compiling, SameCall
<1>. QED
  BY <1>3, <1>4, <1>5, Zenon DEF Started, OnlyCall

\* What the start of a compilation leaves true, registered or not.
LEMMA StartCompileKeeps ==
    ASSUME IInv, NEW t \in Threads, pc[t] = "keyed", StartCompile(t),
           UNCHANGED <<capacity_, planner_catalog_version_, cacheVars, epochVars, key, asked, result>>
    PROVE  Started(t) /\ NoStalePlan' /\ ReturnedFresh' /\ Shape' /\ CallsBegan' /\ Owners'
<1>0. /\ planner_catalog_version_' = planner_catalog_version_ /\ entries_' = entries_
      /\ lru_' = lru_ /\ epoch_' = epoch_ /\ clears' = clears /\ key' = key /\ asked' = asked
      /\ result' = result /\ capacity_' = capacity_
  BY Zenon DEF cacheVars, epochVars
<1>1. Started(t)
  BY <1>0, StartCompileStarts, Zenon
<1>2. FlightsKept /\ OnlyCall(t)
  BY <1>1, Zenon DEF Started, OnlyCall
<1>3. NoStalePlan'
  <2>1. \A k \in DOMAIN entries_ : flights'[entries_[k]] = flights[entries_[k]]
    BY <1>2, Zenon DEF FlightsKept, IInv, CacheSound, TypeOK
  <2>. QED
    BY <1>0, <2>1 DEF IInv, CacheSound, NoStalePlan
<1>4. Shape'
  <2>1. ASSUME NEW f \in DOMAIN flights' PROVE flights'[f].epoch = flights'[f].clears
    <3>0. f \in DOMAIN flights \/ f = flight'[t]
      <4>1. flights \in Seq(Flight)
        BY Zenon DEF IInv, CacheSound, TypeOK
      <4>. QED
        BY <1>1, <4>1 DEF Started
    <3>1. CASE f \in DOMAIN flights
      BY <1>2, <3>1, Zenon DEF FlightsKept, IInv, Shape
    <3>2. CASE f = flight'[t]
      BY <1>1, <3>2 DEF Started, IInv, Shape
    <3>. QED
      BY <3>0, <3>1, <3>2, Zenon
  <2>. QED
    BY <1>0, <1>2, <2>1, ReturnedKept, Zenon DEF IInv, Shape
<1>5. CallsBegan'
  BY <1>0, <1>1, <1>2, Zenon DEF IInv, CallsBegan, OnlyCall, SameCall
<1>6. Owners'
  <2>1. Serves(t)' /\ flights'[flight'[t]].state = "running" /\ pc'[t] = "compiling"
    BY <1>0, <1>1 DEF Started, Serves, IInv, CallsBegan
  <2>2. \A s \in Compiling : flight[s] # flight'[t]
    BY <1>1, Zenon DEF Started, IInv, Owners, Serves
  <2>. QED
    BY <1>2, <2>1, <2>2, OwnersKept, Zenon DEF IInv
<1>. QED
  BY <1>0, <1>1, <1>2, <1>3, <1>4, <1>5, <1>6, ReturnedKept, Zenon

\* Without a capacity the call compiles for itself.
LEMMA LookupUncachedKeeps ==
    ASSUME IInv, NEW t \in Threads, LookupUncached(t), capacity_' = capacity_
    PROVE  IInv'
<1>0. /\ planner_catalog_version_' = planner_catalog_version_ /\ entries_' = entries_
      /\ lru_' = lru_ /\ epoch_' = epoch_ /\ clears' = clears /\ key' = key /\ asked' = asked
      /\ in_flight_' = in_flight_ /\ capacity_ = 0
  BY Zenon DEF LookupUncached, cacheVars, epochVars
<1>1. Started(t) /\ NoStalePlan' /\ ReturnedFresh' /\ Shape' /\ CallsBegan' /\ Owners'
  BY StartCompileKeeps, Zenon DEF LookupUncached
<1>2. TypeOK'
  <2>1. /\ flights' \in Seq(Flight) /\ FlightsKept /\ flight' \in [Threads -> Nat]
        /\ pc' \in [Threads -> States]
    BY <1>1, Zenon DEF Started, OnlyCall
  <2>. QED
    BY <1>0, <2>1, Zenon DEF IInv, CacheSound, TypeOK, FlightsKept, States
<1>3. OnlyCall(t) /\ pc'[t] = "compiling"
  BY <1>1, Zenon DEF Started
<1>4. Waiters' /\ Registered'
  BY <1>0, <1>3, WaitersKept, RegisteredKept, Zenon DEF IInv
<1>. QED
  BY <1>1, <1>2, <1>4, Zenon DEF IInv, CacheSound

\* A call that finds nothing registers its compilation for others to wait for.
LEMMA LookupRegisterKeeps ==
    ASSUME IInv, NEW t \in Threads, LookupRegister(t), capacity_' = capacity_
    PROVE  IInv'
<1>. DEFINE k == [plan |-> key[t], epoch |-> epoch_]
<1>0. /\ planner_catalog_version_' = planner_catalog_version_ /\ entries_' = entries_
      /\ lru_' = lru_ /\ epoch_' = epoch_ /\ clears' = clears /\ key' = key /\ asked' = asked
      /\ in_flight_' = Put(in_flight_, k, Len(flights) + 1)
      /\ k \notin DOMAIN in_flight_ /\ capacity_ # 0
  BY Zenon DEF LookupRegister, cacheVars, epochVars
<1>1. Started(t) /\ NoStalePlan' /\ ReturnedFresh' /\ Shape' /\ CallsBegan' /\ Owners'
  BY StartCompileKeeps, Zenon DEF LookupRegister
<1>2. /\ k \in [plan : Keys, epoch : Nat] /\ k.plan = key[t] /\ k.epoch = epoch_
  BY Zenon DEF IInv, CacheSound, TypeOK
<1>3. InFlightKey(t)' = k
  BY <1>0, <1>1 DEF Started, InFlightKey
<1>. HIDE DEF k
<1>4. /\ DOMAIN in_flight_' = DOMAIN in_flight_ \cup {k} /\ in_flight_'[k] = flight'[t]
      /\ \A x \in DOMAIN in_flight_ : in_flight_'[x] = in_flight_[x]
  BY <1>0, <1>1, Zenon DEF Put, Started
<1>5. /\ OnlyCall(t) /\ FlightsKept /\ pc'[t] = "compiling" /\ flight'[t] \in DOMAIN flights'
      /\ flights' \in Seq(Flight) /\ flight' \in [Threads -> Nat] /\ pc' \in [Threads -> States]
      /\ t \notin Compiling /\ Compiling' = Compiling \cup {t}
  BY <1>1, Zenon DEF Started, OnlyCall
<1>6. TypeOK'
  BY <1>0, <1>2, <1>4, <1>5, Zenon DEF IInv, CacheSound, TypeOK, FlightsKept, States
<1>7. Waiters'
  BY <1>4, <1>5, WaitersKept, Zenon DEF IInv
<1>8. Registered'
  <2>1. ASSUME NEW s \in Compiling
        PROVE  /\ InFlightKey(s)' = InFlightKey(s) /\ InFlightKey(s) # k
               /\ flight'[s] = flight[s] /\ s # t
    <3>1. s \in Threads \ {t} /\ Serves(s)
      BY <1>5, Zenon DEF Compiling, IInv, Owners
    <3>2. InFlightKey(s)' = InFlightKey(s) /\ flight'[s] = flight[s]
      BY <1>5, <3>1, OthersKept, Zenon DEF OnlyCall, SameCall
    <3>3. InFlightKey(s) # k
      BY <1>0, Zenon DEF IInv, Registered
    <3>. QED
      BY <3>1, <3>2, <3>3, Zenon
  <2>2. \A r, s \in Compiling' : InFlightKey(r)' = InFlightKey(s)' => r = s
    BY <1>0, <1>3, <1>5, <2>1 DEF IInv, Registered
  <2>3. \A x \in DOMAIN in_flight_' : \E s \in Compiling' : x = InFlightKey(s)'
    BY <1>0, <1>3, <1>4, <1>5, <2>1 DEF IInv, Registered
  <2>4. \A s \in Compiling' : /\ InFlightKey(s)' \in DOMAIN in_flight_'
                              /\ in_flight_'[InFlightKey(s)'] = flight'[s]
    BY <1>0, <1>3, <1>4, <1>5, <2>1 DEF IInv, Registered
  <2>. QED
    BY <1>0, <2>2, <2>3, <2>4, Zenon DEF Registered
<1>. QED
  BY <1>1, <1>6, <1>7, <1>8, Zenon DEF IInv, CacheSound

\* A call that finds its key and epoch in flight waits for that compilation,
\* which began after every Clear that preceded the call.
LEMMA LookupWaitKeeps ==
    ASSUME IInv, NEW t \in Threads, LookupWait(t), capacity_' = capacity_
    PROVE  IInv'
<1>. DEFINE k == [plan |-> key[t], epoch |-> epoch_]
<1>0. /\ planner_catalog_version_' = planner_catalog_version_ /\ entries_' = entries_
      /\ lru_' = lru_ /\ epoch_' = epoch_ /\ clears' = clears /\ key' = key /\ asked' = asked
      /\ in_flight_' = in_flight_ /\ flights' = flights /\ result' = result
      /\ pc[t] = "keyed" /\ k \in DOMAIN in_flight_
      /\ flight' = [flight EXCEPT ![t] = in_flight_[k]] /\ pc' = [pc EXCEPT ![t] = "waiting"]
  BY Zenon DEF LookupWait, cacheVars, epochVars
<1>1. /\ flights \in Seq(Flight) /\ flight \in [Threads -> Nat] /\ pc \in [Threads -> States]
      /\ in_flight_[k] \in DOMAIN flights
  BY <1>0, Zenon DEF IInv, CacheSound, TypeOK, States
<1>2. k.plan = key[t] /\ k.epoch = epoch_
  BY Zenon
<1>. HIDE DEF k
<1>3. /\ flight' \in [Threads -> Nat] /\ pc' \in [Threads -> States]
      /\ flight'[t] = in_flight_[k] /\ pc'[t] = "waiting" /\ OnlyCall(t)
  BY <1>0, <1>1 DEF OnlyCall, SameCall, FlightsKept, States
<1>4. TypeOK'
  BY <1>0, <1>3, Zenon DEF IInv, CacheSound, TypeOK, States
<1>5. NoStalePlan' /\ ReturnedFresh' /\ Shape'
  BY <1>0, Zenon DEF IInv, CacheSound, NoStalePlan, ReturnedFresh, Shape
<1>6. CallsBegan'
  BY <1>0, <1>3, Zenon DEF IInv, CallsBegan, OnlyCall, SameCall
<1>7. t \notin Compiling /\ t \notin Compiling'
  BY <1>0, <1>3, Zenon DEF Compiling
<1>8. Serves(t)' /\ ~Done(flight[t])'
  <2>0. capacity_ # 0
    BY <1>0, Zenon DEF IInv, Registered
  <2>1. PICK s \in Compiling : k = InFlightKey(s)
    BY <1>0, <2>0, Zenon DEF IInv, Registered
  <2>2. in_flight_[k] = flight[s] /\ Serves(s)
    BY <2>0, <2>1, Zenon DEF IInv, Registered, Owners
  <2>3. key[s] = key[t] /\ flights[flight[s]].epoch = epoch_
    BY <1>2, <2>1, Zenon DEF InFlightKey
  <2>4. flights[flight[s]].clears = clears /\ asked[t] <= clears
    BY <1>0, <2>2, <2>3, Zenon DEF IInv, Shape, CallsBegan, Serves
  <2>5. Serves(t)'
    BY <1>0, <1>3, <2>2, <2>3, <2>4, Zenon DEF Serves
  <2>6. ~Done(flight[t])'
    BY <1>0, <1>3, Zenon DEF Done
  <2>. QED
    BY <2>5, <2>6, Zenon
<1>9. Owners' /\ Waiters' /\ Registered'
  BY <1>0, <1>3, <1>7, <1>8, OwnersKept, WaitersKept, RegisteredKept, Zenon DEF IInv
<1>. QED
  BY <1>4, <1>5, <1>6, <1>9, Zenon DEF IInv, CacheSound

\* The compiler, which works without the lock, sees a catalog no older than
\* the one the key was built from.
LEMMA CompileKeeps ==
    ASSUME IInv, NEW t \in Threads, NEW ok \in BOOLEAN, Compile(t, ok), capacity_' = capacity_
    PROVE  IInv'
<1>. DEFINE i == flight[t]
            new == [flights[i] EXCEPT !.state = IF ok THEN "plan" ELSE "error",
                                      !.catalog = planner_catalog_version_]
<1>0. /\ planner_catalog_version_' = planner_catalog_version_ /\ entries_' = entries_
      /\ lru_' = lru_ /\ epoch_' = epoch_ /\ clears' = clears /\ key' = key /\ asked' = asked
      /\ in_flight_' = in_flight_ /\ flight' = flight /\ result' = result
      /\ pc[t] = "compiling" /\ pc' = [pc EXCEPT ![t] = "compiled"]
      /\ flights' = [flights EXCEPT ![i] = new]
  BY Zenon DEF Compile, cacheVars, epochVars
<1>1. /\ flights \in Seq(Flight) /\ pc \in [Threads -> States] /\ key \in [Threads -> Keys]
      /\ planner_catalog_version_ \in Nat
  BY Zenon DEF IInv, CacheSound, TypeOK, States
<1>2. t \in Compiling /\ i \in DOMAIN flights /\ flights[i].state = "running"
  BY <1>0, Zenon DEF Compiling, IInv, Owners, Serves
<1>3. /\ new \in Flight /\ new.key = flights[i].key /\ new.epoch = flights[i].epoch
      /\ new.clears = flights[i].clears /\ new.state # "running"
      /\ new.catalog = planner_catalog_version_
  <2>1. flights[i] \in Flight
    BY <1>1, <1>2
  <2>. QED
    BY <1>1, <2>1, Zenon DEF Flight
<1>. HIDE DEF new
<1>4. /\ flights' \in Seq(Flight) /\ DOMAIN flights' = DOMAIN flights /\ flights'[i] = new
      /\ \A f \in DOMAIN flights : f # i => flights'[f] = flights[f]
  BY <1>0, <1>1, <1>2, <1>3
<1>5. \A f \in DOMAIN flights :
         /\ flights'[f].key = flights[f].key /\ flights'[f].epoch = flights[f].epoch
         /\ flights'[f].clears = flights[f].clears
  BY <1>3, <1>4, Zenon
<1>6. /\ pc' \in [Threads -> States] /\ pc'[t] = "compiled"
      /\ \A s \in Threads \ {t} : pc'[s] = pc[s]
  BY <1>0, <1>1, Zenon DEF States
<1>7. Compiling' = Compiling
  BY <1>2, <1>6, Zenon DEF Compiling
<1>8. TypeOK'
  BY <1>0, <1>4, <1>6, Zenon DEF IInv, CacheSound, TypeOK, States
<1>9. NoStalePlan'
  <2>1. \A x \in DOMAIN entries_ : entries_[x] # i /\ entries_[x] \in DOMAIN flights
    BY <1>2, Zenon DEF IInv, CacheSound, NoStalePlan, TypeOK
  <2>. QED
    BY <1>0, <1>4, <2>1, Zenon DEF IInv, CacheSound, NoStalePlan
<1>10. ReturnedFresh'
  <2>1. \A s \in Threads : result[s].flight # NoFlight =>
           result[s].flight # i /\ result[s].flight \in DOMAIN flights
    BY <1>2, Zenon DEF IInv, CacheSound, ReturnedFresh, Shape
  <2>. QED
    BY <1>0, <1>4, <2>1, Zenon DEF IInv, CacheSound, ReturnedFresh
<1>11. Shape'
  BY <1>0, <1>4, <1>5 DEF IInv, Shape
<1>12. CallsBegan'
  BY <1>0, <1>6, Zenon DEF IInv, CallsBegan
<1>13. \A s \in Threads : Serves(s) => Serves(s)' /\ InFlightKey(s)' = InFlightKey(s)
  BY <1>0, <1>4, <1>5, Zenon DEF Serves, InFlightKey
<1>14. \A s \in Threads : Serves(s) /\ flight[s] # i =>
          flights'[flight[s]] = flights[flight[s]] /\ (Over(s) => Over(s)')
  BY <1>0, <1>4, Zenon DEF Serves, Over
<1>15. Over(t)'
  BY <1>0, <1>3, <1>4, Zenon DEF Over, IInv, CallsBegan
<1>16. Owners'
  <2>1. \A s \in Compiling : s \in Threads /\ Serves(s) /\ (flight[s] = i => s = t)
    BY <1>2, Zenon DEF IInv, Owners, Compiling
  <2>2. \A s \in Compiling : Serves(s)'
    BY <1>13, <2>1, Zenon
  <2>3. \A s \in Compiling : pc'[s] = "compiling" => flights'[flight[s]].state = "running"
    BY <1>6, <1>14, <2>1, Zenon DEF IInv, Owners
  <2>4. \A s \in Compiling : pc'[s] = "compiled" => Over(s)'
    BY <1>6, <1>14, <1>15, <2>1, Zenon DEF IInv, Owners
  <2>. QED
    BY <1>0, <1>7, <2>2, <2>3, <2>4, Zenon DEF IInv, Owners
<1>17. Waiters'
  <2>. SUFFICES ASSUME NEW w \in Threads, pc'[w] = "waiting"
                PROVE  Serves(w)' /\ (Done(flight[w]) => Over(w)')
    BY <1>0, Zenon DEF Waiters, Done
  <2>1. Serves(w) /\ (Done(flight[w]) => Over(w))
    BY <1>6, Zenon DEF IInv, Waiters
  <2>2. Over(w) => flight[w] # i
    BY <1>2, Zenon DEF Over
  <2>. QED
    BY <1>13, <1>14, <2>1, <2>2, Zenon
<1>18. Registered'
  <2>1. \A s \in Compiling : InFlightKey(s)' = InFlightKey(s)
    BY <1>13, Zenon DEF IInv, Owners, Compiling
  <2>. QED
    BY <1>0, <1>7, <2>1 DEF IInv, Registered
<1>. QED
  BY <1>8, <1>9, <1>10, <1>11, <1>12, <1>16, <1>17, <1>18, Zenon DEF IInv, CacheSound
=============================================================================
