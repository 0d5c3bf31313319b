------------------------------ MODULE RaftLog ------------------------------
(***************************************************************************)
(* The log of one Raft node: RaftLog and Unstable of etcd_raft over the    *)
(* RocksDB log store, the cycle Ready, write, post, Advance of the driver, *)
(* the thread that applies entries, compaction, and restarts.              *)
(*                                                                         *)
(* An entry is its term; its size in bytes is Size(term).  Snapshots never *)
(* reach the unstable log, since a MsgSnap is not stepped into Raft.       *)
(***************************************************************************)
EXTENDS Naturals, Sequences

CONSTANTS Terms,        \* terms of entries
          Boundaries,   \* indexes of installed snapshots, 0 for none
          MaxLog,       \* bound: indexes
          MaxRestarts,  \* bound: restarts
          MaxApplying,  \* maxApplyingEntsSize_
          Keep,         \* keep_logs
          Batch         \* the entries compacted at least

VARIABLES
  db,         \* the log store: entries (index -> term), commit of the hard state
  first,      \* first_entry_index_
  last,       \* last_entry_index_
  unstable,   \* [offset, offsetInProgress, entries]
  committed, applying, applied,
  applyingEntsSize, applyingEntsPaused,
  prevHardSt, \* the commit index of prevHardSt_
  ready,      \* the Ready being handled
  queue,      \* entries posted to the apply thread
  machine,    \* the entries that the state machine has executed
  fatal,      \* a check that ends the process failed
  restarts

store == <<db, first, last>>
raftLog == <<unstable, committed, applying, applied, applyingEntsSize, applyingEntsPaused>>
vars == <<store, raftLog, prevHardSt, ready, queue, machine, fatal, restarts>>

Size(term) == term
Min(a, b) == IF a < b THEN a ELSE b
Max(a, b) == IF a < b THEN b ELSE a
entsSize(ents) == LET total[i \in 0 .. Len(ents)] == IF i = 0 THEN 0 ELSE total[i - 1] + Size(ents[i])
                  IN  total[Len(ents)]

\* The longest prefix of at most maxSize bytes, and at least one entry.
limitSize(ents, maxSize) ==
  LET fits == {k \in 1 .. Len(ents) : k = 1 \/ entsSize(SubSeq(ents, 1, k)) <= maxSize}
  IN  IF ents = <<>> THEN ents ELSE SubSeq(ents, 1, CHOOSE k \in fits : \A j \in fits : j <= k)

Ok(x) == [err |-> "", val |-> x]
ErrCompacted == [err |-> "compacted"]
ErrUnavailable == [err |-> "unavailable"]
Fatal == [err |-> "fatal"]

-----------------------------------------------------------------------------
(* RaftLogStorage.                                                         *)

FirstIndex == first + 1
LastIndex == last

Term(i) ==
  IF i < first THEN ErrCompacted
  ELSE IF i > last THEN ErrUnavailable
  ELSE IF i \in DOMAIN db.entries THEN Ok(db.entries[i]) ELSE Fatal

Entries(lo, hi, maxSize) ==
  IF lo <= first THEN ErrCompacted
  ELSE IF hi > last + 1 THEN Fatal
  ELSE IF last = first THEN ErrUnavailable
  ELSE IF lo .. hi - 1 \subseteq DOMAIN db.entries
  THEN Ok(limitSize([k \in 1 .. hi - lo |-> db.entries[lo + k - 1]], maxSize))
  ELSE Fatal

\* The database after the batch of Append and SetHardState is written.
Written(entries, offset, commit) ==
  LET lastNew == offset + Len(entries) - 1
      new(i) == entries[i - offset + 1]
      from == Max(FirstIndex, offset)
  IN  [entries |-> IF entries = <<>> \/ lastNew < FirstIndex THEN db.entries
                   ELSE [i \in {j \in DOMAIN db.entries : j < from} \cup from .. lastNew |->
                           IF i < from THEN db.entries[i] ELSE new(i)],
       commit |-> commit]

-----------------------------------------------------------------------------
(* Unstable.                                                               *)

maybeLastIndex ==
  IF unstable.entries # <<>> THEN Ok(unstable.offset + Len(unstable.entries) - 1) ELSE ErrUnavailable

maybeTerm(i) ==
  IF i < unstable.offset \/ maybeLastIndex = ErrUnavailable THEN ErrUnavailable
  ELSE IF i > maybeLastIndex.val THEN ErrUnavailable
  ELSE Ok(unstable.entries[i - unstable.offset + 1])

nextEntries ==
  SubSeq(unstable.entries, unstable.offsetInProgress - unstable.offset + 1, Len(unstable.entries))

acceptInProgress(u) ==
  IF u.entries = <<>> THEN u ELSE [u EXCEPT !.offsetInProgress = u.offset + Len(u.entries)]

stableTo(u, i, term) ==
  IF maybeTerm(i) # Ok(term) THEN u
  ELSE [offset |-> i + 1, offsetInProgress |-> Max(u.offsetInProgress, i + 1),
        entries |-> SubSeq(u.entries, i + 2 - u.offset, Len(u.entries))]

unstableSlice(lo, hi) ==
  IF lo > hi \/ lo < unstable.offset \/ hi > unstable.offset + Len(unstable.entries) THEN Fatal
  ELSE Ok(SubSeq(unstable.entries, lo - unstable.offset + 1, hi - unstable.offset))

truncateAndAppend(u, from, ents) ==
  IF from = u.offset + Len(u.entries) THEN [u EXCEPT !.entries = @ \o ents]
  ELSE IF from <= u.offset
  THEN [offset |-> from, offsetInProgress |-> from, entries |-> ents]
  ELSE [u EXCEPT !.entries = SubSeq(@, 1, from - u.offset) \o ents,
                 !.offsetInProgress = Min(@, from)]

-----------------------------------------------------------------------------
(* RaftLog.                                                                *)

firstIndex == FirstIndex

lastIndex == IF maybeLastIndex # ErrUnavailable THEN maybeLastIndex.val ELSE LastIndex

term(i) ==
  IF maybeTerm(i) # ErrUnavailable THEN maybeTerm(i)
  ELSE IF i + 1 < firstIndex THEN ErrCompacted
  ELSE IF i > lastIndex THEN ErrUnavailable
  ELSE Term(i)

lastTerm == term(lastIndex)

matchTerm(i, t) == term(i) = Ok(t)

\* The first of the entries after prev that the log lacks, or 0.
findConflict(prev, ents) ==
  LET wrong == {k \in 1 .. Len(ents) : ~matchTerm(prev + k, ents[k])}
  IN  IF wrong = {} THEN 0 ELSE prev + CHOOSE k \in wrong : \A j \in wrong : k <= j

\* Mutant: the limit of the unstable entries ignores the stored ones.
MutSlice(lo, hi, maxSize) ==
  LET cut == Min(hi, unstable.offset)
      stored == Entries(lo, cut, maxSize)
  IN  IF lo < firstIndex THEN ErrCompacted
      ELSE IF lo > hi \/ hi > lastIndex + 1 THEN Fatal
      ELSE IF lo = hi THEN Ok(<<>>)
      ELSE IF lo >= unstable.offset
      THEN IF unstableSlice(lo, hi) = Fatal THEN Fatal ELSE Ok(limitSize(unstableSlice(lo, hi).val, maxSize))
      ELSE IF stored.err = "compacted" THEN stored
      ELSE IF stored.err # "" THEN Fatal
      ELSE IF hi <= unstable.offset \/ Len(stored.val) < cut - lo \/ entsSize(stored.val) >= maxSize
      THEN stored
      ELSE LET rest == limitSize(unstableSlice(unstable.offset, hi).val, maxSize)
           IN  Ok(stored.val \o rest)

\* A slice over the stored and the unstable entries.
slice(lo, hi, maxSize) ==
  LET cut == Min(hi, unstable.offset)
      stored == Entries(lo, cut, maxSize)
  IN  IF lo < firstIndex THEN ErrCompacted
      ELSE IF lo > hi \/ hi > lastIndex + 1 THEN Fatal
      ELSE IF lo = hi THEN Ok(<<>>)
      ELSE IF lo >= unstable.offset
      THEN IF unstableSlice(lo, hi) = Fatal THEN Fatal ELSE Ok(limitSize(unstableSlice(lo, hi).val, maxSize))
      ELSE IF stored.err = "compacted" THEN stored
      ELSE IF stored.err # "" THEN Fatal
      ELSE IF hi <= unstable.offset \/ Len(stored.val) < cut - lo \/ entsSize(stored.val) >= maxSize
      THEN stored
      ELSE LET rest == limitSize(unstableSlice(unstable.offset, hi).val, maxSize - entsSize(stored.val))
           IN  IF Len(rest) = 1 /\ entsSize(stored.val) + entsSize(rest) > maxSize
               THEN stored ELSE Ok(stored.val \o rest)

entries(i, maxSize) == IF i > lastIndex THEN Ok(<<>>) ELSE slice(i, lastIndex + 1, maxSize)

maxAppliableIndex == committed

nextCommittedEnts ==
  IF applyingEntsPaused \/ applying + 1 >= maxAppliableIndex + 1 THEN Ok(<<>>)
  ELSE slice(applying + 1, maxAppliableIndex + 1, MaxApplying - applyingEntsSize)

-----------------------------------------------------------------------------
(* The steps of Raft that change the log, while no Ready is being handled. *)

NoReady == [pc |-> "none"]
Stepping == ready = NoReady /\ fatal = FALSE

\* A new store with its dummy entry, or one that a snapshot was installed in.
Init ==
  /\ \E b \in Boundaries :
       /\ db = [entries |-> [i \in {b} |-> IF b = 0 THEN 0 ELSE 1], commit |-> 0]
       /\ first = b /\ last = b
       /\ unstable = [offset |-> b + 1, offsetInProgress |-> b + 1, entries |-> <<>>]
       /\ committed = b /\ applying = b /\ applied = b /\ prevHardSt = b
       /\ machine = [i \in 1 .. b |-> 1]
  /\ applyingEntsSize = 0 /\ applyingEntsPaused = FALSE
  /\ ready = NoReady /\ queue = <<>>
  /\ fatal = FALSE /\ restarts = 0

Rest == <<store, applying, applied, applyingEntsSize, applyingEntsPaused, prevHardSt, ready, queue, machine, restarts>>

\* Entries of a log: their terms do not decrease.
Ascending(t, ents) == \A k \in 1 .. Len(ents) : ents[k] >= IF k = 1 THEN t ELSE ents[k - 1]

\* handleAppendEntries: maybeAppend of a leader's entries after prev.
MaybeAppend(prev, t, commit, ents) ==
  LET ci == findConflict(prev, ents)
      to == Min(commit, prev + Len(ents))
  IN  /\ Stepping /\ prev >= committed /\ matchTerm(prev, t)
      /\ IF ci = 0 THEN UNCHANGED unstable
         ELSE unstable' = truncateAndAppend(unstable, ci, SubSeq(ents, ci - prev, Len(ents)))
      /\ committed' = Max(committed, to)
      /\ fatal' = (ci # 0 /\ ci <= committed)
      /\ UNCHANGED Rest

\* A leader appends to its own log.
AppendEntry(ents) ==
  /\ Stepping
  /\ unstable' = truncateAndAppend(unstable, lastIndex + 1, ents)
  /\ UNCHANGED <<committed, Rest, fatal>>

\* commitTo, from a heartbeat or from maybeCommit.
CommitTo(to) ==
  /\ Stepping /\ committed < to
  /\ committed' = IF lastIndex < to THEN committed ELSE to
  /\ fatal' = (lastIndex < to)
  /\ UNCHANGED <<unstable, Rest>>

-----------------------------------------------------------------------------
(* The driver's cycle.                                                     *)

HasReady == nextEntries # <<>> \/ committed # prevHardSt \/ nextCommittedEnts # Ok(<<>>)

\* readyWithoutAccept and acceptReady.
GetReady ==
  LET ents == nextCommittedEnts
      upTo == applying + Len(ents.val)
      size == entsSize(ents.val)
  IN  /\ Stepping /\ HasReady
      /\ IF ents.err # ""
         THEN fatal' = TRUE /\ UNCHANGED <<raftLog, prevHardSt, ready>>
         ELSE /\ ready' = [pc |-> "write", entries |-> nextEntries, offset |-> unstable.offsetInProgress,
                           commit |-> IF committed # prevHardSt THEN committed ELSE db.commit, ents |-> ents.val, from |-> applying + 1,
                           index |-> lastIndex, term |-> lastTerm.val]
              /\ prevHardSt' = committed
              /\ unstable' = acceptInProgress(unstable)
              /\ IF ents.val = <<>> THEN UNCHANGED <<applying, applyingEntsSize, applyingEntsPaused>>
                 ELSE /\ applying' = upTo
                      /\ applyingEntsSize' = applyingEntsSize + size
                      /\ applyingEntsPaused' = (applyingEntsSize + size >= MaxApplying \/ upTo < maxAppliableIndex)
              /\ UNCHANGED <<committed, applied, fatal>>
      /\ UNCHANGED <<store, queue, machine, restarts>>

\* Mutant: the entries that the new ones replace stay in the database.
MutWriteBatch ==
  /\ ready.pc = "write"
  /\ LET new == Written(ready.entries, ready.offset, ready.commit)
     IN  db' = [new EXCEPT !.entries = [i \in DOMAIN db.entries \cup DOMAIN @ |->
                                          IF i \in DOMAIN @ THEN @[i] ELSE db.entries[i]]]
  /\ last' = IF ready.entries = <<>> THEN last ELSE ready.offset + Len(ready.entries) - 1
  /\ ready' = [ready EXCEPT !.pc = "post"]
  /\ UNCHANGED <<first, raftLog, prevHardSt, queue, machine, fatal, restarts>>

\* One batch holds the entries, the deletion of those they replace, and the
\* hard state.
WriteBatch ==
  /\ ready.pc = "write"
  /\ db' = Written(ready.entries, ready.offset, ready.commit)
  /\ last' = IF ready.entries = <<>> THEN last ELSE ready.offset + Len(ready.entries) - 1
  /\ ready' = [ready EXCEPT !.pc = "post"]
  /\ UNCHANGED <<first, raftLog, prevHardSt, queue, machine, fatal, restarts>>

PostApply ==
  /\ ready.pc = "post"
  /\ queue' = queue \o [k \in 1 .. Len(ready.ents) |-> <<ready.from + k - 1, ready.ents[k]>>]
  /\ ready' = [ready EXCEPT !.pc = "advance"]
  /\ UNCHANGED <<store, raftLog, prevHardSt, machine, fatal, restarts>>

\* The storage responses: stableTo, then appliedTo.
Advance ==
  LET upTo == Max(ready.from + Len(ready.ents) - 1, applied)
      size == entsSize(ready.ents)
      left == IF applyingEntsSize > size THEN applyingEntsSize - size ELSE 0
  IN  /\ ready.pc = "advance"
      /\ unstable' = IF unstable.entries = <<>> THEN unstable ELSE stableTo(unstable, ready.index, ready.term)
      /\ IF ready.ents = <<>> THEN UNCHANGED <<applied, applying, applyingEntsSize, applyingEntsPaused, fatal>>
         ELSE /\ fatal' = (committed < upTo)
              /\ applied' = upTo /\ applying' = Max(applying, upTo)
              /\ applyingEntsSize' = left /\ applyingEntsPaused' = (left >= MaxApplying)
      /\ ready' = NoReady
      /\ UNCHANGED <<store, committed, prevHardSt, queue, machine, restarts>>

\* The apply thread; the applied index is stored with the effects.
Apply ==
  /\ queue # <<>> /\ fatal = FALSE
  /\ machine' = Append(machine, Head(queue)[2])
  /\ fatal' = (Head(queue)[1] # Len(machine) + 1)
  /\ queue' = Tail(queue)
  /\ UNCHANGED <<store, raftLog, prevHardSt, ready, restarts>>

\* CheckAndCompactLog; the deletion may fail, which is only logged.
CheckAndCompactLog ==
  LET apply_id == Len(machine)
      index == apply_id - Keep
  IN  /\ Stepping
      /\ apply_id > FirstIndex /\ apply_id - FirstIndex >= Keep + Batch
      /\ fatal' = (index >= last)
      /\ first' = index
      /\ \/ db' = [db EXCEPT !.entries = [i \in {j \in DOMAIN @ : j >= index} |-> @[i]]]
         \/ UNCHANGED db
      /\ UNCHANGED <<last, raftLog, prevHardSt, ready, queue, machine, restarts>>

\* The process ends and starts again: Init of the store, newLogWithSize,
\* loadState, and the applied index of the state machine.
Restart ==
  LET bounds == DOMAIN db.entries
      lo == CHOOSE i \in bounds : \A j \in bounds : i <= j
      hi == CHOOSE i \in bounds : \A j \in bounds : j <= i
      commit == IF db.commit = 0 THEN lo ELSE db.commit
  IN  /\ fatal = FALSE /\ restarts < MaxRestarts /\ restarts' = restarts + 1
      /\ first' = lo /\ last' = hi
      /\ unstable' = [offset |-> hi + 1, offsetInProgress |-> hi + 1, entries |-> <<>>]
      /\ committed' = commit /\ prevHardSt' = commit
      /\ applied' = Max(lo, Len(machine)) /\ applying' = Max(lo, Len(machine))
      /\ fatal' = (commit < lo \/ commit > hi \/ commit < Len(machine) \/ Len(machine) < lo)
      /\ applyingEntsSize' = 0 /\ applyingEntsPaused' = FALSE
      /\ ready' = NoReady /\ queue' = <<>>
      /\ UNCHANGED <<db, machine>>

-----------------------------------------------------------------------------
\* The entries of a message: at most two.  A message whose previous entry does
\* not match, or lies below the commit index, changes nothing.
Messages == {<<>>} \cup {<<t>> : t \in Terms} \cup {<<t, u>> : t, u \in Terms}
Room(prev, ents) == prev + Len(ents) <= MaxLog

Next ==
  \/ \E prev \in committed .. lastIndex, ents \in Messages :
        /\ Room(prev, ents) /\ Ascending(term(prev).val, ents)
        /\ \E commit \in committed .. prev + Len(ents) : MaybeAppend(prev, term(prev).val, commit, ents)
  \/ \E ents \in Messages \ {<<>>} :
        Room(lastIndex, ents) /\ Ascending(lastTerm.val, ents) /\ AppendEntry(ents)
  \/ \E to \in 1 .. lastIndex : CommitTo(to)
  \/ GetReady \/ WriteBatch \/ PostApply \/ Advance
  \/ Apply \/ CheckAndCompactLog \/ Restart

Spec == Init /\ [][Next]_vars
=============================================================================
