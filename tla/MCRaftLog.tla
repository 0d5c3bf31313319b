----------------------------- MODULE MCRaftLog -----------------------------
(***************************************************************************)
(* The log of one Raft node, for TLC: what readers see is one log, and the *)
(* node implements AbstractLog.                                            *)
(***************************************************************************)
EXTENDS RaftLog

\* The log that the store and the unstable entries make up.
View ==
  [i \in first .. lastIndex |->
     IF i >= unstable.offset THEN unstable.entries[i - unstable.offset + 1] ELSE db.entries[i]]

\* None of the checks that end the process ("Was the raft log corrupted,
\* truncated, or lost?", "raft log index does not match", "compact raft log
\* out of range", "applied is out of range" ...) ever fails, restarts at any
\* point included.
NoFatal ==
  /\ fatal = FALSE
  /\ \A i \in first .. lastIndex : term(i).err = ""

\* Readers that cross from stored to unstable entries, with any size limit,
\* get the longest run of entries of the one log that fits, at least one, or
\* are told that the log was compacted.
SlicesExact ==
  \A lo \in 1 .. lastIndex, maxSize \in 1 .. 4 :
     LET all == [k \in 1 .. lastIndex + 1 - lo |-> View[lo + k - 1]]
     IN  entries(lo, maxSize) = IF lo <= first THEN ErrCompacted ELSE Ok(limitSize(all, maxSize))

First(f) == CHOOSE i \in DOMAIN f : \A j \in DOMAIN f : i <= j

\* The abstract log: AbstractLog's variables are the view, the indexes handed
\* to the apply thread, and the log that a restart would find.
Abstract == INSTANCE AbstractLog WITH
  log <- View,
  committed <- committed,
  delivered <- Len(machine) + Len(queue),
  machine <- machine,
  saved <- [log |-> db.entries, committed |-> IF db.commit = 0 THEN First(db.entries) ELSE db.commit]

\* The node implements the abstract log: writing, posting, advancing and
\* paging change nothing that its user can see, committed entries never
\* change, and the state machine executes each committed entry once, in order,
\* over any restart.
ImplementsAbstractLog == Abstract!Spec

\* Readers get what the one log holds, and no check that ends the process
\* fails, whatever is stored, compacted, restored or restarted.
LogSound == NoFatal /\ SlicesExact
=============================================================================
