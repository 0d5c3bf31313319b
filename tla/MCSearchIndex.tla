--------------------------- MODULE MCSearchIndex ---------------------------
EXTENDS SearchIndex

CONSTANTS v1, v2, a, b

Budget(w, c, d, r, cl, f, o) ==
    [writes |-> w, creates |-> c, deletes |-> d, restarts |-> r, clears |-> cl,
     failures |-> f, others |-> o]

Only(x) == [v \in Vid |-> IF v = v1 THEN x ELSE None]
Keep(x) == [v \in Vid |-> IF v = v2 THEN x ELSE None]

\* Texts with a failure and a restart; a text index that is deleted, beside another index
\* and through raft; raft with a restart; ClearData; vectors with failing checkpoints and
\* restarts, beside a vertex that keeps its vector, and without any vector, also with
\* ClearData; a vector index that is deleted and created again, without and with raft.
Case(k, r, d, l) == [kind |-> k, raft |-> r, data |-> d, writable |-> {v1}, left |-> l]
AllScenarios ==
    <<Case("text", FALSE, Only(a), Budget(2, 1, 0, 1, 0, 1, 0)),
      Case("text", FALSE, Only(a), Budget(1, 1, 1, 0, 0, 0, 1)),
      Case("text", TRUE, Only(a), Budget(2, 1, 1, 0, 0, 0, 0)),
      Case("text", TRUE, Only(a), Budget(2, 1, 0, 1, 0, 0, 0)),
      Case("text", FALSE, Only(a), Budget(2, 1, 0, 0, 1, 0, 0)),
      Case("vector", FALSE, Keep(a), Budget(2, 1, 0, 2, 0, 1, 0)),
      Case("vector", FALSE, Keep(None), Budget(2, 1, 0, 1, 1, 0, 0)),
      Case("vector", FALSE, Only(a), Budget(2, 2, 1, 0, 0, 0, 0)),
      Case("vector", TRUE, Only(a), Budget(1, 2, 1, 0, 0, 0, 0))>>
=============================================================================
