-------------------------- MODULE MCPropertyIndex --------------------------
(* Small instances of PropertyIndex.                                       *)
EXTENDS PropertyIndex, TLC

CONSTANTS t1, t2, v1, v2, a, b

Some == [unique |-> FALSE, data |-> v1 :> a @@ v2 :> None,
         writes |-> t1 :> 2 @@ t2 :> 1, deletes |-> 0, restarts |-> 0]

NonUnique == Some
Unique == [Some EXCEPT !.unique = TRUE]
Recreate == [Some EXCEPT !.deletes = 1, !.writes = t1 :> 1 @@ t2 :> 1]
Reopened == [Some EXCEPT !.restarts = 1]
ReopenedUnique == [Reopened EXCEPT !.unique = TRUE]

AllScenarios == <<NonUnique, Unique, Recreate, Reopened, ReopenedUnique>>
=============================================================================
