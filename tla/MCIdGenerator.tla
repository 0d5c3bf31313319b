--------------------------- MODULE MCIdGenerator ---------------------------
(* Small instances of IdGenerator.                                         *)
EXTENDS IdGenerator, TLC

CONSTANTS n1, n2, t1, t2, L, M

OnOne == [t \in Thread |-> n1]
Left(r, e, o) == [restarts |-> r, elections |-> e, timeouts |-> o]

\* without raft
Embedded == [raft |-> FALSE, home |-> OnOne, leader |-> None, left |-> Left(1, 0, 0),
             calls |-> t1 :> <<"vid", "vid", L>> @@ t2 :> <<L, "vid", M>>]

\* a group of one
Single == [raft |-> TRUE, home |-> OnOne, leader |-> n1, left |-> Left(1, 0, 1),
           calls |-> t1 :> <<"vid", "vid", "vid">> @@ t2 :> <<"vid", "vid">>]

\* labels while the leader stays
Labels == [Single EXCEPT !.left = Left(0, 0, 0),
                         !.calls = t1 :> <<L, M, L>> @@ t2 :> <<M, L>>]

\* the leadership moves away from n1, which had all the calls, and back
Deposed == [Single EXCEPT !.left = Left(0, 2, 0),
                          !.calls = t1 :> <<"vid", "vid">> @@ t2 :> <<"vid", "vid">>]

\* the leadership moves from n1 to n2
Failover == [raft |-> TRUE, home |-> t1 :> n1 @@ t2 :> n2, leader |-> n1,
             left |-> Left(0, 1, 0), calls |-> t1 :> <<"vid">> @@ t2 :> <<"vid", "vid">>]

PassScenarios == <<Embedded, Single, Labels, Deposed>>
FailoverScenario == <<Failover>>
=============================================================================
