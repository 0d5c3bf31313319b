---------------------------- MODULE MCRaftCore ----------------------------
(* Small instances of RaftCore.                                            *)
EXTENDS RaftCore, TLC

CONSTANTS s1, s2, s3, v1

All == {s1, s2, s3}
Once(S) == [n \in Server |-> IF n \in S THEN 1 ELSE 0]
FullMesh == {{a, b} : a, b \in Server} \ {{a} : a \in Server}

\* a graph that was just created
Booted(voters) ==
    [n \in Server |-> NewRaft(n, 1, None, BootstrapLog, 1, voters, {})]

\* Two of the three voters campaign at the same time.
Election ==
    [node |-> Booted(All), value |-> {}, link |-> FullMesh, maxTerm |-> 2, maxLog |-> 3,
     timeouts |-> Once({s1, s2}), candidates |-> 2, disconnects |-> FALSE,
     events |-> {}, maxEvents |-> 0]

\* s1 led term 2 and s3, with the vote of s2, term 3, which s1 has heard of; each
\* appended its first entry, and all three ended before it was replicated.  Now
\* s1 and s3 cannot reach each other, and lead one after the other.
Divergent ==
    s1 :> NewRaft(s1, 3, None, Append(BootstrapLog, Entry(2, Empty)), 1, All, {})
    @@ s2 :> NewRaft(s2, 3, s3, BootstrapLog, 1, All, {})
    @@ s3 :> NewRaft(s3, 3, s3, Append(BootstrapLog, Entry(3, Empty)), 1, All, {})

Recovery ==
    [node |-> Divergent, value |-> {}, link |-> {{s1, s2}, {s2, s3}}, maxTerm |-> 5,
     maxLog |-> 4, timeouts |-> s1 :> 1 @@ s2 :> 0 @@ s3 :> 2, candidates |-> 2,
     disconnects |-> FALSE, events |-> {}, maxEvents |-> 0]

\* Two voters with a client write, and whatever else happens to a cluster.
Operation ==
    [node |-> Booted({s1, s2}), value |-> {v1}, link |-> FullMesh, maxTerm |-> 3, maxLog |-> 3,
     timeouts |-> Once({s1}), candidates |-> 2, disconnects |-> TRUE,
     events |-> {"beat", "check", "transfer", "restart"}, maxEvents |-> 2]

\* The only voter: what its own acknowledgement commits waits for the next tick.
Alone ==
    [Operation EXCEPT !.node = Booted({s1}), !.maxLog = 4, !.events = {"restart"}]

AllScenarios == <<Election, Recovery, Operation, Alone>>
=============================================================================
