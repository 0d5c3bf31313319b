--------------------------- MODULE MCRaftReconf ---------------------------
(* Small instances of RaftReconf.                                          *)
EXTENDS RaftReconf, TLC

CONSTANTS s1, s2, s3, v1

FullMesh == {{a, b} : a, b \in Server} \ {{a} : a \in Server}
Call(n, o, i) == [at |-> n, op |-> o, id |-> i]

\* s1 was elected in term 2 and everyone has its first entry.
Log == Append(BootstrapLog, Entry(2, Empty))
Replicating == [NewProgress(3) EXCEPT !.match = 2, !.state = "Replicate", !.active = TRUE]
Led(voters, learners) ==
    [n \in Server |->
        IF n \notin voters \cup learners
        THEN NewRaft(n, 0, None, <<>>, 0, {}, {})
        ELSE LET r == NewRaft(n, 2, s1, Log, 2, voters, learners)
             IN  IF n # s1 THEN [r EXCEPT !.lead = s1]
                 ELSE [r EXCEPT !.lead = s1, !.state = "Leader", !.pendingConf = 1,
                                !.prs = [p \in voters \cup learners |-> Replicating]]]

\* One operation, anywhere, and a leadership transfer
One == [node |-> Led({s1, s2}, {s3}), value |-> {}, link |-> FullMesh,
        maxTerm |-> 3, maxLog |-> 4, timeouts |-> [n \in Server |-> 0],
        candidates |-> 1, disconnects |-> FALSE, events |-> {"transfer"}, maxEvents |-> 1]
AnyOne == {Call(s1, "promote", s3), Call(s1, "update", s2), Call(s1, "demote", s2),
        Call(s1, "remove", s2), Call(s2, "demote", s1)}

\* The old leader and the new one each have an operation.
Two == [One EXCEPT !.maxLog = 5]
RemoveAndPromote == <<{Call(s1, "remove", s3)}, {Call(s2, "promote", s3)}>>

\* A node joins, which has nothing yet.
Join == [One EXCEPT !.node = Led({s1, s2}, {}), !.events = {}]

\* s1 removed s3, of which s2 does not know yet that it is committed, and removes s2.
Shrinking ==
    LET led == Led({s1, s2, s3}, {})
        rm == Append(Log, Entry(2, Conf("remove", s3)))
        acked == [Replicating EXCEPT !.match = 3, !.next = 4]
        leader == [NewRaft(s1, 2, s1, rm, 3, {s1, s2}, {}) EXCEPT !.lead = s1,
                    !.state = "Leader", !.pendingConf = 3, !.prs = [p \in {s1, s2} |-> acked]]
    IN  [led EXCEPT ![s1] = StepProp(leader, Conf("remove", s2)), ![s2].log = rm]
Shrink == [One EXCEPT !.node = Shrinking, !.value = {v1}, !.maxLog = 5, !.events = {},
                      !.timeouts = [n \in Server |-> IF n = s2 THEN 1 ELSE 0],
                      !.link = {{s1, s2}, {s2, s3}}]

AllScenarios == <<One, Two, Join, Shrink>>
AllCalls == <<<<AnyOne>>, RemoveAndPromote,
              <<{Call(s1, "learner", s3), Call(s1, "add", s3)}>>, <<>>>>
=============================================================================
