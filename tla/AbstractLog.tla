---------------------------- MODULE AbstractLog ----------------------------
(***************************************************************************)
(* What the Raft log of one node promises to its user: one log, whose      *)
(* committed part never changes, and a state machine that executes every   *)
(* committed entry once, in order, also over restarts.                     *)
(*                                                                         *)
(* log maps the indexes from the compaction boundary on to terms.  saved   *)
(* is the log and the commit index that a restart finds.                   *)
(***************************************************************************)
EXTENDS Naturals, Sequences

VARIABLES log, committed, delivered, machine, saved

vars == <<log, committed, delivered, machine, saved>>

Interval(f) == \E a, b \in DOMAIN f : DOMAIN f = a .. b
Last(f) == CHOOSE i \in DOMAIN f : i + 1 \notin DOMAIN f
First(f) == CHOOSE i \in DOMAIN f : i = 0 \/ i - 1 \notin DOMAIN f

Init ==
  /\ DOMAIN log = {committed}
  /\ delivered = committed /\ Len(machine) = committed
  /\ saved = [log |-> log, committed |-> committed]

\* Entries are added, or replaced above the commit index, which only grows.
Change ==
  /\ Interval(log') /\ First(log') = First(log)
  /\ committed \in DOMAIN log'
  /\ \A i \in DOMAIN log : i <= committed => log'[i] = log[i]
  /\ committed' \in DOMAIN log' /\ committed' >= committed
  /\ UNCHANGED <<delivered, machine, saved>>

\* Entries below the boundary may still be stored.
Save ==
  /\ saved'.committed = committed
  /\ saved'.log = [i \in DOMAIN log \cup {k \in DOMAIN saved.log : k < First(log)} |->
                     IF i \in DOMAIN log THEN log[i] ELSE saved.log[i]]
  /\ UNCHANGED <<log, committed, delivered, machine>>

\* Only what a restart would find committed is handed to the state machine.
Deliver ==
  /\ delivered' > delivered /\ delivered' <= saved.committed
  /\ UNCHANGED <<log, committed, machine, saved>>

Execute ==
  /\ Len(machine) < delivered
  /\ machine' = Append(machine, log[Len(machine) + 1])
  /\ UNCHANGED <<log, committed, delivered, saved>>

\* What the state machine has executed may be forgotten.
Compact ==
  /\ \E i \in DOMAIN log :
       /\ i <= Len(machine)
       /\ log' = [j \in {k \in DOMAIN log : k >= i} |-> log[j]]
       /\ saved'.committed = saved.committed
       /\ \/ saved' = saved
          \/ saved'.log = [j \in {k \in DOMAIN saved.log : k >= i} |-> saved.log[j]]
  /\ UNCHANGED <<committed, delivered, machine>>

Restart ==
  /\ log' = saved.log /\ committed' = saved.committed
  /\ delivered' = Len(machine)
  /\ UNCHANGED <<machine, saved>>

Next == Change \/ Save \/ Deliver \/ Execute \/ Compact \/ Restart

Spec == Init /\ [][Next]_vars
=============================================================================
