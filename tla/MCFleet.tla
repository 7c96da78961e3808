------------------------------ MODULE MCFleet -------------------------------
(* Instances of FleetRuntime for TLC. *)
EXTENDS FleetRuntime, TLC

CONSTANTS c1, t1, t2, n1, n2, a1, a2

TaskJobs == Tasks \X Attempts
AllParts == Plane \cup Coordinators
Single == c1 :> 1

\* A caller without an observer has taken part.
Unrouted ==
    \/ \E i \in Calls : call[i] # NoCall /\ call[i].how = "unrouted"
    \/ \E c \in Coordinators, j \in KeyedJobs : watch[c][j] = "unrouted"
    \/ unheard # {}

Busy == {i \in Calls : call[i] # NoCall}
InUse == {t \in Tasks : lease[t] # NoRow \/ attempt[t] # NoRow}

\* Bound: two calls at a time, or a caller without observer, only on one task.
InBounds == Cardinality(Busy) > 1 \/ Unrouted => Cardinality(InUse) <= 1

FleetSpec == Init /\ [][Next /\ InBounds']_vars

TaskSymmetry == Permutations(Tasks) \cup Permutations(Calls) \cup Permutations(Attempts)
=============================================================================
