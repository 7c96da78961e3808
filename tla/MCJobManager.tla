---------------------------- MODULE MCJobManager ----------------------------
(* Instances of JobManager for TLC. *)
EXTENDS JobManager, TLC

CONSTANTS g1, g2, j1, j2, k1, i1, i2, r1, r2

\* Two identical requests under one key.
KeySame   == r1 :> k1 @@ r2 :> k1
IdentSame == r1 :> i1 @@ r2 :> i1

\* Two different requests under one key.
IdentDiff == r1 :> i1 @@ r2 :> i2

\* A keyed request and an unkeyed one.
KeyMixed  == r1 :> k1 @@ r2 :> NoKey

\* One keyed request.
KeyOne   == r1 :> k1
IdentOne == r1 :> i1

\* In a behaviour of the run "settles" a Redis call fails, or jobs are cancelled,
\* one after the other.  Fair steps stay possible: none of them begins a
\* cancellation, and each has a way on in which no call fails.
NoCancel == envCancel = {} /\ \A w \in Workers : can[w] = "idle"
InBounds ==
    /\ \A w \in Workers : can[w] = "idle" /\ can'[w] = "sent" => NoCancel
    /\ faults' = 0 \/ NoCancel'
SettlesSpec == Init /\ [][Next /\ InBounds]_vars /\ Fairness

JobSymmetry == Permutations(Jobs)
Symmetry    == Permutations(Jobs) \cup Permutations(Gateways)
=============================================================================
