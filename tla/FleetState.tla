----------------------------- MODULE FleetState -----------------------------
(***************************************************************************)
(* The durable admission state of the agent fleet: the Postgres tables of  *)
(* examples/mcp_server/fleet_state.py.  Every method is one transaction    *)
(* that locks the row it changes (admission locks the pool row), so each   *)
(* is one atomic step; the operators below are the conditions and the      *)
(* effects of those transactions on one pool.                              *)
(*                                                                         *)
(* Timestamps are used only to ask whether the gateway, the executor and   *)
(* the coordinator have all been replaced since a lease was last active.   *)
(* A lease therefore keeps the set of parts that have NOT been replaced.   *)
(***************************************************************************)
EXTENDS Naturals, FiniteSets

CONSTANTS
    Tasks,          \* durable task ids (fleet_task_id)
    JobIds,         \* gateway job ids
    NoJob,          \* job_id NULL
    NoRow,          \* no row for the task
    Parts,          \* processes whose replacement is evidence (see above)
    Capacities,     \* capacities a coordinator or an operator may ask for
    MaxTokens       \* bound: lease tokens drawn

SubmitStates == {"never_attempted", "attempted", "legacy_unknown"}

\* "completed" stands for every status that the gateway reports for a job that
\* ended, "ambiguous" is the coordinators' own verdict, and "error" stands for
\* every local status of _PRE_SUBMIT_TERMINAL.
Statuses == {"completed", "ambiguous", "error"}

LeaseTokens == 1 .. MaxTokens

Leases == [token : LeaseTokens, submit_state : SubmitStates,
           job : JobIds \cup {NoJob}, seen : SUBSET Parts]

Outcomes == [status : Statuses, job : JobIds \cup {NoJob}]

ASSUME FleetStateAssumption ==
    /\ IsFiniteSet(Tasks) /\ NoJob \notin JobIds
    /\ NoRow \notin Leases /\ NoRow \notin Outcomes
    /\ Capacities \subseteq Nat \ {0} /\ MaxTokens \in Nat \ {0}

VARIABLES
    capacity,   \* capacity of the pool row, 0 while it does not exist
    lease,      \* fleet_worker_lease, by task
    outcome,    \* fleet_task_outcome, by task
    tombs,      \* fleet_lease_tombstone: token -> reason
    drawn       \* how many lease tokens have been drawn

tables == <<capacity, lease, outcome, tombs, drawn>>

TombReasons == {"none", "never_dispatched", "plane_replaced"}

TablesTypeOK ==
    /\ capacity \in Capacities \cup {0}
    /\ lease \in [Tasks -> Leases \cup {NoRow}]
    /\ outcome \in [Tasks -> Outcomes \cup {NoRow}]
    /\ tombs \in [LeaseTokens -> TombReasons]
    /\ drawn \in 0 .. MaxTokens

\* Rows of an older schema carry no submission state: at most one here, as
\* nothing creates another.
LegacyLease == [token |-> 1, submit_state |-> "legacy_unknown",
                job |-> NoJob, seen |-> {}]

TablesInit ==
    /\ capacity = 0
    /\ outcome = [t \in Tasks |-> NoRow]
    /\ tombs = [k \in LeaseTokens |-> "none"]
    /\ \/ lease = [t \in Tasks |-> NoRow] /\ drawn = 0
       \/ \E old \in Tasks :
             /\ lease = [t \in Tasks |-> IF t = old THEN LegacyLease ELSE NoRow]
             /\ drawn = 1

Active == {t \in Tasks : lease[t] # NoRow}

----------------------------------------------------------------------------
(* acquire_slot *)

\* INSERT .. ON CONFLICT DO NOTHING: the first coordinator creates the pool.
PoolCapacity(asked) == IF capacity = 0 THEN asked ELSE capacity

\* Mutant: the transaction counts the leases before it locks the pool row, so
\* two admissions can both see the last free slot.
PoolFull_count_unlocked(asked) == Cardinality(Active) > PoolCapacity(asked)

PoolFull(asked) == Cardinality(Active) >= PoolCapacity(asked)

\* How the transaction ends.
Admission(t, asked) ==
    CASE PoolCapacity(asked) # asked -> "mismatch"
      [] lease[t] # NoRow            -> "existing"
      [] outcome[t] # NoRow          -> "terminal"
      [] PoolFull(asked)             -> "full"
      [] OTHER                       -> "admitted"

NewLease == [token |-> drawn + 1, submit_state |-> "never_attempted",
             job |-> NoJob, seen |-> Parts]

\* What it commits; an exception rolls back the insert of the pool row too.
acquire_slot(t, asked) ==
    LET r == Admission(t, asked)
    IN /\ capacity' = IF r \in {"mismatch", "terminal"} THEN capacity
                      ELSE PoolCapacity(asked)
       /\ IF r = "admitted"
          THEN /\ drawn < MaxTokens
               /\ lease' = [lease EXCEPT ![t] = NewLease]
               /\ drawn' = drawn + 1
          ELSE UNCHANGED <<lease, drawn>>
       /\ UNCHANGED <<outcome, tombs>>

----------------------------------------------------------------------------
(* Methods fenced by the lease token; the ones that raise commit nothing. *)

Holds(t, k) == lease[t] # NoRow /\ lease[t].token = k

Bindable(t, k, j) ==
    /\ Holds(t, k)
    /\ lease[t].job \in {NoJob, j}
    /\ \A u \in Tasks \ {t} : lease[u] # NoRow => lease[u].job # j

bind_job(t, k, j) ==
    /\ lease' = [lease EXCEPT ![t].job = j, ![t].seen = Parts]
    /\ UNCHANGED <<capacity, outcome, tombs, drawn>>

heartbeat(t, k) ==
    /\ Holds(t, k)
    /\ lease' = [lease EXCEPT ![t].seen = Parts]
    /\ UNCHANGED <<capacity, outcome, tombs, drawn>>

\* Mutant: the update is fenced by the task only, not by the lease token.
Markable_unfenced(t, k) ==
    lease[t] # NoRow /\ lease[t].job = NoJob

Markable(t, k) ==
    /\ Holds(t, k)
    /\ lease[t].job = NoJob
    /\ lease[t].submit_state = "never_attempted"

mark_submit_attempted(t, k) ==
    /\ lease' = [lease EXCEPT ![t].submit_state = "attempted", ![t].seen = Parts]
    /\ UNCHANGED <<capacity, outcome, tombs, drawn>>

\* Mutant: the sweep reclaims any lease without a job, dispatched or not.
Reclaimable_any_state(t, k) == Holds(t, k) /\ lease[t].job = NoJob

Reclaimable(t, k) ==
    /\ Holds(t, k)
    /\ lease[t].job = NoJob
    /\ lease[t].submit_state = "never_attempted"

\* Returns false, or finds its own tombstone, when the lease is not reclaimable.
release_never_dispatched(t, k) ==
    IF Reclaimable(t, k)
    THEN /\ lease' = [lease EXCEPT ![t] = NoRow]
         /\ tombs' = [tombs EXCEPT ![k] = "never_dispatched"]
         /\ UNCHANGED <<capacity, outcome, drawn>>
    ELSE UNCHANGED tables

\* expected is the expected_job_id, or NoJob when the caller gives none.
Completable(t, k, expected) ==
    /\ Holds(t, k)
    /\ expected # NoJob => lease[t].job = expected

complete_task(t, k, status, expected) ==
    IF Completable(t, k, expected)
    THEN /\ outcome' = [outcome EXCEPT ![t] = [status |-> status, job |-> lease[t].job]]
         /\ lease' = [lease EXCEPT ![t] = NoRow]
         /\ UNCHANGED <<capacity, tombs, drawn>>
    ELSE UNCHANGED tables

\* reconcile_unbound_after_execution_plane_replacement: nothing of the execution
\* plane in parts is left from the time the lease was last active.
Superseded(t, k, parts) ==
    /\ Holds(t, k) /\ lease[t].job = NoJob
    /\ lease[t].submit_state \in {"attempted", "legacy_unknown"}
    /\ lease[t].seen \cap parts = {}
    /\ outcome[t] = NoRow

terminalize_superseded(t, k) ==
    /\ tombs' = [tombs EXCEPT ![k] = "plane_replaced"]
    /\ outcome' = [outcome EXCEPT ![t] = [status |-> "ambiguous", job |-> NoJob]]
    /\ lease' = [lease EXCEPT ![t] = NoRow]
    /\ UNCHANGED <<capacity, drawn>>

\* configure_pool: compare and set, from the capacity the caller read.
configure_pool(new, expected) ==
    /\ capacity \in {0, expected}
    /\ capacity' = new
    /\ UNCHANGED <<lease, outcome, tombs, drawn>>

\* A process is replaced: it is no longer the one of a lease's last activity.
\* That is asked only of a dispatched lease without a job; the mark and the bind
\* are activities themselves.
Replaced(p) ==
    [t \in Tasks |->
       IF lease[t] = NoRow \/ lease[t].job # NoJob \/ lease[t].submit_state = "never_attempted"
       THEN lease[t]
       ELSE [lease[t] EXCEPT !.seen = @ \ {p}]]
=============================================================================
