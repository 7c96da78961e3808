----------------------------- MODULE JobLedger -----------------------------
(***************************************************************************)
(* What the durable store promises about one job, without gateways, tasks, *)
(* leases or messages: a job is accepted once, executed by one owner at a  *)
(* time, handed to another owner only after a lapse and never after a      *)
(* cancellation, and settled once and for all.  JobManager implements it   *)
(* as long as no shutdown outlives its drain timeout.                      *)
(***************************************************************************)
CONSTANTS Jobs, Tokens, NoToken

VARIABLES
    status,     \* job -> what the ledger says of it
    owner,      \* job -> token of the worker that may settle it
    cancelled,  \* jobs whose cancellation has been acknowledged
    lapsed      \* jobs whose owner failed to keep its lease at least once

vars == <<status, owner, cancelled, lapsed>>

Final == {"completed", "failed", "cancelled", "ambiguous"}

Init ==
    /\ status = [j \in Jobs |-> "absent"]
    /\ owner = [j \in Jobs |-> NoToken]
    /\ cancelled = {}
    /\ lapsed = {}

Becomes(j, s) == status' = [status EXCEPT ![j] = s]

Accept(j) ==
    /\ status[j] = "absent"
    /\ Becomes(j, "pending")
    /\ UNCHANGED <<owner, cancelled, lapsed>>

\* An unkeyed job is only recorded when it is over.
RecordUnkeyed(j, s) ==
    /\ status[j] = "absent"
    /\ Becomes(j, s)
    /\ UNCHANGED <<owner, cancelled, lapsed>>

Take(j, t) ==
    /\ \/ status[j] = "pending"
       \/ status[j] = "processing" /\ j \in lapsed \ cancelled
    /\ Becomes(j, "processing")
    /\ owner' = [owner EXCEPT ![j] = t]
    /\ UNCHANGED <<cancelled, lapsed>>

Cancel(j) ==
    /\ \/ status[j] = "pending" /\ Becomes(j, "cancelled")
       \/ status[j] = "processing" /\ UNCHANGED status
    /\ cancelled' = cancelled \cup {j}
    /\ UNCHANGED <<owner, lapsed>>

Settle(j, s) ==
    /\ status[j] = "processing"
    /\ Becomes(j, s)
    /\ UNCHANGED <<owner, cancelled, lapsed>>

\* Several cancelled jobs that lost their owner are given up in one step.
GiveUp(S) ==
    /\ \A j \in S : status[j] = "processing" /\ j \in cancelled \cap lapsed
    /\ status' = [j \in Jobs |-> IF j \in S THEN "ambiguous" ELSE status[j]]
    /\ UNCHANGED <<owner, cancelled, lapsed>>

Lapse(S) ==
    /\ \A j \in S : status[j] = "processing"
    /\ lapsed' = lapsed \cup S
    /\ UNCHANGED <<status, owner, cancelled>>

Next ==
    \/ \E j \in Jobs : \/ Accept(j) \/ Cancel(j)
                       \/ \E t \in Tokens : Take(j, t)
                       \/ \E s \in Final : RecordUnkeyed(j, s) \/ Settle(j, s)
    \/ \E S \in SUBSET Jobs : GiveUp(S) \/ Lapse(S)

Spec == Init /\ [][Next]_vars
============================================================================
