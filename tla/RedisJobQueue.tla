--------------------------- MODULE RedisJobQueue ---------------------------
(***************************************************************************)
(* The durable store that the gateways share: app/redis_queue.py.  Every   *)
(* method that the job manager calls is one Lua script or one command, and *)
(* Redis executes each of them atomically, so each is one operator here    *)
(* that relates the store before the call to the store after it.  When a   *)
(* method answers its caller, the answer is an operator of its own.        *)
(*                                                                         *)
(* A job envelope is the JSON document under ssh_gateway:job:<id>.  Only   *)
(* the fields that some script reads are kept.                             *)
(***************************************************************************)
EXTENDS Naturals

CONSTANTS
    LeaseTTL,   \* ticks a claim or a renewal keeps the processing lease alive
    NoToken,    \* worker_token of an envelope that nobody has claimed
    NoJob,      \* "no such job": an unbound submission key, a nil answer
    NoIdent     \* the owner and payload of an unbound submission key

VARIABLES
    claimJob,   \* submission key -> job id its claim names
    claimIdent, \* submission key -> the owner and payload hash of its claim
    envStatus,  \* job -> status of its envelope ("absent": no envelope)
    envToken,   \* job -> worker_token of its envelope
    envCancel,  \* jobs whose envelope says cancel_requested
    envLease,   \* job -> ticks left until now > lease_expiry (0: expired)
    proc,       \* the processing zset
    comp,       \* the completed zset
    dead        \* the dead-letter zset

redisVars == <<claimJob, claimIdent, envStatus, envToken, envCancel, envLease,
               proc, comp, dead>>

TERMINAL_STATES == {"completed", "failed", "cancelled", "ambiguous"}

EnvStatuses == {"absent", "pending", "processing"} \cup TERMINAL_STATES

ASSUME LeaseAssumption == LeaseTTL \in Nat \ {0}

RedisInit(Keys, Jobs) ==
    /\ claimJob = [k \in Keys |-> NoJob]
    /\ claimIdent = [k \in Keys |-> NoIdent]
    /\ envStatus = [j \in Jobs |-> "absent"]
    /\ envToken = [j \in Jobs |-> NoToken]
    /\ envLease = [j \in Jobs |-> 0]
    /\ envCancel = {} /\ proc = {} /\ comp = {} /\ dead = {}

----------------------------------------------------------------------------
(* Submission keys *)

\* What a submission key answers to a request of identity i: it is free, it
\* names the job of an identical request, or it belongs to another request.
find_submission(k, i) ==
    IF claimJob[k] = NoJob THEN "none"
    ELSE IF claimIdent[k] = i THEN "same" ELSE "conflict"

\* Mutant: the claim is set without NX.
reserve_submission_overwrites(k, i, j) ==
    /\ claimJob' = [claimJob EXCEPT ![k] = j]
    /\ claimIdent' = [claimIdent EXCEPT ![k] = i]
    /\ envStatus' = [envStatus EXCEPT ![j] = "pending"]
    /\ UNCHANGED <<envToken, envCancel, envLease, proc, comp, dead>>

\* The reservation script sets the claim and the envelope, each with NX.  The
\* envelope is written even when the key turns out to be taken: its key is the
\* new job's own, so that SET always succeeds.
reserve_submission_with_job(k, i, j) ==
    /\ IF claimJob[k] = NoJob
         THEN /\ claimJob' = [claimJob EXCEPT ![k] = j]
              /\ claimIdent' = [claimIdent EXCEPT ![k] = i]
         ELSE UNCHANGED <<claimJob, claimIdent>>
    /\ envStatus' = [envStatus EXCEPT ![j] = "pending"]
    /\ UNCHANGED <<envToken, envCancel, envLease, proc, comp, dead>>

----------------------------------------------------------------------------
(* Execution: claim, renewal, fenced finish *)

Expired(j) == envLease[j] = 0

\* Mutant: a claim does not look at the lease of the current owner.
Claimable_ignores_lease(j, t) ==
    \/ envStatus[j] = "pending"
    \/ envStatus[j] = "processing" /\ j \notin envCancel

\* Mutant: an expired job may be claimed although it was cancelled.
Claimable_ignores_cancel(j, t) ==
    \/ envStatus[j] = "pending"
    \/ envStatus[j] = "processing" /\ Expired(j)

\* Whether the claim script lets token t execute j.
Claimable(j, t) ==
    \/ envStatus[j] = "pending"
    \/ /\ envStatus[j] = "processing"
       /\ j \notin envCancel
       /\ envToken[j] = t \/ Expired(j)

\* Mutant: the claimed job is not added to the processing zset.
claim_without_zadd(j, t) ==
    IF Claimable(j, t)
      THEN /\ envStatus' = [envStatus EXCEPT ![j] = "processing"]
           /\ envToken' = [envToken EXCEPT ![j] = t]
           /\ envLease' = [envLease EXCEPT ![j] = LeaseTTL]
           /\ UNCHANGED <<claimJob, claimIdent, envCancel, proc, comp, dead>>
      ELSE UNCHANGED redisVars

claim_durable_execution(j, t) ==
    IF Claimable(j, t)
      THEN /\ envStatus' = [envStatus EXCEPT ![j] = "processing"]
           /\ envToken' = [envToken EXCEPT ![j] = t]
           /\ envLease' = [envLease EXCEPT ![j] = LeaseTTL]
           /\ proc' = proc \cup {j}
           /\ UNCHANGED <<claimJob, claimIdent, envCancel, comp, dead>>
      ELSE UNCHANGED redisVars

\* Mutants: the fence forgets the token, or the status.
OwnedBy_any_token(j, t) == envStatus[j] = "processing"
OwnedBy_any_status(j, t) == envToken[j] = t

\* The envelope is being processed under token t: the fence of every script a
\* worker runs after its claim.
OwnedBy(j, t) == envStatus[j] = "processing" /\ envToken[j] = t

\* An owner renews its lease only while the lease has not run out.
Renewable(j, t) == OwnedBy(j, t) /\ ~Expired(j)

heartbeat_durable_execution(j, t) ==
    IF Renewable(j, t)
      THEN /\ envLease' = [envLease EXCEPT ![j] = LeaseTTL]
           /\ proc' = proc \cup {j}
           /\ UNCHANGED <<claimJob, claimIdent, envStatus, envToken, envCancel,
                          comp, dead>>
      ELSE UNCHANGED redisVars

is_durable_cancellation_requested(j, t) == OwnedBy(j, t) /\ j \in envCancel

\* A finished job leaves the processing zset for the completed or the dead one.
Archive(j, s) ==
    /\ comp' = IF s = "completed" THEN comp \cup {j} ELSE comp
    /\ dead' = IF s = "completed" THEN dead ELSE dead \cup {j}

\* Mutant: the finish also asks for a live lease.
finish_needs_lease(j, t, s) ==
    IF Renewable(j, t)
      THEN /\ envStatus' = [envStatus EXCEPT ![j] = s]
           /\ proc' = proc \ {j}
           /\ Archive(j, s)
           /\ UNCHANGED <<claimJob, claimIdent, envToken, envCancel, envLease>>
      ELSE UNCHANGED redisVars

finish_durable_execution(j, t, s) ==
    IF OwnedBy(j, t)
      THEN /\ envStatus' = [envStatus EXCEPT ![j] = s]
           /\ proc' = proc \ {j}
           /\ Archive(j, s)
           /\ UNCHANGED <<claimJob, claimIdent, envToken, envCancel, envLease>>
      ELSE UNCHANGED redisVars

----------------------------------------------------------------------------
(* Cancellation *)

\* The answer of the cancellation script; it is empty when there is no envelope.
CancelAnswer(j) ==
    CASE envStatus[j] = "absent" -> "unknown"
      [] envStatus[j] = "pending" -> "cancelled"
      [] envStatus[j] = "processing" -> "cancelling"
      [] OTHER -> envStatus[j]

request_durable_cancellation(j) ==
    CASE envStatus[j] = "pending" ->
           /\ envStatus' = [envStatus EXCEPT ![j] = "cancelled"]
           /\ envCancel' = envCancel \cup {j}
           /\ proc' = proc \ {j}
           /\ dead' = dead \cup {j}
           /\ UNCHANGED <<claimJob, claimIdent, envToken, envLease, comp>>
      [] envStatus[j] = "processing" ->
           /\ envCancel' = envCancel \cup {j}
           /\ UNCHANGED <<claimJob, claimIdent, envStatus, envToken, envLease,
                          proc, comp, dead>>
      [] OTHER -> UNCHANGED redisVars

\* Mutant: every processing job counts as abandoned.
ExpiredProcessing_any == {j \in proc : envStatus[j] = "processing"}

\* Jobs of the processing zset whose owner let the lease run out.
ExpiredProcessing == {j \in proc : envStatus[j] = "processing" /\ Expired(j)}

\* Startup reconciliation: nobody will ever learn what a cancelled job without
\* an owner did, so its envelope becomes terminal "ambiguous".
reconcile_expired_cancelled_processing ==
    LET lost == ExpiredProcessing \cap envCancel
    IN /\ envStatus' = [j \in DOMAIN envStatus |->
                          IF j \in lost THEN "ambiguous" ELSE envStatus[j]]
       /\ proc' = proc \ lost
       /\ dead' = dead \cup lost
       /\ UNCHANGED <<claimJob, claimIdent, envToken, envCancel, envLease, comp>>

----------------------------------------------------------------------------
(* Recovery scan and the unfenced mirror of in-process jobs *)

\* Jobs that a submission key names and nobody has claimed.
PendingClaims ==
    {j \in {claimJob[k] : k \in DOMAIN claimJob} \ {NoJob} :
        envStatus[j] = "pending"}

list_recoverable_durable_jobs == (ExpiredProcessing \ envCancel) \cup PendingClaims

\* A plain SET of a new document: it asks for no token, drops worker_token and
\* cancel_requested, and leaves the processing zset as it is.
SetTerminal(j, s) ==
    /\ envStatus' = [envStatus EXCEPT ![j] = s]
    /\ envToken' = [envToken EXCEPT ![j] = NoToken]
    /\ envCancel' = envCancel \ {j}
    /\ UNCHANGED <<claimJob, claimIdent, envLease, proc>>

save_terminal_job(j, s) == SetTerminal(j, s) /\ Archive(j, s)

\* It is not one script: the SET may be done when the next call fails.
save_terminal_job_fails(j, s) ==
    UNCHANGED redisVars \/ (SetTerminal(j, s) /\ UNCHANGED <<comp, dead>>)
============================================================================
