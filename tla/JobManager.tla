----------------------------- MODULE JobManager -----------------------------
(***************************************************************************)
(* The gateways' job managers (app/job_manager.py), with the part of       *)
(* app/main.py that starts, recovers, drains and stops them, over the      *)
(* Redis store they share.                                                 *)
(*                                                                         *)
(* A gateway is one process with one event loop.  An action is what runs   *)
(* between two awaits that can hand the loop to somebody else, or one      *)
(* Redis call.  A worker <<g, j>> is the JobRecord of job j in gateway g   *)
(* and the task that runs it.  A process creates at most one task per job, *)
(* so the worker token of a task, a fresh uuid in the code, is the pair of *)
(* the gateway and the number of times it has booted.                      *)
(***************************************************************************)
EXTENDS RedisJobQueue, FiniteSets

CONSTANTS
    Gateways,       \* gateway processes sharing one Redis
    Jobs,           \* job ids (uuids) that may be drawn
    Requests,       \* calls of create_job
    Keys,           \* submission keys
    Idents,         \* owner and payload hash of a submission
    NoKey,          \* the submission_key of an unkeyed request
    NoGateway,      \* the gateway of a request that was not sent yet
    KeyOf,          \* request -> its submission key, or NoKey
    IdentOf,        \* request -> its owner and payload hash
    MaxJobs,        \* max_jobs of a manager
    FinishAttempts, \* FINISH_TERMINAL_MAX_ATTEMPTS
    MaxBoots,       \* bound: times a gateway process is started
    MaxFaults,      \* bound: Redis calls that fail
    Exits,          \* how remote commands may end
    May             \* what else may happen in this instance (EnvEvents)

\* A client cancels jobs, or closes the SSH session; the process is killed, or
\* is asked to stop, and its drain may time out; the session cannot be restored
\* at boot; the command policy denies a command; the wall clock outruns a lease;
\* records of finished jobs become old enough to be dropped.
EnvEvents == {"cancel", "disconnect", "crash", "shutdown", "drain timeout",
              "not restored", "deny", "expiry", "old records"}

\* exit_code: the remote command's, the -1 of a closed channel, or unset.
ExitCodes == {"none", "zero", "positive", "minus1"}

Workers == Gateways \X Jobs
Tokens  == Gateways \X (1 .. MaxBoots)

ASSUME ConstantsAssumption ==
    /\ NoKey \notin Keys /\ NoJob \notin Jobs /\ NoGateway \notin Gateways
    /\ NoToken \notin Gateways \X Nat
    /\ KeyOf \in [Requests -> Keys \cup {NoKey}]
    /\ IdentOf \in [Requests -> Idents]
    /\ MaxJobs \in Nat /\ FinishAttempts \in Nat \ {0}
    /\ MaxBoots \in Nat /\ MaxFaults \in Nat
    /\ Exits \subseteq ExitCodes /\ May \subseteq EnvEvents

VARIABLES
    \* JobRecord, per worker
    mem,        \* workers whose record is in JobManager._jobs
    durable,    \* workers whose record has is_durable
    st,         \* status
    cancelEv,   \* workers whose cancel_event is set
    doneEv,     \* workers whose completed_event is set
    exit,       \* exit_code
    \* the task of a worker
    pc,         \* where _run_job is suspended
    arg,        \* the status that finish_durable_execution was called with
    att,        \* failed attempts of finish_durable_execution
    hb,         \* what the heartbeat loop does next
    can,        \* cancel_job in flight, or the answer Redis gave it
    \* per gateway
    gpc,        \* where the lifespan is
    boots,      \* number of times the process was started
    todo,       \* jobs the startup recovery has still to look at, or the drain waits for
    pers,       \* jobs force_cleanup has still to persist
    sess,       \* gateways that hold the SSH session the jobs name
    ops,        \* active_operations of that session
    \* per request
    rpc,        \* where create_job is suspended, or how it ended
    rgw,        \* gateway that serves it
    rjob,       \* job id it drew
    ack,        \* job id it answered
    faults,     \* Redis calls that have failed so far
    \* history
    starts,     \* job -> remote executions begun
    lapsed,     \* jobs whose processing lease has run out at least once
    zero        \* <<j, t>>: the attempt of token t at j saw exit code 0

recordVars == <<mem, durable, st, cancelEv, doneEv, exit>>
taskVars   == <<pc, arg, att, hb>>
gwVars     == <<gpc, boots, todo, pers, sess>>
reqVars    == <<rpc, rgw, rjob, ack>>
histVars   == <<starts, lapsed, zero>>
vars == <<redisVars, recordVars, taskVars, can, gwVars, ops, reqVars, faults,
          histVars>>

ACTIVE_STATES == {"pending", "running", "cancelling"}

\* Suspension points of _run_job.
PCs == {"none",     \* no task
        "sched",    \* created, waiting for its first turn and the lock
        "claim",    \* claim_durable_execution sent
        "lost",     \* the claim was refused
        "check",    \* is_durable_cancellation_requested sent
        "intent",   \* ... answered yes
        "go",       \* ... answered no
        "start",    \* running, before execute_stream
        "stream",   \* the remote command has been started
        "ended",    \* the stream is over, its outcome not yet classified
        "reap",     \* awaiting the cancelled heartbeat task
        "finish",   \* finish_durable_execution sent
        "cfinish",  \* the same, for a cancellation seen before the start
        "persist",  \* save_terminal_job sent (unkeyed jobs)
        "fin",      \* the outcome was persisted, or could not be
        "end"}      \* about to release the session lease

\* create_job has pinned the session for a job that does not exist yet.
Reserving == {"reserve", "created", "duplicate", "conflicting"}

\* create_job has not answered yet.
InFlight == {"find", "lock", "full"} \cup Reserving

RedisTypeOK ==
    /\ claimJob \in [Keys -> Jobs \cup {NoJob}]
    /\ claimIdent \in [Keys -> Idents \cup {NoIdent}]
    /\ envStatus \in [Jobs -> EnvStatuses]
    /\ envToken \in [Jobs -> Tokens \cup {NoToken}]
    /\ envLease \in [Jobs -> 0 .. LeaseTTL]
    /\ envCancel \subseteq Jobs /\ proc \subseteq Jobs
    /\ comp \subseteq Jobs /\ dead \subseteq Jobs

RecordTypeOK ==
    /\ mem \subseteq Workers /\ durable \subseteq Workers
    /\ cancelEv \subseteq Workers /\ doneEv \subseteq Workers
    /\ st \in [Workers -> {"absent"} \cup ACTIVE_STATES \cup TERMINAL_STATES]
    /\ exit \in [Workers -> ExitCodes]

TaskTypeOK ==
    /\ pc \in [Workers -> PCs]
    /\ arg \in [Workers -> {"none"} \cup TERMINAL_STATES]
    /\ att \in [Workers -> 0 .. FinishAttempts]
    /\ hb \in [Workers -> {"off", "renew", "check"}]
    /\ can \in [Workers -> {"idle", "sent", "unknown", "cancelling"} \cup TERMINAL_STATES]

GatewayTypeOK ==
    /\ gpc \in [Gateways -> {"down", "reconcile", "list", "recover", "serving",
                             "draining", "cleanup"}]
    /\ boots \in [Gateways -> 0 .. MaxBoots]
    /\ todo \in [Gateways -> SUBSET Jobs]
    /\ pers \in [Gateways -> SUBSET Jobs]
    /\ sess \subseteq Gateways
    /\ ops \in [Gateways -> Nat]

RequestTypeOK ==
    /\ rpc \in [Requests -> {"idle", "acked", "conflict", "unavailable", "rejected",
                             "dead"} \cup InFlight]
    /\ rgw \in [Requests -> Gateways \cup {NoGateway}]
    /\ rjob \in [Requests -> Jobs \cup {NoJob}]
    /\ ack \in [Requests -> Jobs \cup {NoJob}]

HistoryTypeOK ==
    /\ faults \in 0 .. MaxFaults
    /\ starts \in [Jobs -> Nat]
    /\ lapsed \subseteq Jobs
    /\ zero \subseteq Jobs \X Tokens

\* The type invariant of the job managers and of the store.
TypeOK == RedisTypeOK /\ RecordTypeOK /\ TaskTypeOK /\ GatewayTypeOK
            /\ RequestTypeOK /\ HistoryTypeOK

Init ==
    /\ RedisInit(Keys, Jobs)
    /\ mem = {} /\ durable = {} /\ cancelEv = {} /\ doneEv = {}
    /\ st = [w \in Workers |-> "absent"]
    /\ exit = [w \in Workers |-> "none"]
    /\ pc = [w \in Workers |-> "none"]
    /\ arg = [w \in Workers |-> "none"]
    /\ att = [w \in Workers |-> 0]
    /\ hb = [w \in Workers |-> "off"]
    /\ can = [w \in Workers |-> "idle"]
    /\ gpc = [g \in Gateways |-> "down"]
    /\ boots = [g \in Gateways |-> 0]
    /\ todo = [g \in Gateways |-> {}]
    /\ pers = [g \in Gateways |-> {}]
    /\ sess = {}
    /\ ops = [g \in Gateways |-> 0]
    /\ rpc = [r \in Requests |-> "idle"]
    /\ rgw = [r \in Requests |-> NoGateway]
    /\ rjob = [r \in Requests |-> NoJob]
    /\ ack = [r \in Requests |-> NoJob]
    /\ faults = 0
    /\ starts = [j \in Jobs |-> 0] /\ lapsed = {} /\ zero = {}

----------------------------------------------------------------------------
(* Shared pieces *)

Tok(w) == <<w[1], boots[w[1]]>>

\* create_job keeps the manager's lock across its Redis calls.
Locked(g) == \E r \in Requests : rgw[r] = g /\ rpc[r] \in Reserving \cup {"full"}

ActiveJobs(g) == {w \in mem : w[1] = g /\ st[w] \in ACTIVE_STATES}

\* One more Redis call fails; MaxFaults bounds how many do.
RedisFault == faults < MaxFaults /\ faults' = faults + 1

\* SSHSessionManager.acquire_operation_lease and release_operation_lease.
Pin(g) == ops' = [ops EXCEPT ![g] = @ + 1]
Unpin(g) == ops' = [ops EXCEPT ![g] = IF @ = 0 THEN 0 ELSE @ - 1]

Goto(w, l) == pc' = [pc EXCEPT ![w] = l]

\* The new JobRecord and its task, which the event loop will run later.
NewRecord(w, isDurable) ==
    /\ mem' = mem \cup {w}
    /\ durable' = IF isDurable THEN durable \cup {w} ELSE durable \ {w}
    /\ st' = [st EXCEPT ![w] = "pending"]
    /\ cancelEv' = cancelEv \ {w}
    /\ doneEv' = doneEv \ {w}
    /\ exit' = [exit EXCEPT ![w] = "none"]
    /\ Goto(w, "sched")
    /\ arg' = [arg EXCEPT ![w] = "none"]
    /\ att' = [att EXCEPT ![w] = 0]
    /\ hb' = [hb EXCEPT ![w] = "off"]

----------------------------------------------------------------------------
(* create_job *)

Keyed(r) == KeyOf[r] # NoKey

Answer(r, l) == rpc' = [rpc EXCEPT ![r] = l]

Submit(r, g) ==
    /\ rpc[r] = "idle" /\ gpc[g] = "serving"
    /\ rgw' = [rgw EXCEPT ![r] = g]
    /\ Answer(r, IF Keyed(r) THEN "find" ELSE "lock")
    /\ UNCHANGED <<redisVars, recordVars, taskVars, can, gwVars, ops, rjob, ack,
                   faults, histVars>>

\* find_submission before the lock, and again under it when the manager is full.
FindSubmission(r) ==
    /\ rpc[r] \in {"find", "full"}
    /\ LET found == find_submission(KeyOf[r], IdentOf[r])
       IN /\ ack' = IF found = "same" THEN [ack EXCEPT ![r] = claimJob[KeyOf[r]]]
                    ELSE ack
          /\ Answer(r, CASE found = "same" -> "acked"
                         [] found = "conflict" -> "conflict"
                         [] OTHER -> IF rpc[r] = "find" THEN "lock" ELSE "rejected")
    /\ UNCHANGED <<redisVars, recordVars, taskVars, can, gwVars, ops, rgw, rjob,
                   faults, histVars>>

\* Under the lock: the manager is full, or the session is gone.
Refuse(r) ==
    /\ rpc[r] = "lock" /\ ~Locked(rgw[r])
    /\ \/ /\ Cardinality(ActiveJobs(rgw[r])) >= MaxJobs
          /\ Answer(r, IF Keyed(r) THEN "full" ELSE "rejected")
       \/ /\ Cardinality(ActiveJobs(rgw[r])) < MaxJobs
          /\ rgw[r] \notin sess
          /\ Answer(r, "rejected")
    /\ UNCHANGED <<redisVars, recordVars, taskVars, can, gwVars, ops, rgw, rjob,
                   ack, faults, histVars>>

\* Under the lock: pin the session and draw a job id.  A keyed request sends
\* the reservation, an unkeyed one is accepted at once.
Admit(r, j) ==
    LET g == rgw[r]
    IN /\ rpc[r] = "lock" /\ ~Locked(g)
       /\ Cardinality(ActiveJobs(g)) < MaxJobs
       /\ g \in sess
       /\ \A q \in Requests : rjob[q] # j
       /\ rjob' = [rjob EXCEPT ![r] = j]
       /\ Pin(g)
       /\ IF Keyed(r)
            THEN /\ Answer(r, "reserve")
                 /\ UNCHANGED <<recordVars, taskVars, ack>>
            ELSE /\ Answer(r, "acked")
                 /\ ack' = [ack EXCEPT ![r] = j]
                 /\ NewRecord(<<g, j>>, FALSE)
       /\ UNCHANGED <<redisVars, can, gwVars, rgw, faults, histVars>>

Reserve(r) ==
    /\ rpc[r] = "reserve"
    /\ LET found == find_submission(KeyOf[r], IdentOf[r])
       IN Answer(r, CASE found = "none" -> "created"
                      [] found = "same" -> "duplicate"
                      [] OTHER -> "conflicting")
    /\ reserve_submission_with_job(KeyOf[r], IdentOf[r], rjob[r])
    /\ UNCHANGED <<recordVars, taskVars, can, gwVars, ops, rgw, rjob, ack, faults,
                   histVars>>

\* The answer of the reservation.  Three conflicting answers in a row end as
\* SubmissionUnavailableError; nothing can change between them, so they are one.
ReserveReply(r) ==
    LET g == rgw[r]
    IN /\ \/ /\ rpc[r] = "created"
             /\ Answer(r, "acked")
             /\ ack' = [ack EXCEPT ![r] = rjob[r]]
             /\ NewRecord(<<g, rjob[r]>>, TRUE)
             /\ UNCHANGED ops
          \/ /\ rpc[r] = "duplicate"
             /\ Answer(r, "acked")
             /\ ack' = [ack EXCEPT ![r] = claimJob[KeyOf[r]]]
             /\ Unpin(g)
             /\ UNCHANGED <<recordVars, taskVars>>
          \/ /\ rpc[r] = "conflicting"
             /\ Answer(r, "unavailable")
             /\ Unpin(g)
             /\ UNCHANGED <<recordVars, taskVars, ack>>
       /\ UNCHANGED <<redisVars, can, gwVars, rgw, rjob, faults, histVars>>

\* Mutant: the provisional lease is kept.
RequestFails_keeps_pin(r) ==
    /\ rpc[r] \in InFlight \ {"lock"}
    /\ RedisFault
    /\ Answer(r, "unavailable")
    /\ UNCHANGED <<redisVars, recordVars, taskVars, can, gwVars, ops, rgw, rjob, ack,
                   histVars>>

\* A Redis call of create_job fails: before it reached the store, or after the
\* store executed it.  The provisional lease is released.
RequestFails(r) ==
    /\ rpc[r] \in InFlight \ {"lock"}
    /\ RedisFault
    /\ Answer(r, "unavailable")
    /\ IF rpc[r] \in {"find", "full"} THEN UNCHANGED ops ELSE Unpin(rgw[r])
    /\ UNCHANGED <<redisVars, recordVars, taskVars, can, gwVars, rgw, rjob, ack,
                   histVars>>

----------------------------------------------------------------------------
(* _run_job: up to the remote command *)

\* status = "running", the heartbeat loop is started (its Redis part exists
\* only for durable jobs).
BeginRun(w) ==
    /\ st' = [st EXCEPT ![w] = "running"]
    /\ hb' = [hb EXCEPT ![w] = IF w \in durable THEN "renew" ELSE "off"]
    /\ Goto(w, "start")

EnterRunJob(w) ==
    /\ pc[w] = "sched" /\ ~Locked(w[1])
    /\ \/ /\ w \notin mem
          /\ Goto(w, "end")
          /\ UNCHANGED <<st, doneEv, hb>>
       \/ /\ w \in mem /\ w \in cancelEv
          /\ st' = [st EXCEPT ![w] = "cancelled"]
          /\ doneEv' = doneEv \cup {w}
          /\ Goto(w, IF w \in durable THEN "end" ELSE "persist")
          /\ UNCHANGED hb
       \/ /\ w \in mem /\ w \notin cancelEv /\ w \in durable
          /\ Goto(w, "claim")
          /\ UNCHANGED <<st, doneEv, hb>>
       \/ /\ w \in mem /\ w \notin cancelEv /\ w \notin durable
          /\ BeginRun(w)
          /\ UNCHANGED doneEv
    /\ UNCHANGED <<redisVars, mem, durable, cancelEv, exit, arg, att, can, gwVars,
                   ops, reqVars, faults, histVars>>

Claim(w) ==
    /\ pc[w] = "claim"
    /\ Goto(w, IF Claimable(w[2], Tok(w)) THEN "check" ELSE "lost")
    /\ claim_durable_execution(w[2], Tok(w))
    /\ UNCHANGED <<recordVars, arg, att, hb, can, gwVars, ops, reqVars, faults,
                   histVars>>

\* SubmissionUnavailableError escapes from the task: nothing is recorded.
ClaimFails(w) ==
    /\ pc[w] = "claim" /\ RedisFault
    /\ Goto(w, "end")
    /\ UNCHANGED redisVars \/ claim_durable_execution(w[2], Tok(w))
    /\ UNCHANGED <<recordVars, arg, att, hb, can, gwVars, ops, reqVars, histVars>>

\* The loser forgets the job and writes nothing.
LoseClaim(w) ==
    /\ pc[w] = "lost" /\ ~Locked(w[1])
    /\ doneEv' = doneEv \cup {w}
    /\ mem' = mem \ {w}
    /\ Goto(w, "end")
    /\ UNCHANGED <<redisVars, durable, st, cancelEv, exit, arg, att, hb, can,
                   gwVars, ops, reqVars, faults, histVars>>

CheckIntent(w) ==
    /\ pc[w] = "check"
    /\ Goto(w, IF is_durable_cancellation_requested(w[2], Tok(w))
               THEN "intent" ELSE "go")
    /\ UNCHANGED <<redisVars, recordVars, arg, att, hb, can, gwVars, ops, reqVars,
                   faults, histVars>>

\* A failed check reads as "not cancelled".
CheckIntentFails(w) ==
    /\ pc[w] = "check" /\ RedisFault
    /\ Goto(w, "go")
    /\ UNCHANGED <<redisVars, recordVars, arg, att, hb, can, gwVars, ops, reqVars,
                   histVars>>

\* Cancelled between the claim and the start: nothing was executed.
HonourIntent(w) ==
    /\ pc[w] = "intent"
    /\ cancelEv' = cancelEv \cup {w}
    /\ doneEv' = doneEv \cup {w}
    /\ st' = [st EXCEPT ![w] = "cancelled"]
    /\ exit' = [exit EXCEPT ![w] = "minus1"]
    /\ arg' = [arg EXCEPT ![w] = "cancelled"]
    /\ Goto(w, "cfinish")
    /\ UNCHANGED <<redisVars, mem, durable, att, hb, can, gwVars, ops, reqVars,
                   faults, histVars>>

Begin(w) ==
    /\ pc[w] = "go"
    /\ BeginRun(w)
    /\ UNCHANGED <<redisVars, mem, durable, cancelEv, doneEv, exit, arg, att, can,
                   gwVars, ops, reqVars, faults, histVars>>

\* The first await of the finally block: the durable path reaps its heartbeat
\* task, the unkeyed one mirrors the outcome to Redis.
EnterFinally(w) ==
    /\ hb' = [hb EXCEPT ![w] = "off"]
    /\ Goto(w, IF w \in durable THEN "reap" ELSE "persist")

\* The command policy denies the command, or the session is gone.
FailBeforeStart(w) ==
    /\ pc[w] = "start"
    /\ st' = [st EXCEPT ![w] = "failed"]
    /\ EnterFinally(w)
    /\ \/ "deny" \in May /\ doneEv' = doneEv \cup {w}
       \/ w[1] \notin sess /\ UNCHANGED doneEv
    /\ UNCHANGED <<redisVars, mem, durable, cancelEv, exit, arg, att, can, gwVars,
                   ops, reqVars, faults, histVars>>

\* execute_stream: exec_command crosses to the remote host.
StartRemote(w) ==
    /\ pc[w] = "start" /\ w[1] \in sess
    /\ Goto(w, "stream")
    /\ Pin(w[1])
    /\ starts' = [starts EXCEPT ![w[2]] = @ + 1]
    /\ UNCHANGED <<redisVars, recordVars, arg, att, hb, can, gwVars, reqVars,
                   faults, lapsed, zero>>

----------------------------------------------------------------------------
(* _run_job: from the end of the stream *)

\* The stream ends: with the command's exit code, with -1 because the channel
\* was closed, or with an ("error", ...) item that leaves exit_code unset.
StreamEnds(w, x) ==
    /\ pc[w] = "stream"
    /\ exit' = [exit EXCEPT ![w] = x]
    /\ zero' = IF x = "zero" THEN zero \cup {<<w[2], Tok(w)>>} ELSE zero
    /\ Unpin(w[1])
    /\ Goto(w, "ended")
    /\ UNCHANGED <<redisVars, mem, durable, st, cancelEv, doneEv, arg, att, hb, can,
                   gwVars, reqVars, faults, starts, lapsed>>

\* Mutant: an interrupted stream counts as cancelled.
Outcome_cancelled(x, cancelled) ==
    CASE x = "zero" -> "completed"
      [] x = "positive" -> "failed"
      [] OTHER -> IF cancelled THEN "cancelled" ELSE "failed"

\* _classify_cancelled_stream_outcome, and the classification without a
\* cancellation.
Outcome(x, cancelled) ==
    CASE x = "zero" -> "completed"
      [] x = "positive" -> "failed"
      [] OTHER -> IF cancelled THEN "ambiguous" ELSE "failed"

\* Mutant: the waiters of an unkeyed job are woken when its outcome is known.
Classify_wakes(w) ==
    /\ pc[w] = "ended"
    /\ st' = [st EXCEPT ![w] = Outcome(exit[w], w \in cancelEv)]
    /\ exit' = IF w \in cancelEv /\ exit[w] = "none"
               THEN [exit EXCEPT ![w] = "minus1"] ELSE exit
    /\ EnterFinally(w)
    /\ doneEv' = IF w \in durable THEN doneEv ELSE doneEv \cup {w}
    /\ UNCHANGED <<redisVars, mem, durable, cancelEv, arg, att, can, gwVars, ops,
                   reqVars, faults, histVars>>

Classify(w) ==
    /\ pc[w] = "ended"
    /\ st' = [st EXCEPT ![w] = Outcome(exit[w], w \in cancelEv)]
    /\ exit' = IF w \in cancelEv /\ exit[w] = "none"
               THEN [exit EXCEPT ![w] = "minus1"] ELSE exit
    /\ EnterFinally(w)
    /\ UNCHANGED <<redisVars, mem, durable, cancelEv, doneEv, arg, att, can, gwVars,
                   ops, reqVars, faults, histVars>>

\* The heartbeat task is gone: send the fenced finish, if the status is
\* terminal (still).
Reaped(w) ==
    /\ pc[w] = "reap"
    /\ IF st[w] \in TERMINAL_STATES
         THEN /\ arg' = [arg EXCEPT ![w] = st[w]]
              /\ Goto(w, "finish")
         ELSE /\ Goto(w, "end")
              /\ UNCHANGED arg
    /\ UNCHANGED <<redisVars, recordVars, att, hb, can, gwVars, ops, reqVars, faults,
                   histVars>>

\* Where the caller of finish_durable_execution goes on.
AfterFinish(w) == Goto(w, IF pc[w] = "cfinish" THEN "end" ELSE "fin")

Finish(w) ==
    /\ pc[w] \in {"finish", "cfinish"}
    /\ finish_durable_execution(w[2], Tok(w), arg[w])
    /\ AfterFinish(w)
    /\ UNCHANGED <<recordVars, arg, att, hb, can, gwVars, ops, reqVars, faults,
                   histVars>>

\* Mutant: one attempt too many.
AnotherAttempt_off_by_one(w) == att[w] < FinishAttempts + 1

AnotherAttempt(w) == att[w] + 1 < FinishAttempts

\* A failed attempt, which the store may have executed, is repeated until
\* FinishAttempts have failed.
FinishFails(w) ==
    /\ pc[w] \in {"finish", "cfinish"} /\ RedisFault
    /\ UNCHANGED redisVars \/ finish_durable_execution(w[2], Tok(w), arg[w])
    /\ att' = [att EXCEPT ![w] = @ + 1]
    /\ IF AnotherAttempt(w) THEN UNCHANGED pc ELSE AfterFinish(w)
    /\ UNCHANGED <<recordVars, arg, hb, can, gwVars, ops, reqVars, histVars>>

\* _persist_terminal_job of an unkeyed job, best effort.
Persist(w) ==
    /\ pc[w] = "persist"
    /\ \/ save_terminal_job(w[2], st[w]) /\ UNCHANGED faults
       \/ RedisFault /\ save_terminal_job_fails(w[2], st[w])
    /\ Goto(w, "fin")
    /\ UNCHANGED <<recordVars, arg, att, hb, can, gwVars, ops, reqVars, histVars>>

\* Mutant: only a completed job wakes its waiters.
Complete_silent(w) ==
    /\ pc[w] = "fin"
    /\ doneEv' = IF st[w] = "completed" THEN doneEv \cup {w} ELSE doneEv
    /\ Goto(w, "end")
    /\ UNCHANGED <<redisVars, mem, durable, st, cancelEv, exit, arg, att, hb, can,
                   gwVars, ops, reqVars, faults, histVars>>

Complete(w) ==
    /\ pc[w] = "fin"
    /\ doneEv' = IF st[w] \in TERMINAL_STATES THEN doneEv \cup {w} ELSE doneEv
    /\ Goto(w, "end")
    /\ UNCHANGED <<redisVars, mem, durable, st, cancelEv, exit, arg, att, hb, can,
                   gwVars, ops, reqVars, faults, histVars>>

\* The finally of _run_job.
EndTask(w) ==
    /\ pc[w] = "end"
    /\ Goto(w, "none")
    /\ Unpin(w[1])
    /\ arg' = [arg EXCEPT ![w] = "none"]
    /\ att' = [att EXCEPT ![w] = 0]
    /\ UNCHANGED <<redisVars, recordVars, hb, can, gwVars, reqVars, faults, histVars>>

----------------------------------------------------------------------------
(* The heartbeat loop of a durable job *)

\* Renew the lease.  A refused or failed renewal asks the transport to stop
\* and ends the loop.
Renew(w) ==
    /\ hb[w] = "renew"
    /\ \/ /\ heartbeat_durable_execution(w[2], Tok(w))
          /\ UNCHANGED faults
          /\ IF Renewable(w[2], Tok(w))
               THEN /\ hb' = [hb EXCEPT ![w] = "check"]
                    /\ UNCHANGED cancelEv
               ELSE /\ hb' = [hb EXCEPT ![w] = "off"]
                    /\ cancelEv' = cancelEv \cup {w}
       \/ /\ RedisFault
          /\ UNCHANGED redisVars \/ heartbeat_durable_execution(w[2], Tok(w))
          /\ hb' = [hb EXCEPT ![w] = "off"]
          /\ cancelEv' = cancelEv \cup {w}
    /\ UNCHANGED <<mem, durable, st, doneEv, exit, pc, arg, att, can, gwVars, ops,
                   reqVars, histVars>>

\* Then ask whether somebody cancelled the job through another gateway.
PollIntent(w) ==
    /\ hb[w] = "check"
    /\ hb' = [hb EXCEPT ![w] = "renew"]
    /\ \/ /\ cancelEv' = IF is_durable_cancellation_requested(w[2], Tok(w))
                         THEN cancelEv \cup {w} ELSE cancelEv
          /\ UNCHANGED faults
       \/ RedisFault /\ UNCHANGED cancelEv
    /\ UNCHANGED <<redisVars, mem, durable, st, doneEv, exit, pc, arg, att, can,
                   gwVars, ops, reqVars, histVars>>

----------------------------------------------------------------------------
(* cancel_job.  One call per record at a time. *)

\* What the call does to the record once the intent is durable (or, for an
\* unkeyed job, at once).
ApplyCancel(w) ==
    /\ cancelEv' = cancelEv \cup {w}
    /\ IF st[w] = "pending"
         THEN /\ st' = [st EXCEPT ![w] = "cancelled"]
              /\ doneEv' = doneEv \cup {w}
         ELSE /\ st' = [st EXCEPT ![w] = "cancelling"]
              /\ UNCHANGED doneEv

CancelJob(w) ==
    /\ "cancel" \in May /\ gpc[w[1]] = "serving" /\ ~Locked(w[1])
    /\ w \in mem /\ st[w] \in ACTIVE_STATES /\ can[w] = "idle"
    /\ IF w \in durable
         THEN /\ can' = [can EXCEPT ![w] = "sent"]
              /\ UNCHANGED recordVars
         ELSE /\ ApplyCancel(w)
              /\ UNCHANGED <<mem, durable, exit, can>>
    /\ UNCHANGED <<redisVars, taskVars, gwVars, ops, reqVars, faults, histVars>>

RequestCancellation(w) ==
    /\ can[w] = "sent"
    /\ can' = [can EXCEPT ![w] = CancelAnswer(w[2])]
    /\ request_durable_cancellation(w[2])
    /\ UNCHANGED <<recordVars, taskVars, gwVars, ops, reqVars, faults, histVars>>

\* SubmissionUnavailableError; the store may have recorded the intent.
CancellationFails(w) ==
    /\ can[w] = "sent" /\ RedisFault
    /\ can' = [can EXCEPT ![w] = "idle"]
    /\ UNCHANGED redisVars \/ request_durable_cancellation(w[2])
    /\ UNCHANGED <<recordVars, taskVars, gwVars, ops, reqVars, histVars>>

CancelReply(w) ==
    /\ can[w] \notin {"idle", "sent"}
    /\ can' = [can EXCEPT ![w] = "idle"]
    /\ CASE can[w] = "cancelled" ->
              /\ cancelEv' = cancelEv \cup {w}
              /\ st' = [st EXCEPT ![w] = "cancelled"]
              /\ doneEv' = doneEv \cup {w}
         [] can[w] = "cancelling" -> ApplyCancel(w)
         [] OTHER -> UNCHANGED <<cancelEv, st, doneEv>>
    /\ UNCHANGED <<redisVars, mem, durable, exit, taskVars, gwVars, ops, reqVars,
                   faults, histVars>>

----------------------------------------------------------------------------
(* A gateway's life *)

\* cleanup_old_jobs: records of finished jobs are dropped after an hour.
CleanupOldJob(w) ==
    /\ "old records" \in May /\ gpc[w[1]] \in {"serving", "draining"} /\ ~Locked(w[1])
    /\ w \in mem /\ w \in doneEv
    /\ mem' = mem \ {w}
    /\ UNCHANGED <<redisVars, durable, st, cancelEv, doneEv, exit, taskVars, can,
                   gwVars, ops, reqVars, faults, histVars>>

\* Mutant: the reaper does not look at active operations.
CloseSession_ignores_pins(g) ==
    /\ g \in sess /\ gpc[g] \in {"serving", "draining", "cleanup"}
    /\ sess' = sess \ {g}
    /\ UNCHANGED <<redisVars, recordVars, taskVars, can, gpc, boots, todo, pers, ops,
                   reqVars, faults, histVars>>

\* The idle reaper, which runs until the drain is over, closes a session
\* without active operations; a client may close it at any time.  A session
\* that was just restored is not idle during the startup recovery.
CloseSession(g) ==
    /\ g \in sess
    /\ \/ ops[g] = 0 /\ gpc[g] \in {"serving", "draining", "cleanup"}
       \/ "disconnect" \in May /\ gpc[g] = "serving"
    /\ sess' = sess \ {g}
    /\ UNCHANGED <<redisVars, recordVars, taskVars, can, gpc, boots, todo, pers, ops,
                   reqVars, faults, histVars>>

\* The process starts; its persisted SSH session is restored, or fails to be.
Boot(g) ==
    /\ gpc[g] = "down" /\ boots[g] < MaxBoots
    /\ boots' = [boots EXCEPT ![g] = @ + 1]
    /\ gpc' = [gpc EXCEPT ![g] = "reconcile"]
    /\ \/ sess' = sess \cup {g}
       \/ "not restored" \in May /\ UNCHANGED sess
    /\ UNCHANGED <<redisVars, recordVars, taskVars, can, todo, pers, ops, reqVars,
                   faults, histVars>>

\* _recover_durable_jobs, first call; a failing script reconciles nothing.
Reconcile(g) ==
    /\ gpc[g] = "reconcile"
    /\ gpc' = [gpc EXCEPT ![g] = "list"]
    /\ \/ reconcile_expired_cancelled_processing /\ UNCHANGED faults
       \/ RedisFault /\ UNCHANGED redisVars
    /\ UNCHANGED <<recordVars, taskVars, can, boots, todo, pers, sess, ops, reqVars,
                   histVars>>

\* Second call: two scripts, of which the second one's failure loses only the
\* pending jobs.
ListRecoverable(g) ==
    /\ gpc[g] = "list"
    /\ gpc' = [gpc EXCEPT ![g] = "recover"]
    /\ \/ /\ todo' = [todo EXCEPT ![g] = list_recoverable_durable_jobs]
          /\ UNCHANGED faults
       \/ /\ RedisFault
          /\ todo' \in {todo, [todo EXCEPT ![g] = ExpiredProcessing \ envCancel]}
    /\ UNCHANGED <<redisVars, recordVars, taskVars, can, boots, pers, sess, ops,
                   reqVars, histVars>>

\* recover_job accepts an envelope that nobody holds, for a restored session.
Recoverable(g, j) ==
    /\ \/ envStatus[j] = "pending"
       \/ envStatus[j] = "processing" /\ j \notin envCancel /\ Expired(j)
    /\ g \in sess
    /\ <<g, j>> \notin mem

RecoverJob(g, j) ==
    /\ gpc[g] = "recover" /\ j \in todo[g]
    /\ todo' = [todo EXCEPT ![g] = @ \ {j}]
    /\ \/ /\ Recoverable(g, j)
          /\ NewRecord(<<g, j>>, TRUE)
          /\ Pin(g)
          /\ UNCHANGED faults
       \/ /\ \/ ~Recoverable(g, j) /\ UNCHANGED faults
             \/ RedisFault
          /\ UNCHANGED <<recordVars, taskVars, ops>>
    /\ UNCHANGED <<redisVars, can, gpc, boots, pers, sess, reqVars, histVars>>

Serve(g) ==
    /\ gpc[g] = "recover" /\ todo[g] = {}
    /\ gpc' = [gpc EXCEPT ![g] = "serving"]
    /\ UNCHANGED <<redisVars, recordVars, taskVars, can, boots, todo, pers, sess, ops,
                   reqVars, faults, histVars>>

\* The tasks of a process end where they are, but for those at one of spared.
ForgetTasks(g, spared) ==
    /\ pc' = [w \in Workers |->
                IF w[1] = g /\ pc[w] \notin spared THEN "none" ELSE pc[w]]
    /\ arg' = [w \in Workers |-> IF w[1] = g THEN "none" ELSE arg[w]]
    /\ att' = [w \in Workers |-> IF w[1] = g THEN 0 ELSE att[w]]
    /\ hb' = [w \in Workers |-> IF w[1] = g THEN "off" ELSE hb[w]]
    /\ can' = [w \in Workers |-> IF w[1] = g THEN "idle" ELSE can[w]]

Of(g, S) == {w \in S : w[1] = g}

\* Everything a process keeps in memory is gone.
GoDown(g) ==
    /\ gpc' = [gpc EXCEPT ![g] = "down"]
    /\ ForgetTasks(g, {})
    /\ mem' = mem \ Of(g, mem)
    /\ durable' = durable \ Of(g, durable)
    /\ cancelEv' = cancelEv \ Of(g, cancelEv)
    /\ doneEv' = doneEv \ Of(g, doneEv)
    /\ st' = [w \in Workers |-> IF w[1] = g THEN "absent" ELSE st[w]]
    /\ exit' = [w \in Workers |-> IF w[1] = g THEN "none" ELSE exit[w]]
    /\ todo' = [todo EXCEPT ![g] = {}]
    /\ pers' = [pers EXCEPT ![g] = {}]
    /\ sess' = sess \ {g}
    /\ ops' = [ops EXCEPT ![g] = 0]
    /\ rpc' = [r \in Requests |->
                 IF rgw[r] = g /\ rpc[r] \in InFlight THEN "dead" ELSE rpc[r]]
    /\ UNCHANGED <<redisVars, boots, rgw, rjob, ack, faults, histVars>>

Crash(g) == "crash" \in May /\ gpc[g] # "down" /\ GoDown(g)

\* SIGTERM: the server finishes its open requests, then the lifespan waits for
\* the jobs that are active now (_drain_jobs_for_shutdown), if there are any.
\* Outcomes that are decided and not yet persisted are not waited for.
Shutdown(g) ==
    /\ "shutdown" \in May /\ gpc[g] = "serving"
    /\ \A r \in Requests : rgw[r] = g => rpc[r] \notin InFlight
    /\ \A w \in Workers : w[1] = g => can[w] = "idle"
    /\ IF ActiveJobs(g) = {}
         THEN GoDown(g)
         ELSE /\ gpc' = [gpc EXCEPT ![g] = "draining"]
              /\ todo' = [todo EXCEPT ![g] = {w[2] : w \in ActiveJobs(g)}]
              /\ UNCHANGED <<redisVars, recordVars, taskVars, can, boots, pers, sess,
                             ops, reqVars, faults, histVars>>

\* wait_for_all_jobs: their completed_events are set and no record is active.
\* It would wait again for a record that became active meanwhile; the event of
\* such a record is set already.
DrainDone(g) ==
    /\ gpc[g] = "draining" /\ ActiveJobs(g) = {}
    /\ \A j \in todo[g] : <<g, j>> \in doneEv
    /\ GoDown(g)

\* The drain times out: force_cleanup cancels every task and remembers which
\* outcomes to persist.  A task that is awaiting its heartbeat swallows the
\* cancellation and goes on.
ForceCleanup(g) ==
    /\ "drain timeout" \in May /\ gpc[g] = "draining"
    /\ LET mine == Of(g, mem)
           pending == {w \in mine : st[w] = "pending"}
       IN /\ st' = [w \in Workers |->
                      CASE w \in pending -> "cancelled"
                        [] w \in mine /\ st[w] = "running" -> "cancelling"
                        [] OTHER -> st[w]]
          /\ cancelEv' = cancelEv \cup mine
          /\ doneEv' = doneEv \cup pending
          /\ pers' = [pers EXCEPT ![g] =
                        {w[2] : w \in {v \in mine : st'[v] \in TERMINAL_STATES}}]
          /\ mem' = mem \ mine
    /\ ForgetTasks(g, {"reap"})
    /\ todo' = [todo EXCEPT ![g] = {}]
    /\ ops' = [ops EXCEPT ![g] = 0]
    /\ gpc' = [gpc EXCEPT ![g] = "cleanup"]
    /\ UNCHANGED <<redisVars, durable, exit, boots, sess, reqVars, faults, histVars>>

\* Its last loop: _persist_terminal_job of every job it took to be decided.
PersistCleaned(g, j) ==
    /\ gpc[g] = "cleanup" /\ j \in pers[g]
    /\ pers' = [pers EXCEPT ![g] = @ \ {j}]
    /\ \/ save_terminal_job(j, st[<<g, j>>]) /\ UNCHANGED faults
       \/ RedisFault /\ save_terminal_job_fails(j, st[<<g, j>>])
    /\ UNCHANGED <<recordVars, taskVars, can, gpc, boots, todo, sess, ops, reqVars,
                   histVars>>

CleanupDone(g) ==
    /\ gpc[g] = "cleanup" /\ pers[g] = {}
    /\ GoDown(g)

----------------------------------------------------------------------------
(* Time, and the whole system *)

\* One tick of the wall clock that all scripts are given as "now".
Tick ==
    LET live == {j \in Jobs : envStatus[j] = "processing" /\ ~Expired(j)}
    IN /\ "expiry" \in May /\ live # {}
       /\ envLease' = [j \in Jobs |-> IF j \in live THEN envLease[j] - 1 ELSE envLease[j]]
       /\ lapsed' = lapsed \cup {j \in live : envLease[j] = 1}
       /\ UNCHANGED <<claimJob, claimIdent, envStatus, envToken, envCancel, proc, comp,
                      dead, recordVars, taskVars, can, gwVars, ops, reqVars, faults,
                      starts, zero>>

\* What a task does by itself, in a process that keeps running.
TaskStep(w) ==
    \/ EnterRunJob(w) \/ Claim(w) \/ LoseClaim(w) \/ CheckIntent(w)
    \/ HonourIntent(w) \/ Begin(w) \/ FailBeforeStart(w) \/ StartRemote(w)
    \/ \E x \in Exits : StreamEnds(w, x)
    \/ Classify(w) \/ Reaped(w) \/ Finish(w) \/ Persist(w) \/ Complete(w)
    \/ EndTask(w)

RequestStep(r) ==
    \/ FindSubmission(r) \/ Refuse(r) \/ Reserve(r) \/ ReserveReply(r)
    \/ \E j \in Jobs : Admit(r, j)

CancelStep(w) == RequestCancellation(w) \/ CancelReply(w)

StartupStep(g) ==
    \/ Reconcile(g) \/ ListRecoverable(g) \/ Serve(g)
    \/ \E j \in Jobs : RecoverJob(g, j)

WorkerFault(w) ==
    ClaimFails(w) \/ CheckIntentFails(w) \/ FinishFails(w) \/ CancellationFails(w)

Next ==
    \/ \E r \in Requests : RequestStep(r) \/ RequestFails(r)
                             \/ \E g \in Gateways : Submit(r, g)
    \/ \E w \in Workers : \/ TaskStep(w) \/ Renew(w) \/ PollIntent(w)
                          \/ CancelJob(w) \/ CancelStep(w) \/ WorkerFault(w)
                          \/ CleanupOldJob(w)
    \/ \E g \in Gateways : \/ CloseSession(g) \/ Boot(g) \/ StartupStep(g) \/ Crash(g)
                           \/ Shutdown(g) \/ DrainDone(g) \/ ForceCleanup(g)
                           \/ CleanupDone(g)
                           \/ \E j \in Jobs : PersistCleaned(g, j)
    \/ Tick

Spec == Init /\ [][Next]_vars

\* A running event loop runs every task, answers every request, and its clock
\* advances; execute_stream's deadline ends every stream.  Nothing is assumed
\* of clients, of crashes or of the operator who starts processes.
Fairness ==
    /\ \A w \in Workers : WF_vars(TaskStep(w)) /\ WF_vars(CancelStep(w))
    /\ \A r \in Requests : WF_vars(RequestStep(r))
    /\ \A g \in Gateways : WF_vars(StartupStep(g))
    /\ WF_vars(Tick)

FairSpec == Spec /\ Fairness

----------------------------------------------------------------------------
(* What the job managers promise *)

\* "No blind replay": as long as no processing lease of a job has run out, its
\* command is handed to the remote host at most once, whatever gateways,
\* retries, crashes and recoveries do (the claim inside _run_job).
NoBlindReplay == \A j \in Jobs \ lapsed : starts[j] <= 1

\* All answers to requests with one submission key name one job, the one that
\* the key's claim names and that belongs to the same owner and payload, and
\* the envelope of an acknowledged job is in Redis (the ACK of create_job).
AcksAgree ==
    \A r \in Requests : Keyed(r) /\ rpc[r] = "acked" =>
        /\ ack[r] = claimJob[KeyOf[r]]
        /\ claimIdent[KeyOf[r]] = IdentOf[r]
        /\ envStatus[ack[r]] # "absent"

\* A restart finds every acknowledged keyed job that is not finished: it is
\* pending under its key, or listed in the processing zset.
AcceptedRecoverable ==
    \A r \in Requests : Keyed(r) /\ rpc[r] = "acked" =>
        \/ envStatus[ack[r]] \in TERMINAL_STATES
        \/ ack[r] \in PendingClaims
        \/ envStatus[ack[r]] = "processing" /\ ack[r] \in proc

\* A durable "cancelled" means that the command never reached the remote host,
\* unless a lease ran out on the way.
CancelledNotStarted ==
    \A j \in Jobs \ lapsed : (\E k \in Keys : claimJob[k] = j) =>
        (envStatus[j] = "cancelled" => starts[j] = 0)

\* A durable "completed" is the result of the attempt whose token the envelope
\* carries: an attempt that lost its lease cannot publish over a later one.
CompletedByOwner ==
    \A j \in Jobs : envStatus[j] = "completed" /\ envToken[j] # NoToken =>
        <<j, envToken[j]>> \in zero

\* A job leaves "processing" only through its owner's finish, or by startup
\* reconciliation after its lease ran out.
OnlyOwnerFinishes ==
    [][\A j \in Jobs :
         envStatus[j] = "processing" /\ envStatus'[j] # "processing" =>
            \/ Expired(j)
            \/ \E w \in Workers : /\ w[2] = j /\ Tok(w) = envToken[j]
                                  /\ pc[w] \in {"finish", "cfinish"}]_vars

\* Once cancellation is recorded for a processing job, no other worker takes it
\* over, expired lease or not.
CancelIntentNotReplayed ==
    [][\A j \in envCancel :
         envStatus[j] = "processing" /\ envStatus'[j] = "processing"
            => envToken'[j] = envToken[j] /\ j \in envCancel']_vars

\* Operation leases are neither leaked nor released twice: active_operations
\* counts the requests that are reserving, the tasks, and the open streams.
OpsBalanced ==
    \A g \in Gateways : gpc[g] # "cleanup" =>
        ops[g] = Cardinality({r \in Requests : rgw[r] = g /\ rpc[r] \in Reserving})
               + Cardinality({w \in Workers : w[1] = g /\ pc[w] # "none"})
               + Cardinality({w \in Workers : w[1] = g /\ pc[w] = "stream"})

\* While clients do not close it, the session of an accepted job is there until
\* the job's task is over, or until force_cleanup takes the job's lease away:
\* the idle reaper spares it from the ACK on.
SessionPinned ==
    "disconnect" \notin May =>
        \A w \in Workers :
            pc[w] # "none" /\ gpc[w[1]] # "cleanup" => w[1] \in sess

\* An unkeyed job leaves no active record behind when its task is over, and
\* "cancelled" means that it did not start (the legacy path of _run_job).  Its
\* outcome is mirrored to Redis, best effort: unless Redis fails.  That comes
\* before completed_event wakes its waiters when the command was started, as
\* the comment at job_manager.py:1122 wants it always; a job that was cancelled
\* or denied before wakes them first (902, 1057, 1347) and is mirrored later.
UnkeyedSettles ==
    \A w \in mem \ durable :
        /\ pc[w] \in {"fin", "end", "none"} =>
             st[w] \in TERMINAL_STATES /\ (faults = 0 => envStatus[w[2]] = st[w])
        /\ w \in doneEv /\ faults = 0 =>
             \/ envStatus[w[2]] = st[w]
             \/ pc[w] \in {"sched", "persist"} /\ starts[w[2]] = 0
        /\ st[w] = "cancelled" => starts[w[2]] = 0

\* The store implements the abstract ledger: no step of any gateway does to an
\* envelope what JobLedger does not allow.
Ledger == INSTANCE JobLedger WITH
    status <- envStatus, owner <- envToken, cancelled <- envCancel
LedgerSpec == Ledger!Spec

\* A task is over and its record is still active, with nobody woken, in one of
\* the two ways that the code leaves open: the Redis call of its claim failed,
\* and the exception left _run_job before its try block (job_manager.py:930), or
\* cancel_job wrote "cancelling" over the outcome before the task had published
\* it or had set its event (1350).
Stranded(w) ==
    /\ w \in mem /\ pc[w] = "none"
    /\ \/ st[w] \in {"pending", "cancelled"} /\ faults > 0
       \/ st[w] = "cancelling" /\ w \in durable /\ w \in cancelEv

Settled(j) == \/ envStatus[j] \in TERMINAL_STATES
              \/ \E g \in Gateways : Stranded(<<g, j>>)

\* Every acknowledged keyed job gets a durable outcome, whichever gateway
\* executes it and however often leases run out, unless its task is stranded.
AckedSettles ==
    \A r \in Requests :
        (Keyed(r) /\ rpc[r] = "acked") ~>
            \E j \in Jobs : ack[r] = j /\ Settled(j)

\* Whoever waits for a job in the process that runs it is woken up: its
\* completed_event is set, or the record has been dropped (wait_for_completion),
\* whether the command ran, was denied, was cancelled or lost its claim, and
\* whether its outcome could be stored or not; only a stranded task wakes nobody.
WaitersWake ==
    \A w \in Workers :
        (w \in mem /\ pc[w] # "none") ~> (w \in doneEv \/ w \notin mem \/ Stranded(w))

----------------------------------------------------------------------------
(* Promises of the repository's comments and tests that the code breaks *)

\* A factual exit code stays what the record says (cancel_job).
FactualExitRemains ==
    [][\A w \in Workers :
         st[w] \in {"completed", "failed"} /\ exit[w] \in {"zero", "positive"}
            => st'[w] \in {st[w], "absent"}]_vars

\* An accepted job survives restarts: when some gateway finally keeps serving,
\* every acknowledged keyed job gets its outcome.
SurvivesRestart ==
    (\E g \in Gateways : <>[](gpc[g] = "serving")) => AckedSettles
============================================================================
