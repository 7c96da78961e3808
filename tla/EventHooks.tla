----------------------------- MODULE EventHooks -----------------------------
(***************************************************************************)
(* The outbox of event-hook deliveries (app/event_hook_delivery.py), fed   *)
(* by app/event_hook_emitter.py and drained by the workers of every        *)
(* gateway instance that shares the database.                              *)
(*                                                                         *)
(* Each outbox operation is one database session that reads rows, awaits,  *)
(* and then commits an UPDATE of the columns whose value it has changed;   *)
(* nothing locks a row in between.  A worker does not exclude the rows     *)
(* that it is sending already, so several sends of one delivery, of one or *)
(* of several instances, may be under way at the same time.                *)
(***************************************************************************)
EXTENDS Naturals, FiniteSets

CONSTANTS
    Deliveries,         \* rows of webhook_deliveries
    HookInstances,      \* instance_id of each process that ever runs a worker
    NoInstance,         \* leased_by is NULL
    Sends,              \* bound: sends that may be under way at the same time
    MaxAttempts,        \* event_hooks_max_attempts
    ClaimLimit,         \* limit of claim_deliveries
    MaxDbErrors         \* bound: database errors

ASSUME HookAssumption ==
    /\ IsFiniteSet(Deliveries) /\ IsFiniteSet(Sends)
    /\ NoInstance \notin HookInstances
    /\ MaxAttempts \in Nat \ {0} /\ ClaimLimit \in Nat \ {0} /\ MaxDbErrors \in Nat

VARIABLES
    row,        \* delivery -> its columns
    young,      \* pending deliveries created less than two seconds ago
    waiting,    \* failed deliveries whose next_retry_at is in the future
    leaseOld,   \* deliveries whose leased_at is more than lease_ttl ago
    worker,     \* instance -> "unborn", "up" or "gone"
    claim,      \* instance -> rows it has read and not yet leased
    send,       \* send -> its task
    dbErrors,   \* number of database errors so far
    accepted,   \* history: deliveries a receiver has answered with 2xx
    reports     \* history: delivery -> times that fail() was committed for it, up
                \* to MaxAttempts

hookVars == <<row, young, waiting, leaseOld, worker, claim, send, dbErrors, accepted, reports>>

Answers == {"2xx", "retryable", "refused", "error"}
Columns == [status   : {"new", "pending", "failed", "sent", "dead", "deleted"},
            attempts : Nat,
            leasedBy : HookInstances \cup {NoInstance}]

EmptyRow == [status |-> "new", attempts |-> 0, leasedBy |-> NoInstance]
NoClaim == [rows |-> {}, own |-> {}]

\* A task of _send_delivery: posting, or about to commit what complete() or
\* fail() makes of the row it has read.  A task that is in the except branch
\* has no further handler.
Idle == [phase |-> "idle"]
Posting(i, d) == [phase |-> "posting", by |-> i, of |-> d]
Committing(i, d, call, handled) ==
    [phase |-> "commit", by |-> i, of |-> d, call |-> call, read |-> row[d], handled |-> handled]

HookTypeOK ==
    /\ row \in [Deliveries -> Columns]
    /\ young \cup waiting \subseteq Deliveries /\ leaseOld \subseteq Deliveries
    /\ worker \in [HookInstances -> {"unborn", "up", "gone"}]
    /\ claim \in [HookInstances -> [rows : SUBSET Deliveries, own : SUBSET Deliveries]]
    /\ \A s \in Sends : send[s] # Idle =>
         send[s].of \in Deliveries /\ worker[send[s].by] = "up"
    /\ dbErrors \in 0 .. MaxDbErrors
    /\ accepted \subseteq Deliveries /\ reports \in [Deliveries -> 0 .. MaxAttempts]

HookInit ==
    /\ row = [d \in Deliveries |-> EmptyRow]
    /\ young = {} /\ waiting = {} /\ leaseOld = {}
    /\ worker = [i \in HookInstances |-> "unborn"]
    /\ claim = [i \in HookInstances |-> NoClaim]
    /\ send = [s \in Sends |-> Idle]
    /\ dbErrors = 0 /\ accepted = {}
    /\ reports = [d \in Deliveries |-> 0]

-----------------------------------------------------------------------------
\* emit_event and enqueue: one row for each matching hook.  A failed INSERT is
\* logged and leaves no row.
Enqueue(d) ==
    /\ row[d].status = "new"
    /\ row' = [row EXCEPT ![d].status = "pending"]
    /\ young' = young \cup {d}
    /\ UNCHANGED <<waiting, leaseOld, worker, claim, send, dbErrors, accepted, reports>>

\* Time passes: a row is two seconds old, its retry time comes, its lease ages.
GrowsOld(d) ==
    /\ d \in young
    /\ young' = young \ {d}
    /\ UNCHANGED <<row, waiting, leaseOld, worker, claim, send, dbErrors, accepted, reports>>

RetryDue(d) ==
    /\ d \in waiting
    /\ waiting' = waiting \ {d}
    /\ UNCHANGED <<row, young, leaseOld, worker, claim, send, dbErrors, accepted, reports>>

LeaseAges(d) ==
    /\ row[d].leasedBy # NoInstance /\ d \notin leaseOld
    /\ leaseOld' = leaseOld \cup {d}
    /\ UNCHANGED <<row, young, waiting, worker, claim, send, dbErrors, accepted, reports>>

Unsettled(d) == row[d].status \in {"pending", "failed"}

\* mutant: the lease of another instance never ages
Claimable_lease_for_ever(i, d) ==
    /\ row[d].leasedBy \in {i, NoInstance}
    /\ d \notin young \cup waiting

\* The filter that claim_deliveries applies to the rows it has selected.
Claimable(i, d) ==
    /\ row[d].leasedBy \in {i, NoInstance} \/ d \in leaseOld
    /\ d \notin young \cup waiting

\* SELECT ... WHERE status IN (pending, failed) LIMIT n, in no given order.
ClaimRead(i) ==
    /\ worker[i] = "up" /\ claim[i] = NoClaim
    /\ \E window \in SUBSET {d \in Deliveries : Unsettled(d)} :
         LET rows == {d \in window : Claimable(i, d)} IN
         /\ \/ Cardinality(window) = ClaimLimit
            \/ Cardinality(window) < ClaimLimit /\ \A d \in Deliveries : Unsettled(d) => d \in window
         /\ rows # {}
         /\ claim' = [claim EXCEPT ![i] = [rows |-> rows,
                                           own |-> {d \in rows : row[d].leasedBy = i}]]
    /\ UNCHANGED <<row, young, waiting, leaseOld, worker, send, dbErrors, accepted, reports>>

\* The commit of the leases, and one task for each claimed row.  leased_by is
\* part of the UPDATE only where it differs from the value read.
ClaimCommit(i) ==
    LET rows == claim[i].rows
        free == {s \in Sends : send[s] = Idle}
    IN  /\ rows # {} /\ Cardinality(rows) <= Cardinality(free)
        /\ LET task == CHOOSE f \in [rows -> free] : \A d, e \in rows : d # e => f[d] # f[e]
           IN  send' = [s \in Sends |-> IF \E d \in rows : task[d] = s
                                        THEN Posting(i, CHOOSE d \in rows : task[d] = s)
                                        ELSE send[s]]
        /\ row' = [d \in Deliveries |-> IF d \in rows \ claim[i].own
                                        THEN [row[d] EXCEPT !.leasedBy = i]
                                        ELSE row[d]]
        /\ leaseOld' = leaseOld \ rows
        /\ claim' = [claim EXCEPT ![i] = NoClaim]
        /\ UNCHANGED <<young, waiting, worker, dbErrors, accepted, reports>>

-----------------------------------------------------------------------------
\* mutant: whatever the receiver answered is a success
Delivered_any_answer(answer) == answer # "error"

\* 200 <= resp.status < 300
Delivered(answer) == answer = "2xx"

\* The end of the POST, and the read of the row by complete() or fail().  A
\* blocked destination is an "error" too.
Answer(s) ==
    /\ send[s].phase = "posting"
    /\ \E answer \in Answers :
         /\ send' = [send EXCEPT ![s] =
                        Committing(@.by, @.of, IF Delivered(answer) THEN "complete" ELSE "fail",
                                   answer # "error")]
         /\ accepted' = IF answer = "2xx" THEN accepted \cup {send[s].of} ELSE accepted
    /\ UNCHANGED <<row, young, waiting, leaseOld, worker, claim, dbErrors, reports>>

\* mutant: gives up one attempt early
Exhausted_early(attempts) == attempts + 1 >= MaxAttempts

\* d.attempts >= max_attempts
Exhausted(attempts) == attempts >= MaxAttempts

\* What complete() and fail() assign to the row that they have read.
Completed(r) == [r EXCEPT !.status = "sent", !.leasedBy = NoInstance]
Failed(r) ==
    LET n == r.attempts + 1 IN
    [r EXCEPT !.attempts = n, !.leasedBy = NoInstance,
              !.status = IF Exhausted(n) THEN "dead" ELSE "failed"]

\* The session's UPDATE: the columns whose new value is not the one read.
Updated(d, read, new) ==
    [c \in DOMAIN read |-> IF new[c] = read[c] THEN row[d][c] ELSE new[c]]

Capped(n) == IF n < MaxAttempts THEN n ELSE MaxAttempts

\* fail() of an attempt that is not the last sets a new next_retry_at.
Apply(s) ==
    LET t   == send[s]
        new == IF t.call = "complete" THEN Completed(t.read) ELSE Failed(t.read)
    IN  IF row[t.of].status = "deleted"
        THEN UNCHANGED <<row, young, waiting, leaseOld, reports>>
        ELSE /\ row' = [row EXCEPT ![t.of] = Updated(t.of, t.read, new)]
             /\ young' = young \ {t.of}
             /\ waiting' = IF row'[t.of].status = "failed" /\ t.call = "fail"
                             /\ ~Exhausted(new.attempts)
                          THEN waiting \cup {t.of}
                          ELSE {d \in waiting : row'[d].status = "failed"}
             /\ leaseOld' = {d \in leaseOld : row'[d].leasedBy # NoInstance}
             /\ reports' = IF t.call = "fail"
                          THEN [reports EXCEPT ![t.of] = Capped(@ + 1)] ELSE reports

Commit(s) ==
    /\ send[s].phase = "commit"
    /\ Apply(s)
    /\ send' = [send EXCEPT ![s] = Idle]
    /\ UNCHANGED <<worker, claim, dbErrors, accepted>>

\* A database error in complete() or fail(), before or after the commit took
\* effect.  Inside the try it is caught and reported with fail(); inside the
\* handler it ends the task.
DbError(s) ==
    /\ send[s].phase = "commit" /\ dbErrors < MaxDbErrors
    /\ Apply(s) \/ UNCHANGED <<row, young, waiting, leaseOld, reports>>
    /\ send' = [send EXCEPT ![s] =
                  IF @.handled
                  THEN [@ EXCEPT !.call = "fail", !.read = row'[send[s].of], !.handled = FALSE]
                  ELSE Idle]
    /\ dbErrors' = dbErrors + 1
    /\ UNCHANGED <<worker, claim, accepted>>

-----------------------------------------------------------------------------
\* cleanup_old: a settled row is deleted days after its last update, when no
\* send of it is under way any more.
CleanupOld(d) ==
    /\ row[d].status \in {"sent", "dead"}
    /\ \A s \in Sends : send[s] # Idle => send[s].of # d
    /\ \A i \in HookInstances : d \notin claim[i].rows
    /\ row' = [row EXCEPT ![d] = [EmptyRow EXCEPT !.status = "deleted"]]
    /\ leaseOld' = leaseOld \ {d}
    /\ UNCHANGED <<young, waiting, worker, claim, send, dbErrors, accepted, reports>>

\* start: instance_id is a fresh uuid in every process.
StartWorker(i) ==
    /\ worker[i] = "unborn"
    /\ worker' = [worker EXCEPT ![i] = "up"]
    /\ UNCHANGED <<row, young, waiting, leaseOld, claim, send, dbErrors, accepted, reports>>

\* The tasks that end with the process.
Cancelled(i) == {s \in Sends : send[s] # Idle /\ send[s].by = i}

\* A crash, or close(): the loops are cancelled, the tasks that the drain does
\* not see end are cancelled too, wherever they are.
StopWorker(i) ==
    /\ worker[i] = "up"
    /\ worker' = [worker EXCEPT ![i] = "gone"]
    /\ claim' = [claim EXCEPT ![i] = NoClaim]
    /\ send' = [s \in Sends |-> IF s \in Cancelled(i) THEN Idle ELSE send[s]]
    /\ UNCHANGED <<row, young, waiting, leaseOld, dbErrors, accepted, reports>>

HookNext ==
    \/ \E d \in Deliveries :
         \/ Enqueue(d) \/ GrowsOld(d) \/ RetryDue(d) \/ LeaseAges(d) \/ CleanupOld(d)
    \/ \E i \in HookInstances :
         \/ ClaimRead(i) \/ ClaimCommit(i) \/ StartWorker(i) \/ StopWorker(i)
    \/ \E s \in Sends : Answer(s) \/ Commit(s) \/ DbError(s)

HookSpec == HookInit /\ [][HookNext]_hookVars

\* Time passes, a running worker polls, a POST ends within its timeout, and a
\* session commits or fails.
HookFairness ==
    /\ \A d \in Deliveries : /\ WF_hookVars(GrowsOld(d)) /\ WF_hookVars(RetryDue(d))
                             /\ WF_hookVars(LeaseAges(d))
    /\ \A i \in HookInstances : /\ WF_hookVars(ClaimRead(i))
                                /\ WF_hookVars(ClaimCommit(i))
    /\ \A s \in Sends : WF_hookVars(Answer(s)) /\ WF_hookVars(Commit(s))

HookFairSpec == HookSpec /\ HookFairness

-----------------------------------------------------------------------------
\* A row says "sent" only if a receiver has accepted the delivery, whichever
\* of the overlapping sends wrote the row last (event_hook_delivery.py:373).
HookSentAccepted == \A d \in Deliveries : row[d].status = "sent" => d \in accepted

\* A delivery is given up only after max_attempts failures were recorded for
\* it, although overlapping failures overwrite each other's count
\* (event_hook_delivery.py:263).
HookDeadAfterFailures ==
    \A d \in Deliveries : row[d].status = "dead" => reports[d] >= MaxAttempts

\* A delivery that is waiting is settled, one way or the other, even if the
\* instance that leased it is gone, as long as some worker remains
\* (event_hook_delivery.py:212).
HookSettles ==
    \A d \in Deliveries :
      Unsettled(d) ~> ~Unsettled(d) \/ \A i \in HookInstances : worker[i] # "up"
=============================================================================
