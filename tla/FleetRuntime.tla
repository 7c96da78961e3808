---------------------------- MODULE FleetRuntime ----------------------------
(***************************************************************************)
(* The coordinators that submit agent tasks to the gateway through the     *)
(* fleet (examples/mcp_server/fleet_runtime.py), with the submitter they   *)
(* run in a thread (project_run_agent of agent_tools.py), the attempt      *)
(* identity it keeps (task_candidate.py), and what the gateway promises:   *)
(* one job per submission key.                                             *)
(*                                                                         *)
(* A submit is: admission; the thread, which resolves the attempt, marks   *)
(* the lease, sends the request, records the job and, for a synchronous    *)
(* caller, waits for it; the bind.  Calls of one task share its lease.     *)
(* Only run_agent with an enabled router has an observer for the end of a  *)
(* job: the calls and the sweeps of any other caller are "unrouted".       *)
(* The sweeps that precede an admission, and reconcile, act on rows they   *)
(* listed before; every row they act on is fenced by its token and no      *)
(* lease returns to an earlier state, so they are steps on current rows.   *)
(***************************************************************************)
EXTENDS FleetState

CONSTANTS
    Coordinators,   \* MCP server processes
    Calls,          \* calls of submit that may be under way at the same time
    Callers,        \* kinds of caller: "async", "sync", "unrouted" or fewer
    Attempts,       \* attempt ids that may be drawn
    Capacity,       \* coordinator -> configured capacity
    GateSize,       \* gateway_io_concurrency
    Plane           \* "gateway" and "executor", or fewer

\* The submission key holds the task and the attempt, and the gateway has one
\* job per key: a job is named by its key.
KeyedJobs == Tasks \X Attempts

AttemptFiles == [id : Attempts, bound : BOOLEAN]

ASSUME FleetRuntimeAssumption ==
    /\ JobIds = KeyedJobs
    /\ Plane \subseteq {"gateway", "executor"}
    /\ Callers \subseteq {"async", "sync", "unrouted"}
    /\ Parts = Plane \cup Coordinators
    /\ Capacity \in [Coordinators -> Capacities]
    /\ GateSize \in Nat \ {0}
    /\ IsFiniteSet(Calls) /\ Coordinators # {} /\ Attempts # {}
    /\ NoRow \notin AttemptFiles \cup Attempts

VARIABLES
    mode,       \* coordinator -> "up", "closing" or "down"
    permits,    \* coordinator -> free permits of _gateway_io_gate
    watch,      \* coordinator -> job -> its watcher in _watchers_by_job
    told,       \* coordinator -> _observed_terminal_jobs
    call,       \* call -> where it is and what it holds
    attempt,    \* attempt binding file of a task
    wire,       \* submissions under way to the gateway
    job,        \* gateway: job -> its state
    dispatched, \* ghost: lease tokens under which a request was sent
    heard,      \* ghost: jobs whose end the router was told of
    unheard     \* ghost: jobs whose lease an unrouted caller released

procVars == <<mode, permits, watch, told, call>>
gatewayVars == <<wire, job>>
ghosts == <<dispatched, heard, unheard>>
vars == <<tables, procVars, attempt, gatewayVars, ghosts>>

NoCall == [pc |-> "idle"]

CallStates ==
    [pc : {"thread", "mark", "send", "wait", "record", "await", "bind", "undo", "local"},
     c : Coordinators, t : Tasks, k : LeaseTokens, a : Attempts \cup {NoRow},
     retry : BOOLEAN, how : Callers \cup {"accounted"}]

\* A watcher has an observer, or has none because the synchronous caller has
\* told the router already, or because its caller has none to give.
Watchers == {"none", "observed", "accounted", "unrouted"}

JobStates == {"none", "running", "completed", "missing"}

\* Calls that hold a permit of the gate.
Threads(c) == {i \in Calls : call[i] # NoCall /\ call[i].c = c
                   /\ call[i].pc \in {"thread", "mark", "send", "wait", "record", "await"}}

TypeOK ==
    /\ TablesTypeOK
    /\ mode \in [Coordinators -> {"up", "closing", "down"}]
    /\ permits \in [Coordinators -> 0 .. GateSize]
    /\ \A c \in Coordinators : permits[c] + Cardinality(Threads(c)) = GateSize
    /\ watch \in [Coordinators -> [KeyedJobs -> Watchers]]
    /\ told \in [Coordinators -> SUBSET KeyedJobs]
    /\ call \in [Calls -> CallStates \cup {NoCall}]
    /\ attempt \in [Tasks -> AttemptFiles \cup {NoRow}]
    /\ wire \subseteq KeyedJobs
    /\ job \in [KeyedJobs -> JobStates]
    /\ dispatched \subseteq LeaseTokens /\ heard \cup unheard \subseteq KeyedJobs

NoWatchers == [j \in KeyedJobs |-> "none"]

Init ==
    /\ TablesInit
    /\ mode = [c \in Coordinators |-> "up"]
    /\ permits = [c \in Coordinators |-> GateSize]
    /\ watch = [c \in Coordinators |-> NoWatchers]
    /\ told = [c \in Coordinators |-> {}]
    /\ call = [i \in Calls |-> NoCall]
    /\ attempt = [t \in Tasks |-> NoRow]
    /\ wire = {} /\ job = [j \in KeyedJobs |-> "none"]
    /\ dispatched = {} /\ heard = {} /\ unheard = {}

----------------------------------------------------------------------------
(* Calls *)

At(i, pc) == call[i].pc = pc
Goto(i, pc) == call' = [call EXCEPT ![i].pc = pc]
Return(i) == call' = [call EXCEPT ![i] = NoCall]

\* The job that the request of a call is submitted as.
JobOf(i) == <<call[i].t, call[i].a>>

\* The watcher that a caller asks for.
WatcherOf(how) == IF how \in {"accounted", "unrouted"} THEN how ELSE "observed"

\* _track_watcher: the first one stays, and none starts once the runtime closes.
Tracked(c, j, w) ==
    IF mode[c] = "up" /\ watch[c][j] = "none" THEN [watch EXCEPT ![c][j] = w] ELSE watch

\* submit, up to the thread.  The caller holds a permit while it asks for a slot
\* and keeps it only when it goes on to the thread.
SubmitAdmit(i, c, t, how) ==
    LET r == Admission(t, Capacity[c])
        goes == \/ r = "admitted"
                \/ r = "existing" /\ lease[t].job = NoJob
                                  /\ lease[t].submit_state # "legacy_unknown"
    IN /\ mode[c] = "up" /\ call[i] = NoCall /\ permits[c] > 0
       /\ acquire_slot(t, Capacity[c])
       /\ IF goes
          THEN /\ call' = [call EXCEPT ![i] =
                    [pc |-> "thread", c |-> c, t |-> t, k |-> lease'[t].token,
                     a |-> NoRow, retry |-> lease'[t].submit_state = "attempted", how |-> how]]
               /\ permits' = [permits EXCEPT ![c] = @ - 1]
               /\ UNCHANGED watch
          ELSE /\ watch' = IF r = "existing" /\ lease[t].job # NoJob
                           THEN Tracked(c, lease[t].job, WatcherOf(how)) ELSE watch
               /\ UNCHANGED <<call, permits>>
       /\ UNCHANGED <<mode, told, attempt, gatewayVars, ghosts>>

\* Mutant: the file of an earlier call is not looked at.
ResolvedAttempt_ignores_file(t) == {[id |-> a, bound |-> FALSE] : a \in Attempts}

\* resolve_task_attempt_identity, under a lock of all processes: the file of the
\* task, or a new one with an id drawn at random.
ResolvedAttempt(t) ==
    IF attempt[t] # NoRow THEN {attempt[t]}
    ELSE {[id |-> a, bound |-> FALSE] : a \in Attempts}

\* The thread, before the gateway is involved.  A recorded job is not submitted
\* again; the first dispatch of a lease is marked, a repeated one is not, which is
\* all that retry is for.
SubmitResolve(i) ==
    LET t == call[i].t
    IN /\ At(i, "thread")
       /\ \E file \in ResolvedAttempt(t) :
             /\ attempt' = [attempt EXCEPT ![t] = file]
             /\ call' = [call EXCEPT ![i].a = file.id, ![i].retry = FALSE,
                                     ![i].pc = CASE file.bound    -> "record"
                                                 [] call[i].retry -> "send"
                                                 [] OTHER         -> "mark"]
       /\ UNCHANGED <<tables, mode, permits, watch, told, gatewayVars, ghosts>>

\* The thread ends with a local "error" or "blocked" result (no task file, no
\* plan, no backend available, the content is not the attempt's, or an attempt
\* that could not be stored, though its file may be in place).
SubmitLocalEnd(i) ==
    /\ At(i, "thread")
    /\ Goto(i, "local")
    /\ permits' = [permits EXCEPT ![call[i].c] = @ + 1]
    /\ \/ UNCHANGED attempt
       \/ \E file \in ResolvedAttempt(call[i].t) :
             attempt' = [attempt EXCEPT ![call[i].t] = file]
    /\ UNCHANGED <<tables, mode, watch, told, gatewayVars, ghosts>>

\* Mutant: the permit is given back only when the thread returns.
SubmitRaise_keeps_permit(i) ==
    /\ At(i, "thread")
    /\ IF call[i].retry THEN Return(i) ELSE Goto(i, "undo")
    /\ UNCHANGED <<tables, mode, permits, watch, told, attempt, gatewayVars, ghosts>>

\* The thread raises before the mark.
SubmitRaise(i) ==
    /\ At(i, "thread")
    /\ IF call[i].retry THEN Return(i) ELSE Goto(i, "undo")
    /\ permits' = [permits EXCEPT ![call[i].c] = @ + 1]
    /\ UNCHANGED <<tables, mode, watch, told, attempt, gatewayVars, ghosts>>

\* _before_gateway_dispatch.  When the row no longer matches it raises in the
\* thread.  It also raises when the answer of the database is lost, whether or
\* not the update was committed.
SubmitMark(i) ==
    LET t == call[i].t
        k == call[i].k
    IN /\ At(i, "mark")
       /\ \/ /\ Markable(t, k)
             /\ mark_submit_attempted(t, k)
             /\ Goto(i, "send")
             /\ UNCHANGED permits
          \/ /\ Markable(t, k)
             /\ mark_submit_attempted(t, k)
             /\ Goto(i, "undo")
             /\ permits' = [permits EXCEPT ![call[i].c] = @ + 1]
          \/ /\ UNCHANGED tables
             /\ Goto(i, "undo")
             /\ permits' = [permits EXCEPT ![call[i].c] = @ + 1]
       /\ UNCHANGED <<mode, watch, told, attempt, gatewayVars, ghosts>>

\* The thread raised and nothing was marked as far as this call knows: the lease
\* is given back if the row proves it.  A failure here is swallowed.
SubmitUndo(i) ==
    /\ At(i, "undo")
    /\ \/ release_never_dispatched(call[i].t, call[i].k)
       \/ UNCHANGED tables
    /\ Return(i)
    /\ UNCHANGED <<mode, permits, watch, told, attempt, gatewayVars, ghosts>>

\* A local terminal result is written as the task's outcome; no job is expected.
SubmitLocalComplete(i) ==
    /\ At(i, "local")
    /\ complete_task(call[i].t, call[i].k, "error", NoJob)
    /\ Return(i)
    /\ UNCHANGED <<mode, permits, watch, told, attempt, gatewayVars, ghosts>>

\* _submit_same_key_retry: the request goes out, possibly more than once.
SubmitSend(i) ==
    /\ At(i, "send")
    /\ wire' = wire \cup {JobOf(i)}
    /\ dispatched' = dispatched \cup {call[i].k}
    /\ Goto(i, "wait")
    /\ UNCHANGED <<tables, mode, permits, watch, told, attempt, job, heard, unheard>>

\* The gateway answers with the job of the key,
SubmitAnswered(i) ==
    /\ At(i, "wait")
    /\ job[JobOf(i)] # "none"
    /\ Goto(i, "record")
    /\ UNCHANGED <<tables, mode, permits, watch, told, attempt, gatewayVars, ghosts>>

\* or no answer arrives: "not-accepted", and the lease is kept.
SubmitNotAccepted(i) ==
    /\ At(i, "wait")
    /\ Return(i)
    /\ permits' = [permits EXCEPT ![call[i].c] = @ + 1]
    /\ UNCHANGED <<tables, mode, watch, told, attempt, gatewayVars, ghosts>>

\* bind_task_attempt_job.  When the file, or the copy for the executor, cannot be
\* written the result is an "error" that still carries the job.
SubmitRecord(i) ==
    LET t == call[i].t
    IN /\ At(i, "record")
       /\ \/ /\ attempt' = [attempt EXCEPT ![t].bound = TRUE]
             /\ call[i].how = "sync"
             /\ Goto(i, "await")
             /\ UNCHANGED permits
          \/ /\ \/ attempt' = [attempt EXCEPT ![t].bound = TRUE]
                \/ UNCHANGED attempt
             /\ Goto(i, "bind")
             /\ permits' = [permits EXCEPT ![call[i].c] = @ + 1]
       /\ UNCHANGED <<tables, mode, watch, told, gatewayVars, ghosts>>

\* Mutant: the caller of a synchronous submit is thought to have seen the end of
\* the job even when its wait timed out.
Unfinished_counts_as_accounted(i) ==
    /\ call' = [call EXCEPT ![i].pc = "bind", ![i].how = "accounted"]
    /\ UNCHANGED heard

\* The wait ends without an end of the job: "running" or "unknown".
Unfinished(i) == Goto(i, "bind") /\ UNCHANGED heard

\* A synchronous caller waits for the job and tells the router itself.  An end
\* without an exit code is an "error", which the watcher tells again.
SubmitAwait(i) ==
    /\ At(i, "await")
    /\ \/ /\ job[JobOf(i)] = "completed"
          /\ heard' = heard \cup {JobOf(i)}
          /\ \E how \in {"accounted", call[i].how} :
                call' = [call EXCEPT ![i].pc = "bind", ![i].how = how]
       \/ Unfinished(i)
    /\ permits' = [permits EXCEPT ![call[i].c] = @ + 1]
    /\ UNCHANGED <<tables, mode, watch, told, attempt, gatewayVars, dispatched, unheard>>

\* The thread is back with a job.  A bind that raises leaves the lease alone, or
\* loses the answer of an update that was committed.
SubmitBind(i) ==
    LET t == call[i].t
        c == call[i].c
        j == JobOf(i)
    IN /\ At(i, "bind")
       /\ \/ /\ Bindable(t, call[i].k, j)
             /\ bind_job(t, call[i].k, j)
             /\ watch' \in {watch, Tracked(c, j, WatcherOf(call[i].how))}
          \/ UNCHANGED <<tables, watch>>
       /\ Return(i)
       /\ UNCHANGED <<mode, permits, told, attempt, gatewayVars, ghosts>>

CallStep(i) ==
    \/ SubmitResolve(i) \/ SubmitLocalEnd(i) \/ SubmitRaise(i)
    \/ SubmitMark(i) \/ SubmitUndo(i) \/ SubmitSend(i)
    \/ SubmitAnswered(i) \/ SubmitNotAccepted(i) \/ SubmitRecord(i) \/ SubmitAwait(i)
    \/ SubmitBind(i) \/ SubmitLocalComplete(i)

----------------------------------------------------------------------------
(* Watchers, sweeps and the operator *)

BoundTo(t, j) == lease[t] # NoRow /\ lease[t].job = j
Bound(j) == BoundTo(j[1], j)

Ended(j) == job[j] \in {"completed", "missing"}

\* The gateway no longer knows the job: JOB_NOT_FOUND is a terminal "ambiguous".
TerminalStatus(j) == IF job[j] = "missing" THEN "ambiguous" ELSE job[j]

\* sweep_unbound_leases: a lease that was never dispatched is given back;
SweepReclaim(c, t) ==
    /\ mode[c] = "up" /\ lease[t] # NoRow
    /\ Reclaimable(t, lease[t].token)
    /\ release_never_dispatched(t, lease[t].token)
    /\ UNCHANGED <<procVars, attempt, gatewayVars, ghosts>>

\* the trusted resolver asks the gateway for the job under the key of the attempt,
\* or, when no attempt is known, for the one job of any attempt of the task;
Resolved(t) ==
    LET ids == IF attempt[t] # NoRow THEN {attempt[t].id} ELSE Attempts
    IN {<<t, a>> : a \in {b \in ids : job[<<t, b>>] # "none"}}

\* and the job is bound to a lease that may have been dispatched.
SweepBind(c, t) ==
    /\ mode[c] = "up" /\ lease[t] # NoRow /\ lease[t].job = NoJob
    /\ lease[t].submit_state \in {"attempted", "legacy_unknown"}
    /\ \E j \in KeyedJobs :
          /\ Resolved(t) = {j}
          /\ Bindable(t, lease[t].token, j)
          /\ bind_job(t, lease[t].token, j)
    /\ UNCHANGED <<procVars, attempt, gatewayVars, ghosts>>

\* A sweep belongs to a caller, and has its observer or none.
Sweepers == {WatcherOf(how) : how \in Callers}

\* sweep_bound_leases restores the watcher of a job that has not ended, or whose
\* status, result, observer or release failed.
SweepTrack(c, j) ==
    /\ mode[c] = "up" /\ Bound(j)
    /\ \E w \in Sweepers : watch' = Tracked(c, j, w)
    /\ UNCHANGED <<tables, mode, permits, told, call, attempt, gatewayVars, ghosts>>

\* A watcher or a sweep has seen that the job ended and tells its observer, once
\* per process.  The poll itself needs a permit.  A failed poll or observer
\* changes nothing and is repeated.
NotifyObserver(c, j) ==
    /\ mode[c] = "up"
    /\ watch[c][j] = "observed" \/ (Bound(j) /\ "observed" \in Sweepers)
    /\ permits[c] > 0 /\ Ended(j) /\ j \notin told[c]
    /\ told' = [told EXCEPT ![c] = @ \cup {j}]
    /\ heard' = heard \cup {j}
    /\ UNCHANGED <<tables, mode, permits, watch, call, attempt, gatewayVars,
                   dispatched, unheard>>

\* Nobody is told when there is no observer.
MayRelease(c, j, w) ==
    /\ mode[c] = "up" /\ Ended(j)
    /\ IF w = "observed" THEN j \in told[c] ELSE permits[c] > 0

\* Mutant: the watcher returns although the release failed.
Released_or_not(c, j) == UNCHANGED tables

\* complete_task with the job as the expected one, or nothing when the lease of
\* the job is gone (reconcile_gateway_result).
Released(c, j) ==
    IF Bound(j)
    THEN complete_task(j[1], lease[j[1]].token, TerminalStatus(j), j)
    ELSE UNCHANGED tables

\* The end of a watcher,
WatcherSettles(c, j) ==
    LET w == watch[c][j]
    IN /\ w # "none" /\ MayRelease(c, j, w)
       /\ Released(c, j)
       /\ unheard' = IF Bound(j) /\ w = "unrouted" THEN unheard \cup {j} ELSE unheard
       /\ watch' = [watch EXCEPT ![c][j] = "none"]
       /\ UNCHANGED <<mode, permits, told, call, attempt, gatewayVars, dispatched, heard>>

\* and of a sweep's work on one lease; a watcher of the job finds it gone.
SweepSettles(c, j) ==
    /\ Bound(j)
    /\ \E w \in Sweepers :
          /\ MayRelease(c, j, w)
          /\ Released(c, j)
          /\ unheard' = IF w = "unrouted" THEN unheard \cup {j} ELSE unheard
    /\ UNCHANGED <<procVars, attempt, gatewayVars, dispatched, heard>>

\* reconcile_unbound_lease, asked for by an operator after a clean miss of the
\* resolver: the lease is terminal when the whole plane has been replaced.
OperatorReconcile(c, t) ==
    /\ mode[c] = "up" /\ lease[t] # NoRow
    /\ Resolved(t) = {}
    /\ Superseded(t, lease[t].token, Plane \cup {c})
    /\ terminalize_superseded(t, lease[t].token)
    /\ UNCHANGED <<procVars, attempt, gatewayVars, ghosts>>

\* FleetState methods that nothing in the runtime calls.
Heartbeat(t) ==
    /\ lease[t] # NoRow
    /\ heartbeat(t, lease[t].token)
    /\ UNCHANGED <<procVars, attempt, gatewayVars, ghosts>>

ConfigurePool(new, expected) ==
    /\ configure_pool(new, expected)
    /\ UNCHANGED <<procVars, attempt, gatewayVars, ghosts>>

----------------------------------------------------------------------------
(* Processes *)

\* close cancels the watchers and starts no new one; calls under way go on.
Close(c) ==
    /\ mode[c] = "up"
    /\ mode' = [mode EXCEPT ![c] = "closing"]
    /\ watch' = [watch EXCEPT ![c] = NoWatchers]
    /\ UNCHANGED <<tables, permits, told, call, attempt, gatewayVars, ghosts>>

\* The process ends, by itself or not; requests it has sent may still arrive.
Stop(c) ==
    /\ mode[c] # "down"
    /\ mode' = [mode EXCEPT ![c] = "down"]
    /\ watch' = [watch EXCEPT ![c] = NoWatchers]
    /\ told' = [told EXCEPT ![c] = {}]
    /\ permits' = [permits EXCEPT ![c] = GateSize]
    /\ call' = [i \in Calls |->
                  IF call[i] # NoCall /\ call[i].c = c THEN NoCall ELSE call[i]]
    /\ UNCHANGED <<tables, attempt, gatewayVars, ghosts>>

Start(c) ==
    /\ mode[c] = "down"
    /\ mode' = [mode EXCEPT ![c] = "up"]
    /\ lease' = Replaced(c)
    /\ UNCHANGED <<capacity, outcome, tombs, drawn, permits, watch, told, call,
                   attempt, gatewayVars, ghosts>>

\* The gateway: it accepts a submission, as the job that its key already has if
\* there is one; it loses one; a job ends; a job is forgotten, ended or not.
GatewayAccept(j) ==
    /\ j \in wire /\ wire' = wire \ {j}
    /\ job' = [job EXCEPT ![j] = IF @ = "none" THEN "running" ELSE @]
    /\ UNCHANGED <<tables, procVars, attempt, ghosts>>

GatewayLose(j) ==
    /\ j \in wire /\ wire' = wire \ {j}
    /\ UNCHANGED <<tables, procVars, attempt, job, ghosts>>

JobEnds(j) ==
    /\ job[j] = "running"
    /\ job' = [job EXCEPT ![j] = "completed"]
    /\ UNCHANGED <<tables, procVars, attempt, wire, ghosts>>

GatewayForgets(j) ==
    /\ job[j] \in {"running", "completed"}
    /\ job' = [job EXCEPT ![j] = "missing"]
    /\ UNCHANGED <<tables, procVars, attempt, wire, ghosts>>

\* The gateway or the executor is replaced: requests under way to the one, and
\* the workers of the other, do not survive.
Replace(p) ==
    /\ lease' = Replaced(p)
    /\ wire' = IF p = "gateway" THEN {} ELSE wire
    /\ job' = IF p = "executor"
              THEN [j \in KeyedJobs |-> IF job[j] = "running" THEN "completed" ELSE job[j]]
              ELSE job
    /\ UNCHANGED <<capacity, outcome, tombs, drawn, procVars, attempt, ghosts>>

Gateway ==
    \/ \E j \in KeyedJobs :
          GatewayAccept(j) \/ GatewayLose(j) \/ JobEnds(j) \/ GatewayForgets(j)
    \/ \E p \in Plane : Replace(p)

Coordinator(c) ==
    \/ \E i \in Calls, t \in Tasks, how \in Callers : SubmitAdmit(i, c, t, how)
    \/ \E t \in Tasks : SweepReclaim(c, t) \/ SweepBind(c, t) \/ OperatorReconcile(c, t)
    \/ \E j \in KeyedJobs : SweepTrack(c, j) \/ NotifyObserver(c, j)
                             \/ WatcherSettles(c, j) \/ SweepSettles(c, j)
    \/ Close(c) \/ Stop(c) \/ Start(c)

Next ==
    \/ \E c \in Coordinators : Coordinator(c)
    \/ \E i \in Calls : CallStep(i)
    \/ Gateway
    \/ \E t \in Tasks : Heartbeat(t)
    \/ \E new, expected \in Capacities : ConfigurePool(new, expected)

\* A watcher polls until it has released its lease, and a thread runs to its
\* end.  The gate is a fair semaphore, so a watcher that keeps asking gets a
\* permit.  Nothing else is assumed: calls, sweeps and the gateway may stop.
Fairness ==
    /\ \A i \in Calls : WF_vars(CallStep(i))
    /\ \A c \in Coordinators, j \in KeyedJobs :
          /\ SF_vars(watch[c][j] = "observed" /\ NotifyObserver(c, j))
          /\ SF_vars(WatcherSettles(c, j))

Spec == Init /\ [][Next]_vars
FairSpec == Spec /\ Fairness

----------------------------------------------------------------------------
(* Properties *)

\* The pool never has more leases than the largest capacity that a coordinator
\* is configured with, whatever admissions, reclaims and releases interleave
\* (acquire_slot; releases do not lock the pool).
WithinCapacity ==
    \E c \in Coordinators : Cardinality(Active) <= Capacity[c]

\* One task is one execution: calls that share a lease, repeat a lost submission
\* or follow a restart never make the gateway start a second worker
\* (fleet_runtime.submit, resolve_task_attempt_identity).
OneWorkerPerTask ==
    \A t \in Tasks : \A a, b \in Attempts :
        job[<<t, a>>] # "none" /\ job[<<t, b>>] # "none" => a = b

\* A lease that was given back as never dispatched was not dispatched, and no
\* call that still holds its token will send a request: the sweep and the mark
\* race for the same row (release_never_dispatched, mark_submit_attempted).
ReclaimedNeverDispatched ==
    \A k \in LeaseTokens : tombs[k] = "never_dispatched" =>
        /\ k \notin dispatched
        /\ \A i \in Calls : call[i] # NoCall /\ call[i].k = k => ~At(i, "send")

\* The slot of a running worker is free only when its task has an outcome: calls
\* that fail, sweeps, restarts and lost answers do not free it, and the task is
\* not admitted a second time (submit, sweep_unbound_leases).
WorkerLeasedOrTerminal ==
    \A j \in KeyedJobs : job[j] = "running" =>
        lease[j[1]] # NoRow \/ outcome[j[1]] # NoRow

\* When the outcome of a task names a job, that job is over at the gateway, and
\* the router was told before the slot was released: by an observer, or by the
\* synchronous caller that drops its observer for that reason.  Nobody is told
\* when the caller that releases has no observer (run_opencode, or no router),
\* and the outcome may also be the local "error" of another call
\* (reconcile_gateway_result, sweep_bound_leases, should_observe_current_job).
ReleasedWhenEnded ==
    \A t \in Tasks : outcome[t] # NoRow /\ outcome[t].status # "error"
                                        /\ outcome[t].job # NoJob =>
        Ended(outcome[t].job) /\ outcome[t].job \in heard \cup unheard

\* The slot of an ended job is released as long as the process that watches it
\* lives (_watch_gateway_job).
WatchedJobReleased ==
    \A c \in Coordinators, j \in KeyedJobs :
        (watch[c][j] # "none" /\ Ended(j) /\ Bound(j)) ~> (~Bound(j) \/ mode[c] # "up")

\* A running worker occupies a slot: "Slots are released only after an
\* authoritative terminal gateway result or a definite pre-submit terminal
\* result" (fleet_runtime.py).
WorkerHoldsSlot == \A j \in KeyedJobs : job[j] = "running" => lease[j[1]] # NoRow
=============================================================================
