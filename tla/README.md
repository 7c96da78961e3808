# Verification of agent-ssh-gateway

TLA+ models of the gateway and of the coordination core of its MCP server, model-checked with TLC
on small instances; every safety property is also proved with TLAPS for every instance.
Everything is translated from the code under `src/`; `PROJECT.json` names, for every definition,
the lines it stands for.

## 1. The system

agent-ssh-gateway is a FastAPI service that lets agents run commands on remote hosts over SSH.
One process is one asyncio event loop; several processes ("gateways") may share one Redis and one
PostgreSQL. An MCP server (`examples/mcp_server`) runs agents on top of it: it admits their tasks
to a bounded fleet, submits them to the gateway, and keeps the clones and files they work on.

| Part | State | Operations | Interacts with |
|---|---|---|---|
| Job manager (`app/job_manager.py`) | `_jobs` (JobRecords), `_job_tasks`, `_session_leases`, one lock | `create_job`, `_run_job`, `cancel_job`, `recover_job`, `cleanup_old_jobs`, `force_cleanup`, `wait_for_*` | store, SSH manager, events |
| Durable job store (`app/redis_queue.py`) | submission claims, job envelopes, processing/completed/dead zsets, lease keys | Lua scripts: reserve, claim, heartbeat, cancel, finish, reconcile, list; plain SET of terminal snapshots | Redis |
| Lifespan (`app/main.py`) | process-wide state | session restore, startup recovery, drain, forced cleanup | all |
| SSH sessions and pool (`app/ssh_manager.py`, `ssh_pool.py`) | session map, `active_operations`, per-address reservations, idle transports | connect, reuse, execute, disconnect, reaping, closing a denied caller's sessions | breaker, access control, hosts |
| Circuit breaker (`app/circuit_breaker.py`) | state, counters per host, LRU registry | `can_execute`, `record_success`, `record_failure`, eviction | SSH manager |
| Event hooks (`app/event_hook_delivery.py`) | outbox rows with lease and attempts | enqueue, claim, send, complete, fail, cleanup | PostgreSQL, receivers |
| Access control, approvals (`access_control.py`, `policy_ask.py`) | decisions with expiry, mirrored to Redis; pending requests | decide, clear, expire, mirror, load; ask, approve, consume | gate of every command |
| Fleet (`examples/mcp_server/fleet_state.py`, `fleet_runtime.py`) | pool, worker leases, outcomes, tombstones; watchers and a gate per process | admit, mark, bind, complete, reclaim, sweep, reconcile | PostgreSQL, gateway |
| Agent submission (`agent_tools.py`, `task_candidate.py`) | attempt identity of a task | resolve, submit under the attempt key, record the job | fleet, gateway |
| File integration (`supervisor_integration.py`) | target file, journal, backup, lock | integrate, roll back, recover | file system |
| Candidate clones (`candidate_clone.py`) | clone directories, registry, metadata, tombstones, lineage lock | prepare, adopt, clean up | git, remote |
| The rest | see `components` in `PROJECT.json` | | |

Hard behaviours: the awaits of `create_job`, `_run_job` and `cancel_job` interleave in one
process; claims, renewals and finishes of several processes interleave in Redis; processes die
between any two steps and restart; Redis calls fail before or after they were executed; leases
run out while their owner still works; shutdown cancels tasks wherever they are; a submission's
answer is lost although the job runs; database sessions read, await and write without row locks;
fire-and-forget tasks overtake each other; power fails while a file is overwritten in place.

What makes it correct: an acknowledged submission is one durable job, executed by one owner at a
time and not replayed while its owner may be alive; only the owner publishes its outcome;
cancellation is honest; leases, reservations, permits and slots are balanced; a task has one
worker and its slot is held while it runs; a session uses the credential it was opened with;
decisions survive a restart; no content and no unsaved work is lost; what was accepted settles.

## 2. Modules

| Module | What it is |
|---|---|
| `RedisJobQueue` | The job store: one operator per Lua script or command, plus the answers. |
| `JobManager` | The gateways over that store: requests, tasks, cancellation, recovery, drain, forced cleanup, crash, time. |
| `JobLedger` | Abstract specification of what the store promises about a job; `JobManager` refines it. |
| `JobManagerTypes`, `JobManagerReplay`, `JobManagerPromises` | TLAPS: `TypeOK`; the inductive invariant and `NoBlindReplay`; everything else that `JobManager` promises, and the refinement of `JobLedger`. |
| `CircuitBreaker`, `CircuitBreakerProofs` | Breakers of several hosts with the connects that use them; TLAPS proofs. |
| `SshSessions`, `SshSessionsProofs` | Admission, reservation, pool, commands, reaping, disconnect, denial; TLAPS proofs. |
| `AccessControl` | Decisions and their Redis mirror, restart, the command gate, approvals. |
| `EventHooks` | The outbox and the workers of several instances. |
| `ServicesProofs` | TLAPS: `AccessControl` and `EventHooks`, and `MCServices` as a composition. |
| `FleetState`, `FleetRuntime`, `FleetProofs` | The tables, one operator per transaction; the coordinators, their submitter threads, and what the gateway promises. `FleetRuntime` is built on `FleetState`; TLAPS proofs. |
| `FileIntegration` | One target file with its journal, backup and lock. |
| `CandidateClones` | The clones of one lineage. |
| `WorkspacesProofs` | TLAPS: `FileIntegration` and `CandidateClones`, and `MCWorkspaces` as a composition. |
| `MCJobManager`, `MCFleet`, `MCServices`, `MCWorkspaces`, `MCProgress` | Constants for TLC. The last three hold several modules that share no state: `focus` chooses which one a behaviour is about. |

### How state and actions correspond to the code

**Jobs.** A *worker* `<<g, j>>` is the `JobRecord` of job `j` in gateway `g` together with its
task: `mem`, `durable`, `st`, `cancelEv`, `doneEv`, `exit` and the task's suspension point `pc`. A
process creates at most one task per job id, so its random `worker_token` is `<<g, number of
boots>>`. An action is what runs between two awaits that can let somebody else run, or one Redis
call; what the caller does with the answer is another action (`LoseClaim`, `ReserveReply`,
`CancelReply`): this is where the interesting interleavings are. `create_job` holds the manager's
lock across its Redis calls (`Locked`). A Redis call may fail (`RedisFault`) before or after the
store executed it. `envLease` counts ticks until `now > lease_expiry`; `Renew` is not forced to
happen in time. `Crash` forgets what a process keeps in memory; `Shutdown`, `DrainDone`,
`ForceCleanup`, `PersistCleaned`, `CleanupDone` are the graceful way down. `May` selects what
clients, operators and the clock do in a run. Abstractions: owner and payload hash are one
identity; an exit code is zero, positive, -1 or unset; texts, metrics, listeners and observability
are left out; each gateway has one SSH session that all modelled jobs name; the two scan scripts
of `list_recoverable_durable_jobs` are one step; in `LoseClaim` the completion event is set
together with the removal under the lock; the lease key of a job repeats `lease_expiry` and is not
kept.

**SSH sessions.** A session id is drawn once, so a session is its connect, then its record. What
runs under the lock of the map or of the pool is one step; dialling, returning the reservation
(the `finally` of `create_session`) and parking the transport are steps of their own. The pool is
a sequence, least recently used first; a slot past its time to live is a miss. A denial lists the
caller's sessions in one step and disconnects them later. The model assumes a pool of at least one
transport and a positive cap; without them the code skips those parts.

**Access control.** A decision is its position in the history; memory and Redis hold numbers of
decisions. A mirror task is one or two commands (HSET, then EXPIRE; or DEL), each a step, so two
tasks overtake each other. `keyTtl` is the decision whose lifetime a key has: HSET keeps it.
Approvals live in memory, are matched by command and profile, and are consumed. A command may come
from a master, who is exempt from the decisions (`access_control_enforce_master` off).

**Event hooks.** A claim, `complete()` and `fail()` each read a row, await, and commit an UPDATE of
the columns that changed; `Updated` is that lost-update semantics. Rows that an instance is
sending are not excluded from its next claim.

**Fleet.** Every `FleetState` method is one transaction that locks what it changes, hence one
operator; timestamps only serve to ask whether every process of the execution plane was replaced
since a lease was last active, so a lease keeps the set of parts *not* replaced. A call of
`submit` goes through admission, thread (attempt identity, mark, send, record) and bind; the
gateway is what `JobManager` shows it to be, one job per key (`GatewayAccept`), with lost requests
and answers. The attempt file is shared by the coordinators, as it is on one host; a call that
finds none draws any attempt (`ResolvedAttempt`). Callers differ in how the router hears of the end
of a job (`Callers`): an asynchronous `run_agent` gives its watcher an observer ("async"); a
synchronous one waits for the job and tells the router itself, and its watcher has an observer only
when that wait ended without a result ("sync"); a caller may also have no observer to give, because
the router is disabled or because it is `run_opencode`, which is admitted to the fleet when
`MCP_OPENCODE_FLEET_ADMISSION_ENABLED` is set ("unrouted"). A watcher or a sweep of an unrouted caller
releases the lease of any ended job, also of one that was submitted with an observer, and nobody is
told (`_notify_terminal_observer` returns True, `fleet_runtime.py:666`); the ghost `unheard` keeps
these jobs.

**File integration.** The file system is inodes, a journal and a backup with the state their
directory was last synced in; a target in the middle of a write is `Torn`. Creating and filling a
file are two steps. `PowerLoss` keeps or loses each unsynced directory entry independently. File
contents, once written, are taken to be on disk.

**Candidate clones.** A clone is a directory with its inode, whether `.git` is there, head, the
branch HEAD is on (its own, another, or detached), uncommitted edits, whether other refs or
unreachable objects hold anything (`extra`), and metadata. The lineage lock excludes tools, not
agents, who edit, commit, and switch branches; `Dies` ends a call anywhere.

## 3. Runs

`tlc -config <run>.cfg <module>`. Deadlock checking is off where the bounded system legitimately
stops (requests answered, boots, rounds or ids used up); `fleet`, `slot_lost` and `breaker_wedged`
check it.

| Run | Instance | Shows |
|---|---|---|
| `submissions` | 2 gateways, 2 identical keyed requests, crashes, client disconnects, 3 Redis faults | `TypeOK`, `AcksAgree`, `AcceptedRecoverable`, `OpsBalanced` |
| `failover` | 2 gateways, 1 job, crashes, expiry, cancellation | `NoBlindReplay`, `CancelledNotStarted`, `CompletedByOwner`, `OnlyOwnerFinishes`, `CancelIntentNotReplayed`, and `LedgerSpec`: `JobManager` implements `JobLedger` |
| `lifecycle` | 1 gateway, keyed and unkeyed job, 1 Redis fault, expiry, cancellation, shutdown with and without timeout, denied command, unrestored session, record cleanup | `SessionPinned`, `UnkeyedSettles` |
| `settles` | 2 gateways, fairness, expiry, denied command; 1 Redis fault, or cancellations one after the other | `AckedSettles`, `WaitersWake` |
| `fleet` | 1 coordinator that stops and restarts, 2 calls, synchronous or unrouted, 2 tasks, 1 slot, 2 attempts that any call may draw, 2 lease tokens | `TypeOK` (with the balance of the gate's permits), `WithinCapacity`, `OneWorkerPerTask`, `ReclaimedNeverDispatched`, `WorkerLeasedOrTerminal`, `ReleasedWhenEnded` |
| `progress` | 2 coordinators with different capacities, synchronous calls; 2 hook instances, 3 attempts, 1 database error | `WatchedJobReleased`, `HookSettles` |
| `services` | 3 connects over 2 hosts with room for 1 breaker; 3 sessions of 2 callers at one address with caps 1 and 2, pool of 1; 2 decisions, 2 approvals; 2 hook instances, 2 sends at a time | `ServicesTypeOK`, `ProbesBounded`, `FullWaitsForReport`, `SessionCap`, `OneHolder`, `OwnCredential`, `DeniedSessionsListed`, `MirrorAgrees`, `PassesApproved`, `HookSentAccepted`, `HookDeadAfterFailures` |
| `workspaces` | 2 calls, 3 contents, 2 inodes, 3 integrations, 3 troubles; 2 bases, 2 tools, 3 rounds | `WorkspacesTypeOK`, `TornBackedUp`, `OutcomeStands`, `WritesExpected`, `OneClonePerLineage`, `RemovesSavedWork`, `TailResumable` |

Why the bounds are enough. Jobs: the hazards need two contenders (two gateways, or a request and
its duplicate), one previous owner and one successor, one failed attempt and one retry, and one
lease that runs out (`LeaseTTL` = 1 tick: live or expired). Fleet: two calls share one lease or
compete for one slot, one token is reclaimed and one drawn after it; the second coordinator of the
code adds nothing to the tables that a restarted first one does not (every change is fenced by
token), and `progress` has two. `InBounds` of `MCFleet` allows two calls at a time, or an unrouted
caller, only while one task is in use; a synchronous caller has all the steps of an asynchronous
one. Sessions: one in the map, one dialling, one refused, and a pool
that must evict. Mirror: two tasks of one key. Hooks: two sends of one row with `MaxAttempts` 2 in
`services` and 3 in `progress`. Files: an old journal in one call's hand while a second
integration finishes and a third begins. Clones: prepare, cleanup,
and either its resumption or a new prepare; `InBounds` of `MCWorkspaces` keeps what agents do to
HEAD to one clone at a time, with one call less, no delivery and no uncommitted edit meanwhile.
Liveness: `settles` has an exit of -1 only, since the code asks of an outcome just whether it is
terminal, and `InBounds` of `MCJobManager` (`SettlesSpec`) keeps a fault and a cancellation out of
one behaviour; both freely mixed pass with one gateway and all exits. The theorems below need no
bounds.

`DeniedSessionsListed` says what the code can keep: a connect that passed the gate before the
denial may still become live (its commands are refused). `HookDeadAfterFailures` says that a dead
delivery has failed `MaxAttempts` times; the reverse does not hold, because overlapping `fail()`
calls lose updates of `attempts`. `MirrorAgrees` speaks of keys whose last change was neither
overtaken nor failed.

Four properties make exceptions that the code makes necessary:

* `UnkeyedSettles`: the comment at `job_manager.py:1122` wants the outcome of an unkeyed job in
  Redis before `completed_event` wakes its waiters. That holds when the command was started. A job
  that is cancelled or denied before (`job_manager.py:902`, `1057`, `1347`) wakes them first; the
  property then says that the command has not started, and that the mirror follows before the task
  ends.
* `AckedSettles` and `WaitersWake` except a task that is `Stranded`: the Redis call of its claim
  failed and the exception left `_run_job` before its `try` (`job_manager.py:930`), so the record
  stays as it was and `completed_event` is never set; or the answer to a cancellation arrived when
  the task was about to end or had ended and wrote "cancelling" over the outcome
  (`job_manager.py:1350`, the finding of `exit_overwritten`).
* `OneClonePerLineage`: `prepare` passes over a directory without metadata whose HEAD is on another
  branch (`candidate_clone.py:1820`). When a call died before it wrote the metadata, and an agent
  switched the branch of that clone, a second base is cloned although the recovery policy calls a
  clone "unique per exact source project and feature branch" (`candidate_clone.py:2157`); switched
  back, the lineage has two. The property speaks of clones that never were in that state (the ghost
  `strayed`).
* `RemovesSavedWork`: an edit that lands after the last verification is lost; other refs and
  unreachable objects are looked at only when a clone is abandoned.

Four more runs state what a comment or a docstring says and what the code does not do; they are
the findings of `PROJECT.json`:

| Run | Promise | What happens |
|---|---|---|
| `exit_overwritten` | a factual exit stays (`cancel_job`) | the answer to a cancellation arrives after the stream was classified and turns `completed` into `cancelling`; the finish is then skipped |
| `lost_restart` | jobs survive restarts | a gateway that is back before the old lease has run out never looks again |
| `breaker_wedged` | rejected credentials do not deny service | connects that end with an authentication error keep their half-open slots; the breaker then refuses everybody for good |
| `slot_lost` | slots are released only after a terminal or definite pre-submit result | a repeated submission that ends locally completes the task while the first request is still on its way |

**Fairness.** `FairSpec` of `JobManager`: weak fairness of each task, request and cancellation in
flight (a running event loop schedules them, and socket timeouts end every Redis call), of the
startup sequence, and of the clock; `execute_stream` has a deadline. Nothing is assumed of clients,
crashes or operators. `settles` allows no crash, because `lost_restart` shows what a crash does.
`ProgressSpec`: threads of a call run to their end (their requests have timeouts); a watcher polls
until it has released its lease, and gets a permit of the gate infinitely often because
`asyncio.Semaphore` is first in, first out (strong fairness of `NotifyObserver` and `WatcherSettles`); a hook worker
polls, its posts have a timeout, and time passes. Nothing is assumed of callers, sweeps, restarts
or the gateway; `HookSettles` asks for an instance that stays up.

### Observations without a run

The models have these behaviours; they break no property above.

* Jobs: a cancellation answered between intent check and start makes the record `cancelled`, and
  the job then runs (`job_manager.py:1344`); `force_cleanup` persists records without a token,
  also of jobs another gateway has claimed (`job_manager.py:492`); a conflict that only the
  reservation script sees is raised as `SubmissionUnavailableError` (`redis_queue.py:516`); that
  script also writes the envelope of a duplicate request (`redis_queue.py:459`); a job that an
  expired owner had started can end as durable `cancelled` when its successor sees the
  cancellation first (`job_manager.py:943`), so `CancelledNotStarted` speaks of jobs without a
  lapsed lease. `save_terminal_job` is a SET and a ZADD: a failure in between leaves a terminal
  document outside both zsets, which only statistics read (`redis_queue.py:1096`).
* Breaker: a success of a half-open period that then fails is kept in `success_count`, so a later
  period closes after fewer successes (`circuit_breaker.py:85`).
* SSH: a refused admission has removed stale sessions and does not close their clients
  (`ssh_manager.py:418`); `disconnect` parks a transport whose command is still running.
* Access: clearing an entry that memory does not hold leaves it in Redis; approvals are not bound
  to the caller that asked; between HSET and EXPIRE a key has the lifetime of its predecessor.
* Hooks: an instance claims again, at every poll, rows it is sending; a late `fail()` turns `sent`
  back into `failed` or `dead`; a refusal logged as not retryable is retried like any other
  failure.
* Fleet: repeating an attempted lease does not refresh `submit_attempted_at`; a sweep of a caller
  without observer releases a job whose own watcher would have told the router.
* File integration: a backup without a journal (crash or I/O error while the backup is written, or
  between the two unlinks) makes every later integration raise `JournalPendingError`, whose
  documentation says to run `recover_pending` (`supervisor_integration.py:95`), which looks at
  journals only; a journal that is not whole stays for ever.
* Clones: a crash between rename and metadata leaves a clone that `prepare` refuses for ever
  (`candidate_clone.py:2135`) although its receipt says "Exact-base recovery is idempotent"; a
  cleanup finished without its directory records no inode, and a clone made again of that base
  cannot be cleaned up; an `rmtree` that fails while `.git` is there is not resumable; an edit that
  lands after the second verification is lost (the exception in `RemovesSavedWork`).

## 4. Proofs

Every invariant and every action property that a passing run checks, and the refinement of
`JobLedger`, is also a theorem that `tlapm` checks, without assumptions other than the named
`ASSUME`s of the modules, which TLC evaluates in the runs. They say that distinguished values are
not members of the sets they are distinguished from, that bounds are natural numbers and tables
have their types, and that the sets whose members are counted (connects, calls, tasks, sessions,
approvals, deliveries, bases) are finite. Nothing else bounds the number of gateways, jobs,
requests, keys, hosts, coordinators, transports, inodes, crashes, faults or restarts. The inductive
invariants were checked with TLC before they were proved.

**Jobs** (`JobManagerTypes`, `JobManagerReplay`, `JobManagerPromises`).

* `TypeCorrect`: `TypeOK` is not inductive: the job that a request drew, the records in memory and
  the cancellations in flight must be members of `Jobs` when they are used, a finish in flight must
  have a terminal status as its argument, and a gateway that is down must have no tasks. `Shape`
  adds exactly this, one lemma per action group.
* `NoReplay`: a started command is a past event; to bound it one needs to know who may start one.
  `Replay` says, for a job without a lapsed lease: while the envelope is pending nothing was
  started and every task of the job is before its claim; at most one task, in whatever process, is
  between its claim and its start, and then nothing was started (`ClaimIsLock`). That a second
  claim is refused rests on three more facts: job ids are drawn once, a process that may still
  claim a job has a token that no envelope carries, and an unkeyed job has one worker. A second
  claim needs an expired lease, which puts the job in `lapsed`.
* `OneAnswerPerKey` and `RestartFinds`: the store is reached only through its scripts (`Script`),
  so these proofs split on the script that a step runs. `StoreInv` says that a claim names an
  envelope and that a processing job is in the zset; claims, once set, do not change (SET NX).
* `OwnerCompletes`: a worker that says "completed" has put its own token in `zero` (`ZeroSeen`);
  the finish is fenced by that token. `IntentStands`: only the claim changes a token, and it is
  refused when a cancellation is recorded.
* `UnkeyedSettled`: `Records` says in which process the record of an unkeyed job can be, `Unkeyed`
  what its status is at each suspension point, and where its waiters may have been woken: not while
  its command may be running, and before the mirror is written only if it never started.
* `LeasesBalance`: `Balanced` says that the three sets of lease holders are finite and that
  `active_operations` is the sum of their sizes. Each step adds or removes at most one holder, so
  finiteness is part of the invariant and no bound on requests is needed. The release never
  saturates at zero. `SessionsPinned`: a reaper that finds no operation finds no holder.
* `OwnerFinishes`, `ImplementsLedger` and `CancelledUnstarted` assume that no drain times out:
  `force_cleanup` persists its snapshots without a token, also of jobs that another gateway owns
  (`job_manager.py:492`), and then a job can leave "processing" behind its owner's back. All three
  rest on `Mirrored`: no process is in a forced cleanup, so that what is persisted unfenced belongs
  to unkeyed jobs, whose envelope is absent until then. `Held` adds that the task which claimed a job whose lease did not
  lapse is still the owner, `Intents` what a task may still report after a cancellation.

**Fleet** (`FleetProofs`). `TokensUnique`: a token is drawn once, belongs to one lease at most, and
a buried one to none. `DispatchMarked`: nothing is sent under a token that is not marked, which
gives `ReclaimedNeverDispatched`. `WorkOccupies`: a task with a request on the wire or a job at the
gateway has an outcome or a marked lease, which gives `WorkerLeasedOrTerminal`. `OneAttempt`: a call
may draw any attempt only while the task has no file, and from then on every call past the thread,
every request and every job carries the attempt of the file, which gives `OneWorkerPerTask`.
`ToldHeard`: what a process has told, and what a synchronous caller has accounted for, was heard,
so that a release by a watcher or sweep leaves the job heard or, without an observer, `unheard`
(`ReleasedWhenEnded`). The permits of the gate are balanced by counting threads.

**SSH sessions** (`SshSessionsProofs`). `HandsOK` (a transport in use was dialled and is in one
place), `ReservationsOK` (a connect keeps its reservation until it returns; `pending` counts them),
`CapOK`, `DeniedOK`. What remains of the pool after an eviction is a recursive function; its lemmas
use induction on natural numbers in the form of sets (`NatSetInduction`: a set of numbers that is
not empty has a least member).

**Access control and event hooks** (`ServicesProofs`). `KeyOK`: a key in order has one task that
will make the mirror say what memory says, or a mirror that does, with the lifetime of that entry
or of none. `HookInv` counts the committed failures behind every count of attempts, also the stale
one that a commit in flight has read. `ServicesTypes` goes through `ServicesImplement`: the
composition that TLC explores implements each of the four services, so their theorems are about
the behaviours of the run.

**Files and clones** (`WorkspacesProofs`). `FileInv` says what the holder of the lock knows of
inode, journal, backup and content at each point, and that a recovery which waits for the lock with
an old journal can restore only an outcome, or finds another inode or backup. `ClonesInv` says
what the holder of the lineage lock knows of directory, registry and tombstone; `LineageOK` is its
part about directories that never strayed: while a call holds a claim-free lineage no other such
directory appears, because an edit or a removal that takes one astray marks it (`Noted`) and one
that returns stays marked. `WritesExpected`
and `RemovesSavedWork` are action properties of the same invariants; `WorkspacesImplement` is the
analogue of `ServicesImplement`.

**Breakers** (`CircuitBreakerProofs`). The two counters of a half-open breaker are tied to the
connects under way: trial connects <= `calls` <= `successes` + trial connects (the second as long
as none of them ended without a report), with `successes` below the limit.

Only model-checked: the liveness properties `AckedSettles`, `WaitersWake`, `WatchedJobReleased` and
`HookSettles`, because liveness under fairness is out of the prover's reach.

## 5. Not modelled

* Redis key expiry of the job store (claims live 7 days, envelopes of claimed jobs 1 day), the
  envelope index behind the read-only job endpoints, the mode without Redis, and the pull queue in
  the second half of `redis_queue.py`, which nothing calls. Restart of Redis itself: the store is
  assumed to keep what it acknowledged.
* Fleet: `submit` without a dispatch guard; the legacy keys without an attempt that the resolver
  falls back to, and the worker-writable attempt hint it may read. Clones: `abort_legacy_prepared_cleanup`, the scan for
  inbound dependencies, the history file of completed cleanups. Pool: `evict_stale`, which nothing
  calls. `distributed_lock.py`, which nothing uses.
* Most of the repository's 120 000 lines are not state machines: tool adapters of the MCP server
  and its clients (argument validation, forwarding, formatting), prompt and plan texts, command
  classification, code analysis, HTTP wiring and administration scripts. They carry no state whose
  interleavings a model could explore, and mapping them would mean transcribing text. The share of
  lines that the map covers is therefore small although the protocols above are covered.
* Components with status `not_modelled` in `PROJECT.json`, with the reason for each.

## 6. Plan

1. (done) `RedisJobQueue`, `JobManager`, `JobLedger`: submission, execution, recovery, shutdown.
2. (done) `CircuitBreaker`, `SshSessions`, `AccessControl`, `EventHooks`.
3. (done) `FleetState`, `FleetRuntime`, `FileIntegration`, `CandidateClones`.
4. (done) Theorems: every safety property of the runs, and the refinement of `JobLedger`.
5. To prove next: weaker forms of `OnlyOwnerFinishes` and `CancelledNotStarted` that hold when a
   drain times out (for jobs that no forced cleanup has persisted), and the bound on the length of
   the breaker registry and of the connection pool.
6. Possible extensions: registry reconciliation and orphan finalisation on `CandidateClones`, the
   Gitea dispatch journal, workspace edit receipts.
