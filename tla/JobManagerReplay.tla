-------------------------- MODULE JobManagerReplay --------------------------
(***************************************************************************)
(* No blind replay, for every value of the constants: while no lease of a  *)
(* job has run out, its command reaches the remote host at most once.      *)
(*                                                                         *)
(* The claim script makes "processing" a lock.  That a second claim is     *)
(* refused rests on three facts about the rest of the system, and they are *)
(* what the invariant adds: job ids are not reused, a process never claims *)
(* a job with a token that an envelope already carries, and unkeyed jobs,  *)
(* which claim nothing, have a single worker.                              *)
(***************************************************************************)
EXTENDS JobManagerTypes

USE DEF redisVars, recordVars, taskVars, gwVars, reqVars, histVars

----------------------------------------------------------------------------
(* The inductive invariant *)

DrawnOnce ==
    \A r, q \in Requests : rjob[r] = rjob[q] /\ rjob[r] \in Jobs => r = q

\* Nobody has drawn j, or its reservation is on the way to Redis.
Fresh(j) ==
    \/ \A q \in Requests : rjob[q] # j
    \/ \E r \in Requests : rpc[r] = "reserve" /\ rjob[r] = j

\* A fresh job id is not known anywhere.
FreshIdle ==
    \A j \in Jobs : Fresh(j) =>
        /\ envStatus[j] = "absent" /\ envToken[j] = NoToken /\ starts[j] = 0
        /\ \A w \in Workers : w[2] = j =>
             pc[w] = "none" /\ w \notin mem /\ j \notin pers[w[1]]

\* A created job has an envelope and, in its gateway, no task yet.
CreatedKnown ==
    \A r \in Requests : rpc[r] = "created" =>
        envStatus[rjob[r]] # "absent" /\ pc[<<rgw[r], rjob[r]>>] = "none"

\* Tokens name past and present processes.
TokensPast ==
    \A j \in Jobs, g \in Gateways : \A n \in Nat :
        envToken[j] = <<g, n>> => n <= boots[g]

\* The running process g may still claim j for the first time.
Unclaimed(g, j) ==
    \/ gpc[g] \in {"reconcile", "list"}
    \/ gpc[g] = "recover" /\ j \in todo[g]
    \/ pc[<<g, j>>] \in {"sched", "claim"}
    \/ \E r \in Requests : /\ rpc[r] \in {"reserve", "created"}
                           /\ rgw[r] = g /\ rjob[r] = j

TokenFresh ==
    \A g \in Gateways, j \in Jobs : Unclaimed(g, j) => envToken[j] # <<g, boots[g]>>

\* The recovery loop creates at most one task per job.
TodoIdle ==
    \A g \in Gateways : gpc[g] = "recover" => \A j \in todo[g] : pc[<<g, j>>] = "none"

UnkeyedPCs == {"sched", "start", "stream", "ended", "persist", "fin", "end"}

UnkeyedAlone ==
    \A w \in Workers : pc[w] # "none" /\ w \notin durable =>
        /\ \E q \in Requests : ~Keyed(q) /\ rjob[q] = w[2]
        /\ envStatus[w[2]] \notin {"pending", "processing"}
        /\ pc[w] \in UnkeyedPCs
        /\ pc[w] = "sched" => starts[w[2]] = 0
        /\ \A v \in Workers : v[2] = w[2] /\ v # w => pc[v] = "none"

DurableKnown ==
    \A w \in Workers : pc[w] # "none" /\ w \in durable => envStatus[w[2]] # "absent"

\* Where a task is that has not claimed its job.
Waiting == {"none", "sched", "claim", "lost", "end"}

PendingIdle ==
    \A j \in Jobs : envStatus[j] = "pending" =>
        /\ starts[j] = 0
        /\ \A w \in Workers : w[2] = j => pc[w] \in Waiting

ExpiredLapsed ==
    \A j \in Jobs : envStatus[j] = "processing" /\ envLease[j] = 0 => j \in lapsed

\* Holding the claim and not yet started.
PreStart == {"check", "go", "start"}

ClaimIsLock ==
    \A j \in Jobs \ lapsed :
        /\ starts[j] <= 1
        /\ \A w \in Workers : w[2] = j /\ pc[w] \in PreStart =>
             /\ starts[j] = 0
             /\ \A v \in Workers : v[2] = j /\ pc[v] \in PreStart => v = w

Ids    == DrawnOnce /\ FreshIdle /\ CreatedKnown
Fences == TokensPast /\ TokenFresh /\ TodoIdle
Locks  == UnkeyedAlone /\ DurableKnown /\ PendingIdle /\ ExpiredLapsed /\ ClaimIsLock

Replay == Ids /\ Fences /\ Locks

IInv == TypeOK /\ Shape /\ Replay

----------------------------------------------------------------------------
(* Most steps are quiet: they claim nothing, start nothing, draw no job id *)
(* and schedule no task.                                                   *)

\* A task may move on, but not to a point from which it would claim or start.
OkMove(v) ==
    \/ pc'[v] \in {pc[v], "none"}
    \/ /\ pc[v] # "none" /\ pc'[v] # "sched"
       /\ pc'[v] = "claim" => pc[v] = "sched"
       /\ pc'[v] \in PreStart => pc[v] \in PreStart \/ (pc[v] = "sched" /\ v \notin durable)
       /\ envStatus[v[2]] = "pending" => pc'[v] \in Waiting
       /\ v \notin durable => pc'[v] \in UnkeyedPCs

\* An envelope may become terminal and lose its token; its lease may be renewed
\* or run down.
OkEnv(j) ==
    /\ envStatus'[j] = envStatus[j] \/ (envStatus'[j] \in TERMINAL_STATES /\ ~Fresh(j))
    /\ envToken'[j] \in {envToken[j], NoToken}
    /\ envStatus'[j] = "processing" /\ envLease'[j] = 0 => j \in lapsed'

OkGateway(g) ==
    /\ gpc'[g] \in {"reconcile", "list"} => gpc[g] \in {"reconcile", "list"}
    /\ gpc'[g] = "recover" => gpc[g] = "recover" /\ todo'[g] \subseteq todo[g]
    /\ \A j \in pers'[g] : j \in pers[g] \/ <<g, j>> \in mem

OkRequest(r) ==
    rpc'[r] \in {"reserve", "created"} => rpc'[r] = rpc[r] /\ rgw'[r] = rgw[r]

Quiet ==
    /\ UNCHANGED <<rjob, boots, starts>> /\ lapsed \subseteq lapsed' /\ mem' \subseteq mem
    /\ \A j \in Jobs : OkEnv(j)
    /\ \A v \in Workers :
         OkMove(v) /\ (pc'[v] # "none" => (v \in durable' <=> v \in durable))
    /\ \A g \in Gateways : OkGateway(g)
    /\ \A r \in Requests : OkRequest(r)

\* A token that is no token is nobody's.
LEMMA NoTokenFresh == \A g \in Gateways, n \in Nat : NoToken # <<g, n>>
  BY ConstantsAssumption

\* A quiet step preserves the invariant.
LEMMA QuietReplay == IInv /\ Quiet => Replay'
  <1> SUFFICES ASSUME IInv, Quiet PROVE Replay'
    OBVIOUS
  <1>a. \A j \in Jobs : Fresh(j)' => Fresh(j)
    BY DEF Quiet, OkRequest, Fresh
  <1>b. \A v \in Workers : pc[v] = "none" => pc'[v] = "none"
    BY DEF Quiet, OkMove
  <1>1. DrawnOnce'
    BY DEF IInv, Replay, Ids, DrawnOnce, Quiet
  <1>2. FreshIdle'
    <2> SUFFICES ASSUME NEW j \in Jobs, Fresh(j)'
                 PROVE  /\ envStatus'[j] = "absent" /\ envToken'[j] = NoToken
                        /\ starts'[j] = 0
                        /\ \A w \in Workers : w[2] = j =>
                             pc'[w] = "none" /\ w \notin mem' /\ j \notin pers'[w[1]]
      BY DEF FreshIdle
    <2>1. /\ envStatus[j] = "absent" /\ envToken[j] = NoToken /\ starts[j] = 0
          /\ \A w \in Workers : w[2] = j =>
               pc[w] = "none" /\ w \notin mem /\ j \notin pers[w[1]]
      BY <1>a DEF IInv, Replay, Ids, FreshIdle
    <2>2. envStatus'[j] = "absent" /\ envToken'[j] = NoToken /\ starts'[j] = 0
      BY <1>a, <2>1 DEF Quiet, OkEnv
    <2>3. ASSUME NEW w \in Workers, w[2] = j
          PROVE  pc'[w] = "none" /\ w \notin mem' /\ j \notin pers'[w[1]]
      BY <1>b, <2>1, <2>3, WorkerParts DEF Quiet, OkGateway
    <2> QED BY <2>2, <2>3
  <1>3. CreatedKnown'
    <2> SUFFICES ASSUME NEW r \in Requests, rpc'[r] = "created"
                 PROVE  /\ envStatus'[rjob'[r]] # "absent"
                        /\ pc'[<<rgw'[r], rjob'[r]>>] = "none"
      BY DEF CreatedKnown
    <2>1. rpc[r] = "created" /\ rgw'[r] = rgw[r] /\ rjob'[r] = rjob[r]
      BY DEF Quiet, OkRequest
    <2>2. rgw[r] \in Gateways /\ rjob[r] \in Jobs /\ <<rgw[r], rjob[r]>> \in Workers
      BY <2>1, WorkerParts DEF IInv, Shape, RequestShape, RequestOK, InFlight, Reserving
    <2>3. envStatus[rjob[r]] # "absent" /\ pc[<<rgw[r], rjob[r]>>] = "none"
      BY <2>1 DEF IInv, Replay, Ids, CreatedKnown
    <2> QED BY <1>b, <2>1, <2>2, <2>3 DEF Quiet, OkEnv, TERMINAL_STATES
  <1>4. TokensPast'
    BY NoTokenFresh DEF IInv, Replay, Fences, TokensPast, Quiet, OkEnv
  <1>5. TokenFresh'
    <2> SUFFICES ASSUME NEW g \in Gateways, NEW j \in Jobs, Unclaimed(g, j)'
                 PROVE  envToken'[j] # <<g, boots[g]>>
      BY DEF TokenFresh, Quiet
    <2>1. <<g, j>> \in Workers
      BY WorkerParts
    <2>2. Unclaimed(g, j)
      BY <2>1 DEF Unclaimed, Quiet, OkGateway, OkMove, OkRequest
    <2>3. boots[g] \in Nat
      BY DEF IInv, TypeOK, GatewayTypeOK
    <2> QED BY <2>2, <2>3, NoTokenFresh DEF IInv, Replay, Fences, TokenFresh, Quiet, OkEnv
  <1>6. TodoIdle'
    <2> SUFFICES ASSUME NEW g \in Gateways, gpc'[g] = "recover", NEW j \in todo'[g]
                 PROVE  pc'[<<g, j>>] = "none"
      BY DEF TodoIdle
    <2>1. j \in todo[g] /\ pc[<<g, j>>] = "none"
      BY DEF IInv, Replay, Fences, TodoIdle, Quiet, OkGateway
    <2>2. <<g, j>> \in Workers
      BY <2>1, WorkerParts DEF IInv, TypeOK, GatewayTypeOK
    <2> QED BY <1>b, <2>1, <2>2
  <1>7. UnkeyedAlone'
    <2> SUFFICES ASSUME NEW w \in Workers, pc'[w] # "none", w \notin durable'
                 PROVE  /\ \E q \in Requests : ~Keyed(q) /\ rjob'[q] = w[2]
                        /\ envStatus'[w[2]] \notin {"pending", "processing"}
                        /\ pc'[w] \in UnkeyedPCs
                        /\ pc'[w] = "sched" => starts'[w[2]] = 0
                        /\ \A v \in Workers : v[2] = w[2] /\ v # w => pc'[v] = "none"
      BY DEF UnkeyedAlone, Keyed
    <2>1. pc[w] # "none" /\ w \notin durable
      BY <1>b DEF Quiet
    <2> QED BY <1>b, <2>1, WorkerParts
            DEF IInv, Replay, Locks, UnkeyedAlone, Quiet, OkMove, OkEnv, TERMINAL_STATES
  <1>8. DurableKnown'
    BY <1>b, WorkerParts DEF IInv, Replay, Locks, DurableKnown, Quiet, OkEnv, TERMINAL_STATES
  <1>9. PendingIdle'
    BY WorkerParts DEF IInv, Replay, Locks, PendingIdle, Waiting, Quiet, OkEnv, OkMove,
       TERMINAL_STATES
  <1>10. ExpiredLapsed'
    BY DEF ExpiredLapsed, Quiet, OkEnv
  <1>11. ClaimIsLock'
    <2> SUFFICES ASSUME NEW j \in Jobs \ lapsed'
                 PROVE  /\ starts'[j] <= 1
                        /\ \A w \in Workers : w[2] = j /\ pc'[w] \in PreStart =>
                             /\ starts'[j] = 0
                             /\ \A v \in Workers :
                                  v[2] = j /\ pc'[v] \in PreStart => v = w
      BY DEF ClaimIsLock
    <2>1. j \in Jobs \ lapsed /\ starts' = starts
      BY DEF Quiet
    <2>2. ASSUME NEW w \in Workers, w[2] = j, pc'[w] \in PreStart
          PROVE  \/ pc[w] \in PreStart
                 \/ pc[w] = "sched" /\ w \notin durable
      BY <2>2 DEF Quiet, OkMove, PreStart
    <2>3. ASSUME NEW w \in Workers, w[2] = j, pc'[w] \in PreStart,
                 NEW v \in Workers, v[2] = j, pc'[v] \in PreStart
          PROVE  starts[j] = 0 /\ v = w
      <3>1. pc[w] \in PreStart \cup {"sched"} /\ pc[v] \in PreStart \cup {"sched"}
        BY <2>2, <2>3
      <3>2. CASE pc[w] \in PreStart /\ pc[v] \in PreStart
        BY <2>1, <2>3, <3>2 DEF IInv, Replay, Locks, ClaimIsLock
      <3>3. CASE pc[w] = "sched" /\ w \notin durable
        BY <2>3, <3>1, <3>3 DEF IInv, Replay, Locks, UnkeyedAlone, PreStart
      <3>4. CASE pc[v] = "sched" /\ v \notin durable
        BY <2>3, <3>1, <3>4 DEF IInv, Replay, Locks, UnkeyedAlone, PreStart
      <3> QED BY <2>2, <2>3, <3>2, <3>3, <3>4
    <2> QED BY <2>1, <2>3 DEF IInv, Replay, Locks, ClaimIsLock
  <1> QED BY <1>1, <1>2, <1>3, <1>4, <1>5, <1>6, <1>7, <1>8, <1>9, <1>10, <1>11
          DEF Replay, Ids, Fences, Locks

----------------------------------------------------------------------------
(* Which steps are quiet *)

\* A step of one task that leaves the store and the gateways alone.
LEMMA MoveQuiet ==
    ASSUME IInv, NEW w \in Workers, OkMove(w), mem' \subseteq mem,
           \A v \in Workers : v # w => pc'[v] = pc[v],
           UNCHANGED <<redisVars, durable, gpc, boots, todo, pers, reqVars, starts, lapsed>>
    PROVE  Quiet
  <1>1. \A v \in Workers : OkMove(v)
    BY DEF OkMove
  <1>2. \A j \in Jobs : OkEnv(j)
    BY DEF OkEnv, IInv, Replay, Locks, ExpiredLapsed
  <1>3. \A g \in Gateways : OkGateway(g)
    BY DEF OkGateway
  <1>4. \A r \in Requests : OkRequest(r)
    BY DEF OkRequest
  <1> QED BY <1>1, <1>2, <1>3, <1>4 DEF Quiet

\* The steps of _run_job between its Redis calls, and the answers that change
\* nothing in the store.
LEMMA TaskQuiet ==
    ASSUME IInv, NEW w \in Workers,
           \/ EnterRunJob(w) \/ LoseClaim(w) \/ CheckIntent(w) \/ CheckIntentFails(w)
           \/ HonourIntent(w) \/ Begin(w) \/ FailBeforeStart(w)
           \/ (\E x \in Exits : StreamEnds(w, x))
           \/ Classify(w) \/ Reaped(w) \/ Complete(w) \/ EndTask(w)
    PROVE  Quiet
  <1>a. /\ w \notin durable /\ pc[w] # "none" =>
             pc[w] \in UnkeyedPCs /\ envStatus[w[2]] # "pending"
        /\ envStatus[w[2]] = "pending" => pc[w] \in Waiting
    BY WorkerParts DEF IInv, Replay, Locks, UnkeyedAlone, PendingIdle
  <1> USE DEF Goto, IInv, TypeOK, TaskTypeOK, PreStart, Waiting, UnkeyedPCs
  <1>1. CASE EnterRunJob(w)
    <2>1. PICK l : Goto(w, l) /\ l \in {"end", "persist", "claim", "start"}
                     /\ (l = "persist" \/ l = "start" => w \notin durable)
                     /\ (l = "claim" => w \in durable)
      BY <1>1 DEF EnterRunJob, BeginRun
    <2>2. OkMove(w) /\ \A v \in Workers : v # w => pc'[v] = pc[v]
      BY <1>1, <1>a, <2>1 DEF OkMove, EnterRunJob
    <2> QED BY <1>1, <2>2, MoveQuiet DEF EnterRunJob
  <1>2. CASE LoseClaim(w)
    <2>1. OkMove(w) /\ \A v \in Workers : v # w => pc'[v] = pc[v]
      BY <1>2, <1>a DEF OkMove, LoseClaim
    <2> QED BY <1>2, <2>1, MoveQuiet DEF LoseClaim
  <1>3. CASE CheckIntent(w) \/ CheckIntentFails(w)
    <2>1. OkMove(w) /\ \A v \in Workers : v # w => pc'[v] = pc[v]
      BY <1>3, <1>a DEF OkMove, CheckIntent, CheckIntentFails
    <2> QED BY <1>3, <2>1, MoveQuiet DEF CheckIntent, CheckIntentFails
  <1>4. CASE HonourIntent(w)
    <2>1. OkMove(w) /\ \A v \in Workers : v # w => pc'[v] = pc[v]
      BY <1>4, <1>a DEF OkMove, HonourIntent
    <2> QED BY <1>4, <2>1, MoveQuiet DEF HonourIntent
  <1>5. CASE Begin(w)
    <2>1. OkMove(w) /\ \A v \in Workers : v # w => pc'[v] = pc[v]
      BY <1>5, <1>a DEF OkMove, Begin, BeginRun
    <2> QED BY <1>5, <2>1, MoveQuiet DEF Begin
  <1>6. CASE FailBeforeStart(w)
    <2>1. OkMove(w) /\ \A v \in Workers : v # w => pc'[v] = pc[v]
      BY <1>6, <1>a DEF OkMove, FailBeforeStart, EnterFinally
    <2> QED BY <1>6, <2>1, MoveQuiet DEF FailBeforeStart
  <1>7. CASE \E x \in Exits : StreamEnds(w, x)
    <2>1. OkMove(w) /\ \A v \in Workers : v # w => pc'[v] = pc[v]
      BY <1>7, <1>a DEF OkMove, StreamEnds
    <2> QED BY <1>7, <2>1, MoveQuiet DEF StreamEnds
  <1>8. CASE Classify(w)
    <2>1. OkMove(w) /\ \A v \in Workers : v # w => pc'[v] = pc[v]
      BY <1>8, <1>a DEF OkMove, Classify, EnterFinally
    <2> QED BY <1>8, <2>1, MoveQuiet DEF Classify
  <1>9. CASE Reaped(w)
    <2>1. OkMove(w) /\ \A v \in Workers : v # w => pc'[v] = pc[v]
      BY <1>9, <1>a DEF OkMove, Reaped
    <2> QED BY <1>9, <2>1, MoveQuiet DEF Reaped
  <1>10. CASE Complete(w)
    <2>1. OkMove(w) /\ \A v \in Workers : v # w => pc'[v] = pc[v]
      BY <1>10, <1>a DEF OkMove, Complete
    <2> QED BY <1>10, <2>1, MoveQuiet DEF Complete
  <1>11. CASE EndTask(w)
    <2>1. OkMove(w) /\ \A v \in Workers : v # w => pc'[v] = pc[v]
      BY <1>11, <1>a DEF OkMove, EndTask
    <2> QED BY <1>11, <2>1, MoveQuiet DEF EndTask
  <1> QED BY <1>1, <1>2, <1>3, <1>4, <1>5, <1>6, <1>7, <1>8, <1>9, <1>10, <1>11

\* A job that has an envelope, or a task, is not fresh.
LEMMA NotFresh ==
    ASSUME IInv, NEW j \in Jobs,
           \/ envStatus[j] # "absent"
           \/ \E w \in Workers : w[2] = j /\ (pc[w] # "none" \/ j \in pers[w[1]])
    PROVE  ~Fresh(j)
  BY DEF IInv, Replay, Ids, FreshIdle

\* The scripts that neither reserve nor claim leave every envelope as it is or
\* make it terminal.
LEMMA ScriptQuiet ==
    ASSUME IInv, UNCHANGED lapsed, NEW j \in Jobs, NEW t, NEW s \in TERMINAL_STATES,
           \/ UNCHANGED redisVars \/ finish_durable_execution(j, t, s)
           \/ heartbeat_durable_execution(j, t) \/ request_durable_cancellation(j)
           \/ (~Fresh(j) /\ (save_terminal_job(j, s) \/ save_terminal_job_fails(j, s)))
    PROVE  \A i \in Jobs : OkEnv(i)
  <1>a. \A i \in Jobs : envStatus[i] = "processing" /\ envLease[i] = 0 => i \in lapsed
    BY DEF IInv, Replay, Locks, ExpiredLapsed
  <1>b. RedisTypeOK
    BY DEF IInv, TypeOK
  <1>1. CASE UNCHANGED redisVars
    BY <1>1, <1>a DEF OkEnv
  <1>2. CASE finish_durable_execution(j, t, s)
    BY <1>2, <1>a, <1>b, NotFresh
       DEF OkEnv, RedisTypeOK, finish_durable_execution, OwnedBy, TERMINAL_STATES
  <1>3. CASE heartbeat_durable_execution(j, t)
    BY <1>3, <1>a, <1>b, LeaseAssumption
       DEF OkEnv, RedisTypeOK, heartbeat_durable_execution
  <1>4. CASE request_durable_cancellation(j)
    BY <1>4, <1>a, <1>b, NotFresh
       DEF OkEnv, RedisTypeOK, request_durable_cancellation, TERMINAL_STATES
  <1>5. CASE ~Fresh(j) /\ (save_terminal_job(j, s) \/ save_terminal_job_fails(j, s))
    BY <1>5, <1>a, <1>b DEF OkEnv, RedisTypeOK, save_terminal_job, save_terminal_job_fails,
       SetTerminal, TERMINAL_STATES
  <1> QED BY <1>1, <1>2, <1>3, <1>4, <1>5

\* Startup reconciliation only makes envelopes terminal.
LEMMA ReconcileQuiet ==
    ASSUME IInv, UNCHANGED lapsed, reconcile_expired_cancelled_processing
    PROVE  \A i \in Jobs : OkEnv(i)
  BY NotFresh DEF OkEnv, IInv, TypeOK, RedisTypeOK, Replay, Locks, ExpiredLapsed,
     reconcile_expired_cancelled_processing, ExpiredProcessing, TERMINAL_STATES

\* The rest of what runs beside or after a task.
LEMMA StoreQuiet ==
    ASSUME IInv, NEW w \in Workers,
           \/ Finish(w) \/ FinishFails(w) \/ Persist(w) \/ Renew(w) \/ PollIntent(w)
           \/ CancelJob(w) \/ RequestCancellation(w) \/ CancellationFails(w)
           \/ CancelReply(w) \/ CleanupOldJob(w)
    PROVE  Quiet
  <1>a. /\ w \notin durable /\ pc[w] # "none" =>
             pc[w] \in UnkeyedPCs /\ envStatus[w[2]] # "pending"
        /\ envStatus[w[2]] = "pending" => pc[w] \in Waiting
        /\ w[1] \in Gateways /\ w[2] \in Jobs
    BY WorkerParts DEF IInv, Replay, Locks, UnkeyedAlone, PendingIdle
  <1>b. "failed" \in TERMINAL_STATES
    BY DEF TERMINAL_STATES
  <1>1. \A j \in Jobs : OkEnv(j)
    <2>1. CASE Finish(w) \/ FinishFails(w)
      <3>1. arg[w] \in TERMINAL_STATES
        BY <2>1 DEF IInv, Shape, WorkerShape, WorkerOK, Finish, FinishFails
      <3> QED BY <1>a, <2>1, <3>1, ScriptQuiet DEF Finish, FinishFails
    <2>2. CASE Persist(w)
      <3>1. st[w] \in TERMINAL_STATES /\ ~Fresh(w[2])
        BY <1>a, <2>2, NotFresh DEF IInv, Shape, WorkerShape, WorkerOK, Persist
      <3> QED BY <1>a, <2>2, <3>1, ScriptQuiet DEF Persist
    <2>3. CASE Renew(w) \/ RequestCancellation(w) \/ CancellationFails(w)
      BY <1>a, <1>b, <2>3, ScriptQuiet DEF Renew, RequestCancellation, CancellationFails
    <2>4. CASE PollIntent(w) \/ CancelJob(w) \/ CancelReply(w) \/ CleanupOldJob(w)
      BY <1>a, <1>b, <2>4, ScriptQuiet
         DEF PollIntent, CancelJob, CancelReply, CleanupOldJob
    <2> QED BY <2>1, <2>2, <2>3, <2>4
  <1>2. \A v \in Workers : OkMove(v)
    <2>1. CASE Finish(w) \/ FinishFails(w) \/ Persist(w)
      BY <1>a, <2>1 DEF OkMove, Finish, FinishFails, Persist, AfterFinish, Goto, IInv, TypeOK,
         TaskTypeOK, PreStart, Waiting, UnkeyedPCs
    <2>2. CASE ~(Finish(w) \/ FinishFails(w) \/ Persist(w))
      BY <2>2 DEF OkMove, Renew, PollIntent, CancelJob, RequestCancellation,
         CancellationFails, CancelReply, CleanupOldJob
    <2> QED BY <2>1, <2>2
  <1>3. /\ UNCHANGED <<durable, gpc, boots, todo, pers, reqVars, starts, lapsed>>
        /\ mem' \subseteq mem
    BY DEF Finish, FinishFails, Persist, Renew, PollIntent, CancelJob, ApplyCancel,
       RequestCancellation, CancellationFails, CancelReply, CleanupOldJob
  <1> QED BY <1>1, <1>2, <1>3 DEF Quiet, OkGateway, OkRequest

\* A request is quiet unless it draws a job id, reserves it or schedules it.
LEMMA RequestQuiet ==
    ASSUME IInv, NEW r \in Requests,
           \/ FindSubmission(r) \/ Refuse(r) \/ RequestFails(r)
           \/ (ReserveReply(r) /\ rpc[r] # "created")
           \/ \E g \in Gateways : Submit(r, g)
    PROVE  Quiet
  <1>1. \A q \in Requests : OkRequest(q)
    BY DEF OkRequest, FindSubmission, Refuse, RequestFails, ReserveReply, Submit, Answer,
       IInv, TypeOK, RequestTypeOK
  <1>2. UNCHANGED <<redisVars, mem, durable, pc, gpc, boots, todo, pers, rjob, starts, lapsed>>
    BY DEF FindSubmission, Refuse, RequestFails, ReserveReply, Submit
  <1>3. \A j \in Jobs : OkEnv(j)
    BY <1>2 DEF OkEnv, IInv, Replay, Locks, ExpiredLapsed
  <1> QED BY <1>1, <1>2, <1>3 DEF Quiet, OkMove, OkGateway

\* A process that ends, and one that persists what force_cleanup decided.
LEMMA GatewayQuiet ==
    ASSUME IInv, NEW g \in Gateways,
           \/ CloseSession(g) \/ Reconcile(g) \/ Serve(g) \/ Shutdown(g) \/ GoDown(g)
           \/ ForceCleanup(g) \/ \E j \in Jobs : PersistCleaned(g, j)
    PROVE  Quiet
  <1>a. UNCHANGED <<rjob, rgw, boots, starts, lapsed>>
    BY DEF CloseSession, Reconcile, Serve, Shutdown, GoDown, ForceCleanup, PersistCleaned
  <1>1. \A j \in Jobs : OkEnv(j)
    <2>1. CASE UNCHANGED redisVars
      BY <1>a, <2>1 DEF OkEnv, IInv, Replay, Locks, ExpiredLapsed
    <2>2. CASE Reconcile(g)
      BY <1>a, <2>1, <2>2, ReconcileQuiet DEF Reconcile
    <2>3. ASSUME NEW j \in Jobs, PersistCleaned(g, j)
          PROVE  \A i \in Jobs : OkEnv(i)
      <3>1. st[<<g, j>>] \in TERMINAL_STATES
        BY <2>3 DEF IInv, Shape, GatewayShape, GatewayOK, PersistCleaned
      <3>2. ~Fresh(j)
        BY <2>3, NotFresh, WorkerParts DEF PersistCleaned
      <3> QED BY <1>a, <2>3, <3>1, <3>2, ScriptQuiet DEF PersistCleaned
    <2> QED BY <2>1, <2>2, <2>3 DEF CloseSession, Serve, Shutdown, GoDown, ForceCleanup
  <1>2. ASSUME NEW v \in Workers
        PROVE  OkMove(v) /\ (pc'[v] # "none" => (v \in durable' <=> v \in durable))
    <2>1. CASE GoDown(g)
      BY <2>1 DEF OkMove, GoDown, ForgetTasks, Of
    <2>2. CASE ForceCleanup(g)
      <3>1. ForgetTasks(g, {"reap"}) /\ UNCHANGED durable
        BY <2>2 DEF ForceCleanup
      <3> QED BY <3>1 DEF OkMove, ForgetTasks
    <2>3. CASE UNCHANGED <<pc, durable>>
      BY <2>3 DEF OkMove
    <2> QED BY <2>1, <2>2, <2>3 DEF CloseSession, Reconcile, Serve, Shutdown, PersistCleaned
  <1>3. mem' \subseteq mem
    BY DEF CloseSession, Reconcile, Serve, Shutdown, GoDown, ForceCleanup, PersistCleaned
  <1>4. ASSUME NEW h \in Gateways PROVE OkGateway(h)
    <2>1. CASE ForceCleanup(g)
      <3>1. \A j \in pers'[h] : j \in pers[h] \/ <<h, j>> \in mem
        <4>1. /\ pers' = [pers EXCEPT ![g] =
                            {w[2] : w \in {v \in Of(g, mem) : st'[v] \in TERMINAL_STATES}}]
              /\ \A w \in Of(g, mem) : w \in mem /\ w = <<g, w[2]>>
          BY <2>1, WorkerParts DEF ForceCleanup, Of, IInv, TypeOK, RecordTypeOK
        <4> HIDE DEF Of
        <4> QED BY <4>1 DEF IInv, TypeOK, GatewayTypeOK
      <3>2. gpc' = [gpc EXCEPT ![g] = "cleanup"] /\ \A i \in Gateways : i # g => todo'[i] = todo[i]
        BY <2>1 DEF ForceCleanup, IInv, TypeOK, GatewayTypeOK
      <3> QED BY <3>1, <3>2 DEF OkGateway, IInv, TypeOK, GatewayTypeOK
    <2>2. CASE ~ForceCleanup(g)
      BY <2>2, ZenonT(60) DEF OkGateway, CloseSession, Reconcile, Serve, Shutdown, GoDown, PersistCleaned,
         IInv, TypeOK, GatewayTypeOK
    <2> QED BY <2>1, <2>2
  <1>5. \A r \in Requests : OkRequest(r)
    BY <1>a DEF OkRequest, CloseSession, Reconcile, Serve, Shutdown, GoDown, ForceCleanup,
       PersistCleaned
  <1> QED BY <1>a, <1>1, <1>2, <1>3, <1>4, <1>5 DEF Quiet

\* Time only runs leases down, and a lease that runs out is a lapse.
LEMMA TickQuiet == IInv /\ (Tick \/ UNCHANGED vars) => Quiet
  <1> SUFFICES ASSUME IInv, Tick \/ UNCHANGED vars PROVE Quiet
    OBVIOUS
  <1>1. \A j \in Jobs : OkEnv(j)
    <2> SUFFICES ASSUME NEW j \in Jobs PROVE OkEnv(j)
      OBVIOUS
    <2>1. /\ envLease[j] \in Nat
          /\ envStatus[j] = "processing" /\ envLease[j] = 0 => j \in lapsed
      BY DEF IInv, TypeOK, RedisTypeOK, Replay, Locks, ExpiredLapsed
    <2>2. CASE Tick
      <3>1. UNCHANGED <<envStatus, envToken>> /\ lapsed \subseteq lapsed'
        BY <2>2 DEF Tick
      <3>2. CASE envStatus[j] = "processing" /\ ~Expired(j)
        <4>1. /\ envLease'[j] = envLease[j] - 1
              /\ envLease[j] = 1 => j \in lapsed'
          BY <2>2, <3>2 DEF Tick
        <4> QED BY <2>1, <3>1, <4>1 DEF OkEnv
      <3>3. CASE ~(envStatus[j] = "processing" /\ ~Expired(j))
        <4>1. envLease'[j] = envLease[j]
          BY <2>2, <3>3 DEF Tick
        <4> QED BY <2>1, <3>1, <4>1 DEF OkEnv
      <3> QED BY <3>2, <3>3
    <2> QED BY <2>1, <2>2 DEF OkEnv, vars
  <1>2. /\ UNCHANGED <<mem, durable, pc, gpc, boots, todo, pers, reqVars, starts>>
        /\ lapsed \subseteq lapsed'
    BY DEF Tick, vars
  <1> QED BY <1>1, <1>2 DEF Quiet, OkMove, OkGateway, OkRequest

----------------------------------------------------------------------------
(* The steps that are not quiet *)

\* Starting the remote command: the claim was a lock.
LEMMA StartReplay ==
    ASSUME IInv, NEW w \in Workers, StartRemote(w)
    PROVE  Replay'
  <1>a. /\ w[2] \in Jobs /\ pc[w] = "start"
        /\ pc' = [pc EXCEPT ![w] = "stream"]
        /\ starts' = [starts EXCEPT ![w[2]] = @ + 1]
        /\ UNCHANGED <<redisVars, mem, durable, gpc, boots, todo, pers, reqVars, lapsed>>
    BY WorkerParts DEF StartRemote, Goto
  <1>b. pc \in [Workers -> PCs] /\ starts \in [Jobs -> Nat]
    BY DEF IInv, TypeOK, TaskTypeOK, HistoryTypeOK
  <1>c. ~Fresh(w[2])
    BY <1>a, NotFresh
  <1>1. DrawnOnce' /\ CreatedKnown' /\ TokensPast' /\ TodoIdle' /\ ExpiredLapsed'
    BY <1>a, <1>b DEF IInv, Replay, Ids, Fences, Locks, DrawnOnce, CreatedKnown, TokensPast,
       TodoIdle, ExpiredLapsed
  <1>2. FreshIdle'
    BY <1>a, <1>b, <1>c DEF IInv, Replay, Ids, FreshIdle, Fresh
  <1>3. TokenFresh'
    BY <1>a, <1>b DEF IInv, Replay, Fences, TokenFresh, Unclaimed
  <1>4. UnkeyedAlone'
    BY <1>a, <1>b, WorkerParts
       DEF IInv, Replay, Locks, UnkeyedAlone, UnkeyedPCs
  <1>5. DurableKnown'
    BY <1>a, <1>b DEF IInv, Replay, Locks, DurableKnown
  <1>6. PendingIdle'
    <2>1. envStatus[w[2]] # "pending"
      BY <1>a DEF IInv, Replay, Locks, PendingIdle, Waiting
    <2> QED BY <1>a, <1>b, <2>1 DEF IInv, Replay, Locks, PendingIdle
  <1>7. ClaimIsLock'
    <2> SUFFICES ASSUME NEW j \in Jobs \ lapsed
                 PROVE  /\ starts'[j] <= 1
                        /\ \A v \in Workers : v[2] = j /\ pc'[v] \in PreStart =>
                             /\ starts'[j] = 0
                             /\ \A u \in Workers :
                                  u[2] = j /\ pc'[u] \in PreStart => u = v
      BY <1>a DEF ClaimIsLock
    <2>1. CASE j = w[2]
      <3>1. starts[j] = 0 /\ \A v \in Workers : v[2] = j /\ pc[v] \in PreStart => v = w
        BY <1>a, <2>1 DEF IInv, Replay, Locks, ClaimIsLock, PreStart
      <3> QED BY <1>a, <1>b, <2>1, <3>1 DEF PreStart
    <2>2. CASE j # w[2]
      BY <1>a, <1>b, <2>2 DEF IInv, Replay, Locks, ClaimIsLock
    <2> QED BY <2>1, <2>2
  <1> QED BY <1>1, <1>2, <1>3, <1>4, <1>5, <1>6, <1>7 DEF Replay, Ids, Fences, Locks

\* A claim the script accepts.  It is the only one: a pending job has not been
\* started, and the envelope of a processing job carries another token, so that
\* its lease must have run out.
LEMMA AcceptedClaim ==
    ASSUME IInv, NEW w \in Workers, pc[w] = "claim", Claimable(w[2], Tok(w)),
           claim_durable_execution(w[2], Tok(w)), NEW l \in {"check", "end"}, Goto(w, l),
           UNCHANGED <<mem, durable, gpc, boots, todo, pers, reqVars, starts, lapsed>>
    PROVE  Replay'
  <1> DEFINE j == w[2]
             t == Tok(w)
  <1>a. /\ w[1] \in Gateways /\ j \in Jobs /\ w = <<w[1], j>>
        /\ t = <<w[1], boots[w[1]]>> /\ boots[w[1]] \in Nat
    BY WorkerParts DEF Tok, IInv, TypeOK, GatewayTypeOK
  <1>b. /\ envStatus' = [envStatus EXCEPT ![j] = "processing"]
        /\ envToken' = [envToken EXCEPT ![j] = t]
        /\ envLease' = [envLease EXCEPT ![j] = LeaseTTL]
        /\ pc' = [pc EXCEPT ![w] = l]
    BY DEF claim_durable_execution, Goto
  <1>c. /\ pc \in [Workers -> PCs] /\ envStatus \in [Jobs -> EnvStatuses]
        /\ envToken \in [Jobs -> Tokens \cup {NoToken}] /\ envLease \in [Jobs -> 0 .. LeaseTTL]
    BY DEF IInv, TypeOK, TaskTypeOK, RedisTypeOK
  <1>d. envStatus[j] = "pending" \/ j \in lapsed
    <2>1. Unclaimed(w[1], j)
      BY <1>a DEF Unclaimed
    <2>2. envToken[j] # t
      BY <1>a, <2>1 DEF IInv, Replay, Fences, TokenFresh
    <2> QED BY <1>a, <2>2 DEF Claimable, Expired, IInv, Replay, Locks, ExpiredLapsed
  <1>e. ~Fresh(j) /\ w \in durable
    <2>1. ~Fresh(j)
      BY <1>a, NotFresh
    <2>2. pc[w] # "none" /\ pc[w] \notin UnkeyedPCs
      BY DEF UnkeyedPCs
    <2> QED BY <2>1, <2>2 DEF IInv, Replay, Locks, UnkeyedAlone
  <1> HIDE DEF j, t
  <1>1. DrawnOnce'
    BY DEF IInv, Replay, Ids, DrawnOnce
  <1>2. FreshIdle'
    BY <1>b, <1>c, <1>e DEF IInv, Replay, Ids, FreshIdle, Fresh, j
  <1>3. CreatedKnown'
    BY <1>b, <1>c DEF IInv, Replay, Ids, CreatedKnown
  <1>4. TokensPast'
    BY <1>a, <1>b, <1>c DEF IInv, Replay, Fences, TokensPast
  <1>5. TokenFresh'
    <2> SUFFICES ASSUME NEW g \in Gateways, NEW i \in Jobs, Unclaimed(g, i)'
                 PROVE  envToken'[i] # <<g, boots[g]>>
      BY DEF TokenFresh
    <2>1. <<g, i>> \in Workers
      BY WorkerParts
    <2>2. Unclaimed(g, i) /\ <<g, i>> # w
      <3>1. CASE gpc[g] \in {"reconcile", "list"}
        BY <1>a, <3>1 DEF Unclaimed, IInv, Shape, WorkerShape, WorkerOK
      <3>2. CASE gpc[g] = "recover" /\ i \in todo[g]
        BY <3>2 DEF Unclaimed, IInv, Replay, Fences, TodoIdle
      <3>3. CASE pc'[<<g, i>>] \in {"sched", "claim"}
        BY <1>b, <1>c, <2>1, <3>3 DEF Unclaimed
      <3>4. CASE \E r \in Requests : /\ rpc[r] \in {"reserve", "created"}
                                     /\ rgw[r] = g /\ rjob[r] = i
        <4>1. pc[<<g, i>>] = "none"
          BY <2>1, <3>4, WorkerParts
             DEF IInv, Replay, Ids, FreshIdle, Fresh, CreatedKnown
        <4> QED BY <3>4, <4>1 DEF Unclaimed
      <3> QED BY <3>1, <3>2, <3>3, <3>4 DEF Unclaimed
    <2>3. CASE i = j
      BY <1>a, <1>b, <1>c, <2>2, <2>3
    <2>4. CASE i # j
      BY <1>b, <1>c, <2>2, <2>4 DEF IInv, Replay, Fences, TokenFresh
    <2> QED BY <2>3, <2>4
  <1>6. TodoIdle'
    <2>1. \A g \in Gateways : gpc[g] = "recover" => \A i \in todo[g] :
            <<g, i>> \in Workers /\ pc[<<g, i>>] = "none"
      BY WorkerParts DEF IInv, TypeOK, GatewayTypeOK, Replay, Fences, TodoIdle
    <2> QED BY <1>b, <1>c, <2>1 DEF TodoIdle
  <1>7. UnkeyedAlone'
    BY <1>a, <1>b, <1>c, <1>e DEF IInv, Replay, Locks, UnkeyedAlone
  <1>8. DurableKnown'
    BY <1>a, <1>b, <1>c, WorkerParts DEF IInv, Replay, Locks, DurableKnown
  <1>9. PendingIdle'
    BY <1>a, <1>b, <1>c, WorkerParts DEF IInv, Replay, Locks, PendingIdle, j
  <1>10. ExpiredLapsed'
    BY <1>b, <1>c, LeaseAssumption DEF IInv, Replay, Locks, ExpiredLapsed
  <1>11. ClaimIsLock'
    <2> SUFFICES ASSUME NEW i \in Jobs \ lapsed
                 PROVE  /\ starts[i] <= 1
                        /\ \A v \in Workers : v[2] = i /\ pc'[v] \in PreStart =>
                             /\ starts[i] = 0
                             /\ \A u \in Workers :
                                  u[2] = i /\ pc'[u] \in PreStart => u = v
      BY DEF ClaimIsLock
    <2>1. CASE i = j
      <3>1. /\ starts[i] = 0
            /\ \A v \in Workers : v[2] = i => pc[v] \notin PreStart
        BY <1>d, <2>1 DEF IInv, Replay, Locks, PendingIdle, Waiting, PreStart
      <3> QED BY <1>b, <1>c, <3>1
    <2>2. CASE i # j
      BY <1>b, <1>c, <2>2 DEF IInv, Replay, Locks, ClaimIsLock, j
    <2> QED BY <2>1, <2>2
  <1> QED BY <1>1, <1>2, <1>3, <1>4, <1>5, <1>6, <1>7, <1>8, <1>9, <1>10, <1>11
          DEF Replay, Ids, Fences, Locks

\* The reservation makes the drawn job pending.
LEMMA ReserveReplay ==
    ASSUME IInv, NEW r \in Requests, Reserve(r)
    PROVE  Replay'
  <1> DEFINE j == rjob[r]
  <1>a. /\ rpc[r] = "reserve" /\ j \in Jobs
        /\ envStatus' = [envStatus EXCEPT ![j] = "pending"]
        /\ \A q \in Requests : q # r => rpc'[q] = rpc[q]
        /\ rpc'[r] # "reserve"
        /\ UNCHANGED <<envToken, envLease, mem, durable, pc, gpc, boots, todo, pers, rgw, rjob,
                       starts, lapsed>>
    <2>1. rpc[r] = "reserve" /\ j \in Jobs
      BY DEF Reserve, Reserving, IInv, Shape, RequestShape, RequestOK
    <2> QED BY <2>1 DEF Reserve, Answer, reserve_submission_with_job, IInv, TypeOK,
               RequestTypeOK
  <1>b. envStatus \in [Jobs -> EnvStatuses]
    BY DEF IInv, TypeOK, RedisTypeOK
  <1>c. /\ envStatus[j] = "absent" /\ starts[j] = 0
        /\ \A w \in Workers : w[2] = j => pc[w] = "none"
    BY <1>a DEF IInv, Replay, Ids, FreshIdle, Fresh
  <1> HIDE DEF j
  <1>1. DrawnOnce'
    BY <1>a DEF IInv, Replay, Ids, DrawnOnce
  <1>2. FreshIdle'
    <2>1. \A i \in Jobs : Fresh(i)' => Fresh(i) /\ i # j
      BY <1>a DEF Fresh, IInv, Replay, Ids, DrawnOnce, j
    <2> QED BY <1>a, <1>b, <2>1 DEF IInv, Replay, Ids, FreshIdle
  <1>3. CreatedKnown'
    <2> SUFFICES ASSUME NEW q \in Requests, rpc'[q] = "created"
                 PROVE  envStatus'[rjob[q]] # "absent" /\ pc[<<rgw[q], rjob[q]>>] = "none"
      BY <1>a DEF CreatedKnown
    <2>1. CASE q = r
      <3>1. rgw[r] \in Gateways
        BY <1>a DEF IInv, Shape, RequestShape, RequestOK, InFlight, Reserving
      <3> QED BY <1>a, <1>b, <1>c, <2>1, <3>1, WorkerParts DEF j
    <2>2. CASE q # r
      BY <1>a, <1>b, <2>2 DEF IInv, Replay, Ids, CreatedKnown
    <2> QED BY <2>1, <2>2
  <1>4. TokensPast' /\ TodoIdle'
    BY <1>a DEF IInv, Replay, Fences, TokensPast, TodoIdle
  <1>5. TokenFresh'
    BY <1>a DEF IInv, Replay, Fences, TokenFresh, Unclaimed
  <1>6. UnkeyedAlone'
    BY <1>a, <1>b, <1>c, WorkerParts DEF IInv, Replay, Locks, UnkeyedAlone, Keyed
  <1>7. DurableKnown' /\ PendingIdle' /\ ExpiredLapsed' /\ ClaimIsLock'
    BY <1>a, <1>b, <1>c, WorkerParts
       DEF IInv, Replay, Locks, DurableKnown, PendingIdle, Waiting, ExpiredLapsed, ClaimIsLock
  <1> QED BY <1>1, <1>2, <1>3, <1>4, <1>5, <1>6, <1>7 DEF Replay, Ids, Fences, Locks

\* A keyed admission draws a job id nobody knows.
LEMMA AdmitReplay ==
    ASSUME IInv, NEW r \in Requests, NEW j \in Jobs, Admit(r, j), Keyed(r)
    PROVE  Replay'
  <1>a. /\ rpc[r] = "lock" /\ rjob[r] = NoJob /\ \A q \in Requests : rjob[q] # j
        /\ rjob' = [rjob EXCEPT ![r] = j] /\ rpc' = [rpc EXCEPT ![r] = "reserve"]
        /\ UNCHANGED <<redisVars, mem, durable, pc, gpc, boots, todo, pers, rgw, starts, lapsed>>
    BY DEF Admit, Answer, IInv, Shape, RequestShape, RequestOK
  <1>b. rjob \in [Requests -> Jobs \cup {NoJob}] /\ DOMAIN rpc = Requests /\ NoJob \notin Jobs
    BY ConstantsAssumption DEF IInv, TypeOK, RequestTypeOK
  <1>c. /\ Fresh(j)
        /\ \A i \in Jobs : Fresh(i)' => Fresh(i)
    BY <1>a, <1>b DEF Fresh
  <1>1. DrawnOnce'
    BY <1>a, <1>b DEF IInv, Replay, Ids, DrawnOnce
  <1>2. FreshIdle'
    BY <1>a, <1>c DEF IInv, Replay, Ids, FreshIdle
  <1>3. CreatedKnown'
    BY <1>a, <1>b DEF IInv, Replay, Ids, CreatedKnown
  <1>4. TokensPast' /\ TodoIdle'
    BY <1>a DEF IInv, Replay, Fences, TokensPast, TodoIdle
  <1>5. TokenFresh'
    <2> SUFFICES ASSUME NEW g \in Gateways, NEW i \in Jobs, Unclaimed(g, i)'
                 PROVE  envToken[i] # <<g, boots[g]>>
      BY <1>a DEF TokenFresh
    <2>1. CASE i = j
      <3>1. boots[g] \in Nat
        BY DEF IInv, TypeOK, GatewayTypeOK
      <3> QED BY <1>c, <2>1, <3>1, NoTokenFresh DEF IInv, Replay, Ids, FreshIdle
    <2>2. CASE i # j
      BY <1>a, <1>b, <2>2 DEF Unclaimed, IInv, Replay, Fences, TokenFresh
    <2> QED BY <2>1, <2>2
  <1>6. UnkeyedAlone'
    BY <1>a, <1>b, WorkerParts DEF IInv, Replay, Locks, UnkeyedAlone, Keyed
  <1>7. DurableKnown' /\ PendingIdle' /\ ExpiredLapsed' /\ ClaimIsLock'
    BY <1>a DEF IInv, Replay, Locks, DurableKnown, PendingIdle, ExpiredLapsed, ClaimIsLock
  <1> QED BY <1>1, <1>2, <1>3, <1>4, <1>5, <1>6, <1>7 DEF Replay, Ids, Fences, Locks

\* A new process has a token that no envelope carries, and its recovery scan
\* lists jobs for which it has no task.
LEMMA StartupReplay ==
    ASSUME IInv, NEW g \in Gateways, Boot(g) \/ ListRecoverable(g)
    PROVE  Replay'
  <1>a. UNCHANGED <<envStatus, envToken, envLease, mem, durable, pc, pers, reqVars, starts, lapsed>>
    BY DEF Boot, ListRecoverable
  <1>b. /\ boots \in [Gateways -> Nat] /\ DOMAIN gpc = Gateways
        /\ todo \in [Gateways -> SUBSET Jobs]
    BY DEF IInv, TypeOK, GatewayTypeOK
  <1>1. DrawnOnce' /\ FreshIdle' /\ CreatedKnown'
    BY <1>a DEF IInv, Replay, Ids, DrawnOnce, FreshIdle, Fresh, CreatedKnown
  <1>2. UnkeyedAlone' /\ DurableKnown' /\ PendingIdle' /\ ExpiredLapsed' /\ ClaimIsLock'
    BY <1>a DEF IInv, Replay, Locks, UnkeyedAlone, DurableKnown, PendingIdle, ExpiredLapsed,
       ClaimIsLock
  <1>3. CASE Boot(g)
    <2>1. /\ boots' = [boots EXCEPT ![g] = @ + 1]
          /\ gpc' = [gpc EXCEPT ![g] = "reconcile"] /\ UNCHANGED todo
      BY <1>3 DEF Boot
    <2>2. TokensPast'
      BY <1>a, <1>b, <2>1 DEF IInv, Replay, Fences, TokensPast
    <2>3. TokenFresh'
      <3> SUFFICES ASSUME NEW h \in Gateways, NEW i \in Jobs, Unclaimed(h, i)'
                   PROVE  envToken[i] # <<h, boots'[h]>>
        BY <1>a DEF TokenFresh
      <3>1. CASE h = g
        BY <1>b, <2>1, <3>1 DEF IInv, Replay, Fences, TokensPast
      <3>2. CASE h # g
        BY <1>a, <1>b, <2>1, <3>2 DEF Unclaimed, IInv, Replay, Fences, TokenFresh
      <3> QED BY <3>1, <3>2
    <2>4. TodoIdle'
      BY <1>a, <2>1 DEF IInv, Replay, Fences, TodoIdle
    <2> QED BY <1>1, <1>2, <2>2, <2>3, <2>4 DEF Replay, Ids, Fences, Locks
  <1>4. CASE ListRecoverable(g)
    <2>1. /\ gpc[g] = "list" /\ gpc' = [gpc EXCEPT ![g] = "recover"]
          /\ UNCHANGED boots /\ \A h \in Gateways : h # g => todo'[h] = todo[h]
      BY <1>4, <1>b DEF ListRecoverable
    <2>2. todo' \in [Gateways -> SUBSET Jobs]
      BY <1>4, <1>b, ListType DEF ListRecoverable, IInv, TypeOK
    <2>3. TokensPast'
      BY <1>a, <2>1 DEF IInv, Replay, Fences, TokensPast
    <2>4. TokenFresh'
      <3>1. \A h \in Gateways, i \in Jobs : Unclaimed(h, i)' => Unclaimed(h, i)
        BY <1>a, <1>b, <2>1 DEF Unclaimed
      <3> QED BY <1>a, <2>1, <3>1 DEF IInv, Replay, Fences, TokenFresh
    <2>5. TodoIdle'
      <3> SUFFICES ASSUME NEW h \in Gateways, gpc'[h] = "recover", NEW i \in todo'[h]
                   PROVE  pc[<<h, i>>] = "none"
        BY <1>a DEF TodoIdle
      <3>1. CASE h = g
        BY <2>1, <2>2, <3>1, WorkerParts DEF IInv, Shape, WorkerShape, WorkerOK
      <3>2. CASE h # g
        BY <2>1, <3>2 DEF IInv, Replay, Fences, TodoIdle
      <3> QED BY <3>1, <3>2
    <2> QED BY <1>1, <1>2, <2>3, <2>4, <2>5 DEF Replay, Ids, Fences, Locks
  <1> QED BY <1>3, <1>4

\* What a step that schedules a task for job j in gateway g respects.  A durable
\* task is for a job that has an envelope and is not an unkeyed one; an unkeyed
\* job is new.
Schedules(g, j, isDurable) ==
    /\ NewRecord(<<g, j>>, isDurable) /\ pc[<<g, j>>] = "none"
    /\ UNCHANGED <<redisVars, gpc, boots, pers, starts, lapsed>>
    /\ envToken[j] # <<g, boots[g]>>
    /\ \A h \in Gateways : todo'[h] \subseteq todo[h]
    /\ j \notin todo'[g]
    /\ DrawnOnce'
    /\ \A i \in Jobs : Fresh(i)' => Fresh(i) /\ i # j
    /\ \A q \in Requests : rjob[q] \in Jobs => rjob'[q] = rjob[q]
    /\ \A q \in Requests :
         rpc'[q] \in {"reserve", "created"} =>
             /\ rpc'[q] = rpc[q] /\ rgw'[q] = rgw[q] /\ rjob'[q] = rjob[q]
             /\ <<rgw[q], rjob[q]>> # <<g, j>>

\* A new task leaves the invariant true.
LEMMA ScheduleReplay ==
    ASSUME IInv, NEW g \in Gateways, NEW j \in Jobs, NEW b \in BOOLEAN, Schedules(g, j, b),
           b => /\ envStatus[j] # "absent"
                /\ \A v \in Workers : v[2] = j /\ pc[v] # "none" => v \in durable,
           ~b => /\ \E q \in Requests : ~Keyed(q) /\ rjob'[q] = j
                 /\ envStatus[j] \notin {"pending", "processing"} /\ starts[j] = 0
                 /\ \A v \in Workers : v[2] = j => pc[v] = "none"
    PROVE  Replay'
  <1> SUFFICES ASSUME NewRecord(<<g, j>>, b), pc[<<g, j>>] = "none",
           UNCHANGED <<redisVars, gpc, boots, pers, starts, lapsed>>,
           envToken[j] # <<g, boots[g]>>,
           \A h \in Gateways : todo'[h] \subseteq todo[h], j \notin todo'[g],
           DrawnOnce', \A i \in Jobs : Fresh(i)' => Fresh(i) /\ i # j,
           \A q \in Requests : rjob[q] \in Jobs => rjob'[q] = rjob[q],
           \A q \in Requests :
               rpc'[q] \in {"reserve", "created"} =>
                   /\ rpc'[q] = rpc[q] /\ rgw'[q] = rgw[q] /\ rjob'[q] = rjob[q]
                   /\ <<rgw[q], rjob[q]>> # <<g, j>>
      PROVE  Replay'
    BY DEF Schedules
  <1> DEFINE w == <<g, j>>
  <1>a. /\ w \in Workers /\ w[1] = g /\ w[2] = j
        /\ pc \in [Workers -> PCs] /\ pc' = [pc EXCEPT ![w] = "sched"]
        /\ mem' = mem \cup {w}
        /\ durable' = IF b THEN durable \cup {w} ELSE durable \ {w}
    BY WorkerParts DEF IInv, TypeOK, TaskTypeOK, NewRecord, Goto
  <1>b. \A v \in Workers : v # w => pc'[v] = pc[v] /\ (v \in durable' <=> v \in durable)
    BY <1>a
  <1>c. pc'[w] = "sched" /\ (w \in durable' <=> b)
    BY <1>a
  <1> HIDE DEF w
  <1>2. FreshIdle'
    BY <1>a, <1>b DEF IInv, Replay, Ids, FreshIdle
  <1>3. CreatedKnown'
    <2> SUFFICES ASSUME NEW q \in Requests, rpc'[q] = "created"
                 PROVE  envStatus[rjob'[q]] # "absent" /\ pc'[<<rgw'[q], rjob'[q]>>] = "none"
      BY DEF CreatedKnown
    <2>1. /\ rpc[q] = "created" /\ rgw'[q] = rgw[q] /\ rjob'[q] = rjob[q]
          /\ <<rgw[q], rjob[q]>> # w
      BY DEF w
    <2>2. <<rgw[q], rjob[q]>> \in Workers
      BY <2>1, WorkerParts DEF IInv, Shape, RequestShape, RequestOK, InFlight, Reserving
    <2> QED BY <1>b, <2>1, <2>2 DEF IInv, Replay, Ids, CreatedKnown
  <1>4. TokensPast'
    BY DEF IInv, Replay, Fences, TokensPast
  <1>5. TokenFresh'
    <2> SUFFICES ASSUME NEW h \in Gateways, NEW i \in Jobs, Unclaimed(h, i)'
                 PROVE  envToken[i] # <<h, boots[h]>>
      BY DEF TokenFresh
    <2>1. CASE <<h, i>> = w
      BY <2>1 DEF w
    <2>2. CASE <<h, i>> # w
      <3>1. <<h, i>> \in Workers
        BY WorkerParts
      <3>2. Unclaimed(h, i)
        BY <1>b, <2>2, <3>1 DEF Unclaimed
      <3> QED BY <3>2 DEF IInv, Replay, Fences, TokenFresh
    <2> QED BY <2>1, <2>2
  <1>6. TodoIdle'
    <2> SUFFICES ASSUME NEW h \in Gateways, gpc[h] = "recover", NEW i \in todo'[h]
                 PROVE  pc'[<<h, i>>] = "none"
      BY DEF TodoIdle
    <2>1. i \in todo[h] /\ pc[<<h, i>>] = "none" /\ <<h, i>> \in Workers
      BY WorkerParts DEF IInv, Replay, Fences, TodoIdle, TypeOK, GatewayTypeOK
    <2>2. <<h, i>> # w
      BY DEF w
    <2> QED BY <1>b, <2>1, <2>2
  <1>7. UnkeyedAlone'
    <2> SUFFICES ASSUME NEW v \in Workers, pc'[v] # "none", v \notin durable'
                 PROVE  /\ \E q \in Requests : ~Keyed(q) /\ rjob'[q] = v[2]
                        /\ envStatus[v[2]] \notin {"pending", "processing"}
                        /\ pc'[v] \in UnkeyedPCs
                        /\ pc'[v] = "sched" => starts[v[2]] = 0
                        /\ \A u \in Workers : u[2] = v[2] /\ u # v => pc'[u] = "none"
      BY DEF UnkeyedAlone, Keyed
    <2>1. CASE v = w
      BY <1>a, <1>b, <1>c, <2>1 DEF UnkeyedPCs
    <2>2. CASE v # w
      <3>1. pc[v] # "none" /\ v \notin durable /\ pc'[v] = pc[v]
        BY <1>b, <2>2
      <3>2. v[2] # j
        BY <3>1
      <3> QED BY <1>a, <1>b, <3>1, <3>2, WorkerParts DEF IInv, Replay, Locks, UnkeyedAlone
    <2> QED BY <2>1, <2>2
  <1>8. DurableKnown'
    BY <1>a, <1>b, <1>c DEF IInv, Replay, Locks, DurableKnown
  <1>9. PendingIdle'
    BY <1>b, <1>c DEF IInv, Replay, Locks, PendingIdle, Waiting
  <1>10. ExpiredLapsed'
    BY DEF IInv, Replay, Locks, ExpiredLapsed
  <1>11. ClaimIsLock'
    BY <1>b, <1>c DEF IInv, Replay, Locks, ClaimIsLock, PreStart
  <1> QED BY <1>2, <1>3, <1>4, <1>5, <1>6, <1>7, <1>8, <1>9, <1>10, <1>11
          DEF Replay, Ids, Fences, Locks

\* create_job schedules the job it has just created.
LEMMA CreatedReplay ==
    ASSUME IInv, NEW r \in Requests, ReserveReply(r), rpc[r] = "created"
    PROVE  Replay'
  <1> DEFINE g == rgw[r]
             j == rjob[r]
  <1>a. /\ g \in Gateways /\ gpc[g] = "serving" /\ j \in Jobs /\ Keyed(r)
        /\ <<g, j>> \in Workers /\ <<g, j>>[2] = j
    BY WorkerParts DEF IInv, Shape, RequestShape, RequestOK, InFlight, Reserving
  <1>b. /\ NewRecord(<<g, j>>, TRUE)
        /\ UNCHANGED <<redisVars, gpc, boots, todo, pers, rgw, rjob, starts, lapsed>>
        /\ rpc' = [rpc EXCEPT ![r] = "acked"]
    BY DEF ReserveReply, Answer
  <1>c. rpc'[r] = "acked" /\ \A q \in Requests : q # r => rpc'[q] = rpc[q]
    BY <1>b DEF IInv, TypeOK, RequestTypeOK
  <1>1. pc[<<g, j>>] = "none" /\ envStatus[j] # "absent"
    BY DEF IInv, Replay, Ids, CreatedKnown
  <1>2. envToken[j] # <<g, boots[g]>>
    <2>1. Unclaimed(g, j)
      BY DEF Unclaimed
    <2> QED BY <1>a, <2>1 DEF IInv, Replay, Fences, TokenFresh
  <1>3. \A h \in Gateways : todo'[h] \subseteq todo[h]
    BY <1>b
  <1>4. j \notin todo'[g]
    BY <1>a, <1>b DEF IInv, Shape, GatewayShape, GatewayOK
  <1>5. \A q \in Requests : q # r => rjob[q] # j
    BY <1>a DEF IInv, Replay, Ids, DrawnOnce
  <1>6. DrawnOnce'
    BY <1>b DEF IInv, Replay, Ids, DrawnOnce
  <1>7. \A i \in Jobs : Fresh(i)' => Fresh(i) /\ i # j
    BY <1>b, <1>c, <1>5 DEF Fresh
  <1>8. \A q \in Requests :
           rpc'[q] \in {"reserve", "created"} =>
               /\ rpc'[q] = rpc[q] /\ rgw'[q] = rgw[q] /\ rjob'[q] = rjob[q]
               /\ <<rgw[q], rjob[q]>> # <<g, j>>
    BY <1>b, <1>c, <1>5
  <1>9. \A v \in Workers : v[2] = j /\ pc[v] # "none" => v \in durable
    BY <1>5, <1>a DEF IInv, Replay, Locks, UnkeyedAlone
  <1> HIDE DEF g, j
  <1>10. Schedules(g, j, TRUE)
    BY <1>b, <1>1, <1>2, <1>3, <1>4, <1>6, <1>7, <1>8 DEF Schedules
  <1> QED BY <1>a, <1>1, <1>9, <1>10, ScheduleReplay

\* create_job schedules an unkeyed job at once.
LEMMA UnkeyedReplay ==
    ASSUME IInv, NEW r \in Requests, NEW j \in Jobs, Admit(r, j), ~Keyed(r)
    PROVE  Replay'
  <1> DEFINE g == rgw[r]
  <1>a. /\ g \in Gateways /\ gpc[g] = "serving" /\ rjob[r] = NoJob
        /\ \A q \in Requests : rjob[q] # j
        /\ <<g, j>> \in Workers /\ <<g, j>>[2] = j
    BY WorkerParts DEF Admit, IInv, Shape, RequestShape, RequestOK, InFlight
  <1>b. /\ NewRecord(<<g, j>>, FALSE)
        /\ UNCHANGED <<redisVars, gpc, boots, todo, pers, rgw, starts, lapsed>>
        /\ rpc'[r] = "acked" /\ \A q \in Requests : q # r => rpc'[q] = rpc[q]
        /\ rjob'[r] = j /\ \A q \in Requests : q # r => rjob'[q] = rjob[q]
    BY DEF Admit, Answer, IInv, TypeOK, RequestTypeOK
  <1>c. NoJob \notin Jobs /\ rjob \in [Requests -> Jobs \cup {NoJob}]
    BY ConstantsAssumption DEF IInv, TypeOK, RequestTypeOK
  <1>1. /\ envStatus[j] = "absent" /\ envToken[j] = NoToken /\ starts[j] = 0
        /\ \A v \in Workers : v[2] = j => pc[v] = "none"
    BY <1>a DEF IInv, Replay, Ids, FreshIdle, Fresh
  <1>2. envToken[j] # <<g, boots[g]>>
    BY <1>a, <1>1, NoTokenFresh DEF IInv, TypeOK, GatewayTypeOK
  <1>3. \A h \in Gateways : todo'[h] \subseteq todo[h]
    BY <1>b
  <1>4. j \notin todo'[g]
    BY <1>a, <1>b DEF IInv, Shape, GatewayShape, GatewayOK
  <1>5. DrawnOnce'
    BY <1>a, <1>b, <1>c DEF IInv, Replay, Ids, DrawnOnce
  <1>6. \A i \in Jobs : Fresh(i)' => Fresh(i) /\ i # j
    BY <1>a, <1>b, <1>c DEF Fresh
  <1>7. \A q \in Requests : rjob[q] \in Jobs => rjob'[q] = rjob[q]
    BY <1>a, <1>b, <1>c
  <1>8. \A q \in Requests :
           rpc'[q] \in {"reserve", "created"} =>
               /\ rpc'[q] = rpc[q] /\ rgw'[q] = rgw[q] /\ rjob'[q] = rjob[q]
               /\ <<rgw[q], rjob[q]>> # <<g, j>>
    BY <1>a, <1>b
  <1>9. \E q \in Requests : ~Keyed(q) /\ rjob'[q] = j
    BY <1>b
  <1> HIDE DEF g
  <1>10. Schedules(g, j, FALSE)
    BY <1>a, <1>b, <1>1, <1>2, <1>3, <1>4, <1>5, <1>6, <1>7, <1>8 DEF Schedules
  <1> QED BY <1>a, <1>1, <1>9, <1>10, ScheduleReplay

\* The startup recovery schedules a job that it has not scheduled yet.
LEMMA RecoverReplay ==
    ASSUME IInv, NEW g \in Gateways, NEW j \in Jobs, RecoverJob(g, j)
    PROVE  Replay'
  <1>a. /\ gpc[g] = "recover" /\ j \in todo[g] /\ <<g, j>> \in Workers
        /\ todo' = [todo EXCEPT ![g] = @ \ {j}] /\ todo \in [Gateways -> SUBSET Jobs]
        /\ UNCHANGED <<redisVars, gpc, boots, pers, reqVars, starts, lapsed>>
    BY WorkerParts DEF RecoverJob, IInv, TypeOK, GatewayTypeOK
  <1>b. (\A h \in Gateways : todo'[h] \subseteq todo[h]) /\ j \notin todo'[g]
    BY <1>a
  <1>1. CASE UNCHANGED <<recordVars, taskVars>>
    <2>1. \A i \in Jobs : OkEnv(i)
      BY <1>a DEF OkEnv, IInv, Replay, Locks, ExpiredLapsed
    <2>2. Quiet
      BY <1>1, <1>a, <1>b, <2>1 DEF Quiet, OkMove, OkGateway, OkRequest
    <2> QED BY <2>2, QuietReplay
  <1>2. CASE Recoverable(g, j) /\ NewRecord(<<g, j>>, TRUE)
    <2>1. envStatus[j] \in {"pending", "processing"}
      BY <1>2 DEF Recoverable
    <2>2. pc[<<g, j>>] = "none"
      BY <1>a DEF IInv, Replay, Fences, TodoIdle
    <2>3. envToken[j] # <<g, boots[g]>>
      BY <1>a DEF Unclaimed, IInv, Replay, Fences, TokenFresh
    <2>4. DrawnOnce'
      BY <1>a DEF IInv, Replay, Ids, DrawnOnce
    <2>5. \A i \in Jobs : Fresh(i)' => Fresh(i) /\ i # j
      BY <1>a, <2>1 DEF Fresh, IInv, Replay, Ids, FreshIdle
    <2>6. \A q \in Requests : rpc[q] \in {"reserve", "created"} =>
             <<rgw[q], rjob[q]>> # <<g, j>>
      BY <1>a DEF IInv, Shape, RequestShape, RequestOK, InFlight, Reserving
    <2>7. \A v \in Workers : v[2] = j /\ pc[v] # "none" => v \in durable
      BY <2>1 DEF IInv, Replay, Locks, UnkeyedAlone
    <2>8. Schedules(g, j, TRUE)
      BY <1>2, <1>a, <1>b, <2>2, <2>3, <2>4, <2>5, <2>6 DEF Schedules
    <2> QED BY <2>1, <2>7, <2>8, ScheduleReplay
  <1> QED BY <1>1, <1>2 DEF RecoverJob

\* The answers to a claim.
LEMMA ClaimReplay ==
    ASSUME IInv, NEW w \in Workers, Claim(w) \/ ClaimFails(w)
    PROVE  Replay'
  <1>a. pc[w] = "claim" /\ \A v \in Workers : v # w => pc'[v] = pc[v]
    BY DEF Claim, ClaimFails, Goto, IInv, TypeOK, TaskTypeOK
  <1>1. CASE Claimable(w[2], Tok(w)) /\ claim_durable_execution(w[2], Tok(w))
    BY <1>1, AcceptedClaim DEF Claim, ClaimFails
  <1>2. CASE UNCHANGED redisVars /\ pc'[w] \in {"lost", "end"}
    <2>1. w \in durable
      BY <1>a DEF IInv, Replay, Locks, UnkeyedAlone, UnkeyedPCs
    <2>2. OkMove(w)
      BY <1>2, <1>a, <2>1 DEF OkMove, PreStart, Waiting
    <2>3. Quiet
      BY <1>2, <1>a, <2>2, MoveQuiet DEF Claim, ClaimFails
    <2> QED BY <2>3, QuietReplay
  <1>3. CASE ~Claimable(w[2], Tok(w))
    <2>1. UNCHANGED redisVars
      BY <1>3 DEF Claim, ClaimFails, claim_durable_execution
    <2>2. pc'[w] \in {"lost", "end"}
      BY <1>3 DEF Claim, ClaimFails, Goto, IInv, TypeOK, TaskTypeOK
    <2> QED BY <1>2, <2>1, <2>2
  <1>4. CASE ClaimFails(w) /\ UNCHANGED redisVars
    BY <1>2, <1>4 DEF ClaimFails, Goto, IInv, TypeOK, TaskTypeOK
  <1> QED BY <1>1, <1>3, <1>4 DEF Claim, ClaimFails

----------------------------------------------------------------------------
(* The theorem *)

\* Nothing has been drawn, claimed or started yet.
LEMMA InitReplay == Init => Replay
  <1> SUFFICES ASSUME Init PROVE Replay
    OBVIOUS
  <1>a. NoJob \notin Jobs
    BY ConstantsAssumption
  <1>1. Ids
    BY <1>a, WorkerParts DEF Init, RedisInit, Ids, DrawnOnce, FreshIdle, CreatedKnown
  <1>2. Fences
    BY NoTokenFresh, WorkerParts
       DEF Init, RedisInit, Fences, TokensPast, TokenFresh, TodoIdle, Unclaimed
  <1>3. Locks
    BY WorkerParts DEF Init, RedisInit, Locks, UnkeyedAlone, DurableKnown, PendingIdle,
       ExpiredLapsed, ClaimIsLock, PreStart
  <1> QED BY <1>1, <1>2, <1>3 DEF Replay

\* Every step of the system, and every stuttering step, preserves the part of
\* the invariant that the types do not give.
LEMMA ReplayStep == IInv /\ [Next]_vars => Replay'
  <1> SUFFICES ASSUME IInv, [Next]_vars PROVE Replay'
    OBVIOUS
  <1>1. ASSUME NEW r \in Requests,
               \/ RequestStep(r) \/ RequestFails(r) \/ \E g \in Gateways : Submit(r, g)
        PROVE  Replay'
    <2>1. CASE \/ FindSubmission(r) \/ Refuse(r) \/ RequestFails(r)
               \/ (ReserveReply(r) /\ rpc[r] # "created")
               \/ \E g \in Gateways : Submit(r, g)
      BY <2>1, RequestQuiet, QuietReplay
    <2>2. CASE Reserve(r)
      BY <2>2, ReserveReplay
    <2>3. CASE ReserveReply(r) /\ rpc[r] = "created"
      BY <2>3, CreatedReplay
    <2>4. ASSUME NEW j \in Jobs, Admit(r, j) PROVE Replay'
      BY <2>4, AdmitReplay, UnkeyedReplay
    <2> QED BY <1>1, <2>1, <2>2, <2>3, <2>4 DEF RequestStep
  <1>2. ASSUME NEW w \in Workers,
               \/ TaskStep(w) \/ Renew(w) \/ PollIntent(w) \/ CancelJob(w) \/ CancelStep(w)
               \/ WorkerFault(w) \/ CleanupOldJob(w)
        PROVE  Replay'
    <2>1. CASE Claim(w) \/ ClaimFails(w)
      BY <2>1, ClaimReplay
    <2>2. CASE StartRemote(w)
      BY <2>2, StartReplay
    <2>3. CASE \/ EnterRunJob(w) \/ LoseClaim(w) \/ CheckIntent(w) \/ CheckIntentFails(w)
               \/ HonourIntent(w) \/ Begin(w) \/ FailBeforeStart(w)
               \/ (\E x \in Exits : StreamEnds(w, x))
               \/ Classify(w) \/ Reaped(w) \/ Complete(w) \/ EndTask(w)
      BY <2>3, TaskQuiet, QuietReplay
    <2>4. CASE \/ Finish(w) \/ FinishFails(w) \/ Persist(w) \/ Renew(w) \/ PollIntent(w)
               \/ CancelJob(w) \/ RequestCancellation(w) \/ CancellationFails(w)
               \/ CancelReply(w) \/ CleanupOldJob(w)
      BY <2>4, StoreQuiet, QuietReplay
    <2> QED BY <1>2, <2>1, <2>2, <2>3, <2>4 DEF TaskStep, CancelStep, WorkerFault
  <1>3. ASSUME NEW g \in Gateways,
               \/ CloseSession(g) \/ Boot(g) \/ StartupStep(g) \/ Crash(g) \/ Shutdown(g)
               \/ DrainDone(g) \/ ForceCleanup(g) \/ CleanupDone(g)
               \/ \E j \in Jobs : PersistCleaned(g, j)
        PROVE  Replay'
    <2>1. CASE Boot(g) \/ ListRecoverable(g)
      BY <2>1, StartupReplay
    <2>2. CASE \E j \in Jobs : RecoverJob(g, j)
      BY <2>2, RecoverReplay
    <2>3. CASE \/ CloseSession(g) \/ Reconcile(g) \/ Serve(g) \/ Shutdown(g) \/ GoDown(g)
               \/ ForceCleanup(g) \/ \E j \in Jobs : PersistCleaned(g, j)
      BY <2>3, GatewayQuiet, QuietReplay
    <2> QED BY <1>3, <2>1, <2>2, <2>3 DEF StartupStep, Crash, DrainDone, CleanupDone
  <1>4. CASE Tick \/ UNCHANGED vars
    BY <1>4, TickQuiet, QuietReplay
  <1> QED BY <1>1, <1>2, <1>3, <1>4 DEF Next

\* The invariant is inductive.
THEOREM ReplayInvariant == Spec => []IInv
  <1>1. Init => IInv
    BY InitShape, InitReplay DEF IInv
  <1>2. IInv /\ [Next]_vars => IInv'
    BY ShapeStep, ReplayStep DEF IInv
  <1> QED BY <1>1, <1>2, PTL DEF Spec

\* No blind replay, for any number of gateways, jobs, requests, restarts and
\* faults: as long as no processing lease of a job has run out, its command is
\* handed to the remote host at most once (the claim inside _run_job).
THEOREM NoReplay == Spec => []NoBlindReplay
  <1>1. IInv => NoBlindReplay
    BY DEF IInv, Replay, Locks, ClaimIsLock, NoBlindReplay
  <1> QED BY <1>1, ReplayInvariant, PTL
=============================================================================
