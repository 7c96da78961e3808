-------------------------- MODULE JobManagerTypes ---------------------------
(***************************************************************************)
(* Type correctness of JobManager, for every value of its constants, and   *)
(* the shape of its bookkeeping, on which the other proofs rest.           *)
(***************************************************************************)
EXTENDS JobManager, TLAPS

----------------------------------------------------------------------------
(* Types alone are not inductive: Shape adds which values of the           *)
(* bookkeeping variables go together.                                      *)

\* A request being served has a live gateway; one that talks to Redis has a
\* key; one that is reserving has drawn a job id.
RequestOK(r) ==
    /\ rpc[r] \in InFlight => rgw[r] \in Gateways /\ gpc[rgw[r]] = "serving"
    /\ rpc[r] \in InFlight \ {"lock"} => Keyed(r)
    /\ rpc[r] \in Reserving => rjob[r] \in Jobs
    /\ rpc[r] \in {"idle", "find", "lock", "full"} => rjob[r] = NoJob

\* A process that runs has booted; what a startup or a forced cleanup has still
\* to do, and what a drain waits for, exists only then.
GatewayOK(g) ==
    /\ gpc[g] # "down" => boots[g] > 0
    /\ gpc[g] \notin {"recover", "draining"} => todo[g] = {}
    /\ gpc[g] # "cleanup" => pers[g] = {}
    /\ \A j \in pers[g] : st[<<g, j>>] \in TERMINAL_STATES

\* Tasks and cancellations belong to running processes; the arguments of the
\* Redis calls in flight are well-formed.
WorkerOK(w) ==
    /\ pc[w] # "none" => gpc[w[1]] \in {"recover", "serving", "draining", "cleanup"}
    /\ gpc[w[1]] = "cleanup" => pc[w] \in {"none", "reap", "finish", "fin", "end"}
    /\ can[w] # "idle" => w \in durable /\ gpc[w[1]] = "serving"
    /\ pc[w] \in {"finish", "cfinish"} =>
         arg[w] \in TERMINAL_STATES /\ att[w] < FinishAttempts
    /\ pc[w] \notin {"finish", "cfinish", "fin", "end"} => att[w] = 0
    /\ pc[w] = "persist" => st[w] \in TERMINAL_STATES /\ w \notin durable

RequestShape == \A r \in Requests : RequestOK(r)
GatewayShape == \A g \in Gateways : GatewayOK(g)
WorkerShape  == \A w \in Workers : WorkerOK(w)

\* Some request drew job id j.
Drawn(j) == \E r \in Requests : rjob[r] = j

\* Only drawn ids name live envelopes, records, and cancellations in flight.
EnvDrawn == \A j \in Jobs : envStatus[j] \in {"pending", "processing"} => Drawn(j)
RecDrawn == \A w \in mem : Drawn(w[2])
CanDrawn == \A w \in Workers : can[w] # "idle" => Drawn(w[2])

Shape == RequestShape /\ GatewayShape /\ WorkerShape /\ EnvDrawn /\ RecDrawn
           /\ CanDrawn

----------------------------------------------------------------------------
(* Types and shape *)

USE DEF redisVars, recordVars, taskVars, gwVars, reqVars, histVars

\* Workers are pairs of a gateway and a job.
LEMMA WorkerParts ==
    /\ \A w \in Workers : w[1] \in Gateways /\ w[2] \in Jobs
    /\ \A g \in Gateways, j \in Jobs :
         <<g, j>> \in Workers /\ <<g, j>>[1] = g /\ <<g, j>>[2] = j
    /\ \A w \in Workers : w = <<w[1], w[2]>>
  BY DEF Workers

\* The token of a worker with a task is well-formed: its gateway has booted.
LEMMA TokType ==
    ASSUME TypeOK, Shape, NEW w \in Workers, pc[w] # "none"
    PROVE  Tok(w) \in Tokens
  <1>1. w[1] \in Gateways /\ gpc[w[1]] # "down"
    BY WorkerParts DEF Shape, WorkerShape, WorkerOK
  <1>2. boots[w[1]] \in 1 .. MaxBoots
    BY <1>1, ConstantsAssumption DEF Shape, GatewayShape, GatewayOK, TypeOK, GatewayTypeOK
  <1> QED BY <1>1, <1>2 DEF Tok, Tokens

\* The scripts of the store keep its types.
LEMMA ReserveType ==
    ASSUME RedisTypeOK, NEW k \in Keys, NEW i \in Idents, NEW j \in Jobs,
           reserve_submission_with_job(k, i, j)
    PROVE  RedisTypeOK'
  BY DEF RedisTypeOK, reserve_submission_with_job, EnvStatuses

\* An accepted claim stores a token of a running process and a full lease.
LEMMA ClaimType ==
    ASSUME RedisTypeOK, NEW j \in Jobs, NEW t \in Tokens, claim_durable_execution(j, t)
    PROVE  RedisTypeOK'
  BY LeaseAssumption DEF RedisTypeOK, claim_durable_execution, EnvStatuses

\* A renewal keeps the lease within LeaseTTL.
LEMMA RenewType ==
    ASSUME RedisTypeOK, NEW j \in Jobs, NEW t, heartbeat_durable_execution(j, t)
    PROVE  RedisTypeOK'
  BY LeaseAssumption DEF RedisTypeOK, heartbeat_durable_execution

\* The fenced finish stores a terminal status.
LEMMA FinishType ==
    ASSUME RedisTypeOK, NEW j \in Jobs, NEW t, NEW s \in TERMINAL_STATES,
           finish_durable_execution(j, t, s)
    PROVE  RedisTypeOK'
  BY DEF RedisTypeOK, finish_durable_execution, Archive, EnvStatuses

\* A cancellation request changes no more than the status and the flag.
LEMMA CancelType ==
    ASSUME RedisTypeOK, NEW j \in Jobs, request_durable_cancellation(j)
    PROVE  RedisTypeOK'
  BY DEF RedisTypeOK, request_durable_cancellation, EnvStatuses, TERMINAL_STATES

\* The unfenced mirror of force_cleanup and of unkeyed jobs stores a terminal status.
LEMMA SaveType ==
    ASSUME RedisTypeOK, NEW j \in Jobs, NEW s \in TERMINAL_STATES,
           save_terminal_job(j, s) \/ save_terminal_job_fails(j, s)
    PROVE  RedisTypeOK'
  BY DEF RedisTypeOK, save_terminal_job, save_terminal_job_fails, SetTerminal, Archive,
     EnvStatuses

\* Startup reconciliation turns envelopes into "ambiguous" ones.
LEMMA ReconcileType ==
    ASSUME RedisTypeOK, reconcile_expired_cancelled_processing
    PROVE  RedisTypeOK'
  BY DEF RedisTypeOK, reconcile_expired_cancelled_processing, ExpiredProcessing,
         EnvStatuses, TERMINAL_STATES

\* The recovery scan names jobs only.
LEMMA ListType ==
    ASSUME RedisTypeOK
    PROVE  /\ list_recoverable_durable_jobs \subseteq Jobs
           /\ ExpiredProcessing \ envCancel \subseteq Jobs
  BY DEF RedisTypeOK, list_recoverable_durable_jobs, ExpiredProcessing, PendingClaims

\* Nothing is left to persist in a gateway whose tasks are running, but for the
\* ones that force_cleanup could not stop.
LEMMA PersDown ==
    ASSUME TypeOK, Shape, NEW w \in Workers,
           \/ pc[w] \notin {"none", "reap", "finish", "fin", "end"} \/ can[w] # "idle" \/ gpc[w[1]] = "serving"
    PROVE  w[1] \in Gateways /\ pers[w[1]] = {}
  BY WorkerParts DEF Shape, WorkerShape, WorkerOK, GatewayShape, GatewayOK

\* Shape survives a change of one worker's record, in a process without
\* outcomes to persist.
LEMMA GatewayFrame ==
    ASSUME TypeOK, Shape, NEW w \in Workers, pers[w[1]] = {},
           UNCHANGED <<gpc, boots, todo, pers>>,
           \A v \in Workers : v # w => st'[v] = st[v]
    PROVE  GatewayShape'
  <1> SUFFICES ASSUME NEW g \in Gateways PROVE GatewayOK(g)'
    BY DEF GatewayShape
  <1>1. GatewayOK(g)
    BY DEF Shape, GatewayShape
  <1>2. ASSUME NEW j \in pers[g] PROVE st'[<<g, j>>] \in TERMINAL_STATES
    <2>1. <<g, j>> # w /\ <<g, j>> \in Workers
      <3>1. j \in Jobs
        BY DEF TypeOK, GatewayTypeOK
      <3> QED BY <3>1, WorkerParts
    <2> QED BY <2>1, <1>1 DEF GatewayOK
  <1> QED BY <1>1, <1>2 DEF GatewayOK

\* active_operations never goes below zero.
LEMMA PinType ==
    ASSUME GatewayTypeOK, NEW g \in Gateways, Pin(g) \/ Unpin(g) \/ UNCHANGED ops
    PROVE  ops' \in [Gateways -> Nat]
  <1>1. CASE Pin(g)
    BY <1>1 DEF GatewayTypeOK, Pin
  <1>2. CASE Unpin(g)
    BY <1>2 DEF GatewayTypeOK, Unpin
  <1> QED BY <1>1, <1>2 DEF GatewayTypeOK

\* A failing Redis call stays within the bound on faults.
LEMMA FaultType ==
    ASSUME HistoryTypeOK, RedisFault \/ UNCHANGED faults
    PROVE  faults' \in 0 .. MaxFaults
  BY ConstantsAssumption DEF HistoryTypeOK, RedisFault

\* A process that ends forgets its tasks.
LEMMA ForgetType ==
    ASSUME TaskTypeOK, NEW g \in Gateways, NEW S, ForgetTasks(g, S)
    PROVE  TaskTypeOK'
  BY ConstantsAssumption DEF TaskTypeOK, ForgetTasks, PCs

\* A process that forgets its tasks leaves its workers without any, or with one
\* that is awaiting its heartbeat.
LEMMA ForgetShape ==
    ASSUME TypeOK, Shape, NEW g \in Gateways, NEW S, ForgetTasks(g, S),
           S = {} \/ (S = {"reap"} /\ gpc'[g] = "cleanup"),
           \A h \in Gateways : h # g => gpc'[h] = gpc[h],
           \A w \in Workers : w[1] # g =>
               st'[w] = st[w] /\ (w \in durable' <=> w \in durable)
    PROVE  WorkerShape'
  <1> SUFFICES ASSUME NEW v \in Workers PROVE WorkerOK(v)'
    BY DEF WorkerShape
  <1>1. WorkerOK(v) /\ v[1] \in Gateways
    BY WorkerParts DEF Shape, WorkerShape
  <1>2. CASE v[1] = g
    <2>1. pc'[v] = "none" \/ (pc'[v] = "reap" /\ gpc'[g] = "cleanup")
      BY <1>2 DEF ForgetTasks
    <2>2. att'[v] = 0 /\ can'[v] = "idle"
      BY <1>2 DEF ForgetTasks
    <2> QED BY <1>2, <2>1, <2>2 DEF WorkerOK
  <1>3. CASE v[1] # g
    BY <1>1, <1>3 DEF WorkerOK, ForgetTasks
  <1> QED BY <1>2, <1>3

\* A new record and its task.
LEMMA NewRecordType ==
    ASSUME RecordTypeOK, TaskTypeOK, NEW w \in Workers, NEW b, NewRecord(w, b),
           UNCHANGED can
    PROVE  RecordTypeOK' /\ TaskTypeOK'
  <1>1. RecordTypeOK'
    BY DEF RecordTypeOK, NewRecord, ExitCodes, ACTIVE_STATES
  <1>2. TaskTypeOK'
    BY ConstantsAssumption DEF TaskTypeOK, NewRecord, Goto, PCs
  <1> QED BY <1>1, <1>2

\* A new task is at the beginning of _run_job.
LEMMA NewRecordShape ==
    ASSUME RecordTypeOK, TaskTypeOK, WorkerShape, NEW w \in Workers, NEW b,
           NewRecord(w, b), UNCHANGED <<can, gpc>>,
           gpc[w[1]] \in {"recover", "serving"}, can[w] = "idle" \/ b
    PROVE  WorkerShape'
  <1> SUFFICES ASSUME NEW v \in Workers PROVE WorkerOK(v)'
    BY DEF WorkerShape
  <1>1. WorkerOK(v)
    BY DEF WorkerShape
  <1>2. CASE v = w
    BY <1>1, <1>2 DEF WorkerOK, NewRecord, Goto, RecordTypeOK, TaskTypeOK
  <1>3. CASE v # w
    BY <1>1, <1>3 DEF WorkerOK, NewRecord, Goto, RecordTypeOK, TaskTypeOK
  <1> QED BY <1>2, <1>3

\* Initially every record is absent and every process is down.
LEMMA InitShape == Init => TypeOK /\ Shape
  <1> SUFFICES ASSUME Init PROVE TypeOK /\ Shape
    OBVIOUS
  <1>1. RedisTypeOK
    BY LeaseAssumption DEF Init, RedisInit, RedisTypeOK, EnvStatuses
  <1>2. RecordTypeOK /\ TaskTypeOK
    BY ConstantsAssumption DEF Init, RecordTypeOK, TaskTypeOK, ExitCodes, PCs
  <1>3. GatewayTypeOK /\ RequestTypeOK /\ HistoryTypeOK
    BY ConstantsAssumption DEF Init, GatewayTypeOK, RequestTypeOK, HistoryTypeOK
  <1>4. Shape
    BY WorkerParts DEF Init, RedisInit, Shape, RequestShape, GatewayShape, WorkerShape,
       RequestOK, GatewayOK, WorkerOK, EnvDrawn, RecDrawn, CanDrawn, InFlight, Reserving
  <1> QED BY <1>1, <1>2, <1>3, <1>4 DEF TypeOK

\* A new request keeps types and shape.
LEMMA SubmitShape ==
    ASSUME TypeOK, Shape, NEW r \in Requests, NEW g \in Gateways,
           Submit(r, g)
    PROVE  TypeOK' /\ Shape'
  <1>1. CASE Submit(r, g)
    <2>1. RequestTypeOK'
      BY <1>1 DEF TypeOK, RequestTypeOK, InFlight, Reserving, Submit, Answer
    <2>2. RequestShape'
      BY <1>1 DEF TypeOK, RequestShape, RequestOK, Shape, InFlight, Reserving,
         Submit, RequestTypeOK, Answer, Keyed
    <2>3. RedisTypeOK' /\ RecordTypeOK' /\ TaskTypeOK' /\ GatewayTypeOK' /\
          HistoryTypeOK'
      BY <1>1 DEF TypeOK, Shape, RedisTypeOK, RecordTypeOK, TaskTypeOK,
         GatewayTypeOK, HistoryTypeOK, Submit
    <2>4. GatewayShape' /\ WorkerShape' /\ EnvDrawn' /\ RecDrawn' /\ CanDrawn'
      BY <1>1 DEF TypeOK, Shape, GatewayShape, WorkerShape, EnvDrawn, RecDrawn,
         CanDrawn, GatewayOK, WorkerOK, Drawn, Submit
    <2> QED BY <2>1, <2>2, <2>3, <2>4 DEF TypeOK, Shape
  <1> QED BY <1>1

\* Admission keeps types and shape: the job id it draws is a new one.
LEMMA AdmitShape ==
    ASSUME TypeOK, Shape, NEW r \in Requests, NEW j \in Jobs,
           Admit(r, j)
    PROVE  TypeOK' /\ Shape'
  <1>1. CASE Admit(r, j)
    <2>a. /\ rgw[r] \in Gateways /\ gpc[rgw[r]] = "serving" /\ rjob[r] = NoJob
          /\ <<rgw[r], j>> \in Workers /\ ~Drawn(j)
      BY <1>1, WorkerParts DEF Admit, Shape, RequestShape, RequestOK, InFlight, Drawn
    <2>1. RecordTypeOK'
      BY <1>1, <2>a, NewRecordType DEF TypeOK, RecordTypeOK, Admit
    <2>2. TaskTypeOK'
      BY <1>1, <2>a, NewRecordType DEF TypeOK, TaskTypeOK, Admit
    <2>3. GatewayTypeOK'
      BY <1>1, <2>a DEF TypeOK, GatewayTypeOK, Admit, Pin
    <2>4. RequestTypeOK'
      BY <1>1, <2>a, ZenonT(60) DEF TypeOK, RequestTypeOK, InFlight, Reserving, Admit, Answer
    <2>5. RequestShape'
      <3> SUFFICES ASSUME NEW q \in Requests PROVE RequestOK(q)'
        BY DEF RequestShape
      <3>1. RequestOK(q)
        BY DEF Shape, RequestShape
      <3>2. CASE q = r
        BY <1>1, <2>a, <3>2, ZenonT(60) DEF TypeOK, RequestTypeOK, RequestOK, InFlight, Reserving,
           Admit, Answer, Keyed
      <3>3. CASE q # r
        BY <1>1, <3>1, <3>3 DEF TypeOK, RequestTypeOK, RequestOK, Admit, Answer, Keyed
      <3> QED BY <3>2, <3>3
    <2>6. GatewayShape'
      <3> DEFINE w == <<rgw[r], j>>
      <3>1. \A v \in Workers : v # w => st'[v] = st[v]
        BY <1>1, <2>a DEF TypeOK, RecordTypeOK, Admit, NewRecord
      <3>2. w \in Workers /\ gpc[w[1]] = "serving"
        BY <2>a, WorkerParts
      <3> HIDE DEF w
      <3> QED BY <1>1, <3>1, <3>2, PersDown, GatewayFrame DEF Admit
    <2>7. WorkerShape'
      <3>1. CASE Keyed(r)
        BY <1>1, <3>1 DEF Admit, Shape, WorkerShape, WorkerOK
      <3>2. CASE ~Keyed(r)
        <4>1. can[<<rgw[r], j>>] = "idle" /\ <<rgw[r], j>>[1] = rgw[r]
          BY <2>a, WorkerParts DEF Shape, CanDrawn
        <4>2. NewRecord(<<rgw[r], j>>, FALSE) /\ UNCHANGED <<can, gpc>>
          BY <1>1, <3>2 DEF Admit
        <4> QED BY <2>a, <4>1, <4>2, NewRecordShape DEF TypeOK, Shape
      <3> QED BY <3>1, <3>2
    <2>8. EnvDrawn'
      BY <1>1, <2>a, ConstantsAssumption DEF TypeOK, EnvDrawn, Shape, Drawn, Admit,
         RequestTypeOK
    <2>9. RecDrawn'
      BY <1>1, <2>a, ConstantsAssumption, WorkerParts DEF TypeOK, RecDrawn, Shape,
         Drawn, Admit, RequestTypeOK, RecordTypeOK, NewRecord
    <2>10. CanDrawn'
      BY <1>1, <2>a, ConstantsAssumption, WorkerParts DEF TypeOK, CanDrawn, Shape,
         Drawn, Admit, RequestTypeOK
    <2>11. RedisTypeOK' /\ HistoryTypeOK'
      BY <1>1 DEF TypeOK, Shape, RedisTypeOK, HistoryTypeOK, Admit
    <2> QED BY <2>1, <2>2, <2>3, <2>4, <2>5, <2>6, <2>7, <2>8, <2>9, <2>10, <2>11 DEF TypeOK, Shape
  <1> QED BY <1>1

\* The rest of create_job keeps types and shape.
LEMMA RequestShapeStep ==
    ASSUME TypeOK, Shape, NEW r \in Requests,
           FindSubmission(r) \/ Refuse(r) \/ Reserve(r) \/ RequestFails(r) \/
             ReserveReply(r)
    PROVE  TypeOK' /\ Shape'
  <1>1. CASE FindSubmission(r)
    <2>a. KeyOf[r] \in Keys /\ IdentOf[r] \in Idents
      BY <1>1, ConstantsAssumption DEF FindSubmission, Shape, RequestShape, RequestOK, InFlight,
         Reserving, Keyed
    <2>1. RequestTypeOK'
      BY <1>1, <2>a DEF TypeOK, RequestTypeOK, InFlight, Reserving, FindSubmission,
         RedisTypeOK, Answer
    <2>2. RequestShape'
      BY <1>1, <2>a DEF TypeOK, RequestShape, RequestOK, Shape, InFlight, Reserving,
         FindSubmission, RequestTypeOK, Answer, Keyed
    <2>3. RedisTypeOK' /\ RecordTypeOK' /\ TaskTypeOK' /\ GatewayTypeOK' /\
          HistoryTypeOK'
      BY <1>1 DEF TypeOK, Shape, RedisTypeOK, RecordTypeOK, TaskTypeOK,
         GatewayTypeOK, HistoryTypeOK, FindSubmission
    <2>4. GatewayShape' /\ WorkerShape' /\ EnvDrawn' /\ RecDrawn' /\ CanDrawn'
      BY <1>1 DEF TypeOK, Shape, GatewayShape, WorkerShape, EnvDrawn, RecDrawn,
         CanDrawn, GatewayOK, WorkerOK, Drawn, FindSubmission
    <2> QED BY <2>1, <2>2, <2>3, <2>4 DEF TypeOK, Shape
  <1>2. CASE Refuse(r)
    <2>1. RequestTypeOK'
      BY <1>2 DEF TypeOK, RequestTypeOK, InFlight, Reserving, Refuse, Answer
    <2>2. RequestShape'
      BY <1>2 DEF TypeOK, RequestShape, RequestOK, Shape, InFlight, Reserving,
         Refuse, RequestTypeOK, Answer, Keyed
    <2>3. RedisTypeOK' /\ RecordTypeOK' /\ TaskTypeOK' /\ GatewayTypeOK' /\
          HistoryTypeOK'
      BY <1>2 DEF TypeOK, Shape, RedisTypeOK, RecordTypeOK, TaskTypeOK,
         GatewayTypeOK, HistoryTypeOK, Refuse
    <2>4. GatewayShape' /\ WorkerShape' /\ EnvDrawn' /\ RecDrawn' /\ CanDrawn'
      BY <1>2 DEF TypeOK, Shape, GatewayShape, WorkerShape, EnvDrawn, RecDrawn,
         CanDrawn, GatewayOK, WorkerOK, Drawn, Refuse
    <2> QED BY <2>1, <2>2, <2>3, <2>4 DEF TypeOK, Shape
  <1>3. CASE Reserve(r)
    <2>a. KeyOf[r] \in Keys /\ IdentOf[r] \in Idents /\ rjob[r] \in Jobs
      BY <1>3, ConstantsAssumption DEF Reserve, Shape, RequestShape, RequestOK, InFlight,
         Reserving, Keyed
    <2>1. RedisTypeOK'
      BY <1>3, <2>a, ReserveType DEF TypeOK, Reserve
    <2>2. RequestTypeOK'
      BY <1>3, <2>a DEF TypeOK, RequestTypeOK, InFlight, Reserving, Reserve, Answer
    <2>3. RequestShape'
      BY <1>3, <2>a DEF TypeOK, RequestShape, RequestOK, Shape, InFlight, Reserving,
         Reserve, RequestTypeOK, Answer, Keyed
    <2>4. EnvDrawn'
      BY <1>3, <2>a DEF TypeOK, EnvDrawn, Shape, Drawn, Reserve, RedisTypeOK,
         TERMINAL_STATES, reserve_submission_with_job
    <2>5. RecordTypeOK' /\ TaskTypeOK' /\ GatewayTypeOK' /\ HistoryTypeOK' /\
          GatewayShape' /\ WorkerShape' /\ RecDrawn' /\ CanDrawn'
      BY <1>3 DEF TypeOK, Shape, RecordTypeOK, TaskTypeOK, GatewayTypeOK,
         HistoryTypeOK, GatewayShape, WorkerShape, RecDrawn, CanDrawn, GatewayOK,
         WorkerOK, Drawn, Reserve
    <2> QED BY <2>1, <2>2, <2>3, <2>4, <2>5 DEF TypeOK, Shape
  <1>4. CASE RequestFails(r)
    <2>1. GatewayTypeOK' /\ RequestTypeOK' /\ HistoryTypeOK'
      BY <1>4, ConstantsAssumption, SMTT(30) DEF TypeOK, GatewayTypeOK, RequestFails, Unpin,
         Shape, RequestShape, RequestOK, InFlight, Reserving, RequestTypeOK, Answer,
         HistoryTypeOK, RedisFault
    <2>2. RequestShape'
      BY <1>4 DEF TypeOK, RequestShape, RequestOK, Shape, InFlight, Reserving,
         RequestFails, RequestTypeOK, Answer, Keyed
    <2>3. RedisTypeOK' /\ RecordTypeOK' /\ TaskTypeOK' /\ GatewayShape' /\
          WorkerShape' /\ EnvDrawn' /\ RecDrawn' /\ CanDrawn'
      BY <1>4 DEF TypeOK, Shape, RedisTypeOK, RecordTypeOK, TaskTypeOK,
         GatewayShape, WorkerShape, EnvDrawn, RecDrawn, CanDrawn, GatewayOK,
         WorkerOK, Drawn, RequestFails
    <2> QED BY <2>1, <2>2, <2>3 DEF TypeOK, Shape
  <1>5. CASE ReserveReply(r)
    <2>a. /\ rgw[r] \in Gateways /\ gpc[rgw[r]] = "serving" /\ rjob[r] \in Jobs
          /\ <<rgw[r], rjob[r]>> \in Workers /\ KeyOf[r] \in Keys
      <3>1. rpc[r] \in Reserving /\ RequestOK(r)
        BY <1>5 DEF ReserveReply, Reserving, Shape, RequestShape
      <3>2. rpc[r] \in InFlight \ {"lock"}
        BY <3>1 DEF InFlight, Reserving
      <3> QED BY <3>1, <3>2, WorkerParts, ConstantsAssumption DEF RequestOK, Keyed
    <2>1. RecordTypeOK'
      BY <1>5, <2>a, NewRecordType DEF TypeOK, RecordTypeOK, ReserveReply
    <2>2. TaskTypeOK'
      BY <1>5, <2>a, NewRecordType DEF TypeOK, TaskTypeOK, ReserveReply
    <2>3. GatewayTypeOK'
      BY <1>5, <2>a, PinType DEF TypeOK, GatewayTypeOK, ReserveReply
    <2>4. RequestTypeOK'
      BY <1>5, <2>a, ZenonT(60) DEF TypeOK, RequestTypeOK, InFlight, Reserving, ReserveReply,
         Answer, RedisTypeOK
    <2>5. RequestShape'
      BY <1>5, <2>a DEF TypeOK, RequestShape, RequestOK, Shape, InFlight, Reserving,
         ReserveReply, RequestTypeOK, Answer, Keyed
    <2>6. GatewayShape'
      <3> DEFINE w == <<rgw[r], rjob[r]>>
      <3>1. \A v \in Workers : v # w => st'[v] = st[v]
        BY <1>5, <2>a DEF TypeOK, RecordTypeOK, ReserveReply, NewRecord
      <3>2. w \in Workers /\ gpc[w[1]] = "serving"
        BY <2>a, WorkerParts
      <3> HIDE DEF w
      <3> QED BY <1>5, <3>1, <3>2, PersDown, GatewayFrame DEF ReserveReply
    <2>7. WorkerShape'
      <3>1. CASE rpc[r] # "created"
        BY <1>5, <3>1, ZenonT(60) DEF ReserveReply, Shape, WorkerShape, WorkerOK
      <3>2. CASE rpc[r] = "created"
        <4>1. NewRecord(<<rgw[r], rjob[r]>>, TRUE) /\ UNCHANGED <<can, gpc>>
          BY <1>5, <3>2 DEF ReserveReply
        <4> QED BY <2>a, <4>1, WorkerParts, NewRecordShape DEF TypeOK, Shape
      <3> QED BY <3>1, <3>2
    <2>8. RecDrawn'
      BY <1>5, <2>a, WorkerParts DEF TypeOK, RecDrawn, Shape, Drawn, ReserveReply,
         RequestTypeOK, RecordTypeOK, NewRecord
    <2>9. RedisTypeOK' /\ HistoryTypeOK' /\ EnvDrawn' /\ CanDrawn'
      BY <1>5 DEF TypeOK, Shape, RedisTypeOK, HistoryTypeOK, EnvDrawn, CanDrawn,
         Drawn, ReserveReply
    <2> QED BY <2>1, <2>2, <2>3, <2>4, <2>5, <2>6, <2>7, <2>8, <2>9 DEF TypeOK, Shape
  <1> QED BY <1>1, <1>2, <1>3, <1>4, <1>5

\* The first half of _run_job keeps types and shape.
LEMMA RunShapeStep ==
    ASSUME TypeOK, Shape, NEW w \in Workers,
           EnterRunJob(w) \/ Claim(w) \/ ClaimFails(w) \/ LoseClaim(w) \/
             CheckIntent(w) \/ CheckIntentFails(w) \/ HonourIntent(w) \/ Begin(w) \/
             FailBeforeStart(w) \/ StartRemote(w)
    PROVE  TypeOK' /\ Shape'
  <1>1. CASE EnterRunJob(w)
    <2>1. RecordTypeOK' /\ TaskTypeOK'
      BY <1>1 DEF TypeOK, RecordTypeOK, ExitCodes, ACTIVE_STATES, TERMINAL_STATES,
         EnterRunJob, BeginRun, TaskTypeOK, PCs, Goto
    <2>2. GatewayShape'
      <3>1. \A v \in Workers : v # w => st'[v] = st[v]
        BY <1>1 DEF TypeOK, RecordTypeOK, EnterRunJob, RecordTypeOK, BeginRun,
           TERMINAL_STATES
      <3>2. pc[w] # "none" \/ can[w] # "idle" \/ gpc[w[1]] = "serving"
        BY <1>1 DEF EnterRunJob
      <3> QED BY <1>1, <3>1, <3>2, PersDown, GatewayFrame DEF EnterRunJob
    <2>3. WorkerShape'
      BY <1>1, ConstantsAssumption DEF TypeOK, Shape, WorkerShape, WorkerOK,
         EnterRunJob, RecordTypeOK, TaskTypeOK, TERMINAL_STATES, BeginRun, Goto
    <2>4. RedisTypeOK' /\ GatewayTypeOK' /\ RequestTypeOK' /\ HistoryTypeOK' /\
          RequestShape' /\ EnvDrawn' /\ RecDrawn' /\ CanDrawn'
      BY <1>1 DEF TypeOK, Shape, RedisTypeOK, GatewayTypeOK, RequestTypeOK,
         HistoryTypeOK, RequestShape, EnvDrawn, RecDrawn, CanDrawn, RequestOK,
         Drawn, EnterRunJob
    <2> QED BY <2>1, <2>2, <2>3, <2>4 DEF TypeOK, Shape
  <1>2. CASE Claim(w)
    <2>1. RedisTypeOK' /\ TaskTypeOK'
      BY <1>2, ClaimType, TokType, WorkerParts DEF TypeOK, RedisTypeOK, EnvStatuses,
         TERMINAL_STATES, Claim, TaskTypeOK, PCs, Goto
    <2>2. WorkerShape'
      BY <1>2, ConstantsAssumption DEF TypeOK, Shape, WorkerShape, WorkerOK, Claim,
         RecordTypeOK, TaskTypeOK, TERMINAL_STATES, Goto
    <2>3. EnvDrawn'
      BY <1>2, WorkerParts DEF TypeOK, EnvDrawn, Shape, Drawn, Claim, RedisTypeOK,
         TERMINAL_STATES, claim_durable_execution, Claimable
    <2>4. RecordTypeOK' /\ GatewayTypeOK' /\ RequestTypeOK' /\ HistoryTypeOK' /\
          RequestShape' /\ GatewayShape' /\ RecDrawn' /\ CanDrawn'
      BY <1>2 DEF TypeOK, Shape, RecordTypeOK, GatewayTypeOK, RequestTypeOK,
         HistoryTypeOK, RequestShape, GatewayShape, RecDrawn, CanDrawn, RequestOK,
         GatewayOK, Drawn, Claim
    <2> QED BY <2>1, <2>2, <2>3, <2>4 DEF TypeOK, Shape
  <1>3. CASE ClaimFails(w)
    <2>1. RedisTypeOK' /\ TaskTypeOK' /\ HistoryTypeOK'
      BY <1>3, ClaimType, TokType, WorkerParts, ConstantsAssumption DEF TypeOK,
         RedisTypeOK, EnvStatuses, TERMINAL_STATES, ClaimFails, TaskTypeOK, PCs,
         Goto, HistoryTypeOK, RedisFault
    <2>2. WorkerShape'
      BY <1>3, ConstantsAssumption DEF TypeOK, Shape, WorkerShape, WorkerOK,
         ClaimFails, RecordTypeOK, TaskTypeOK, TERMINAL_STATES, Goto
    <2>3. EnvDrawn'
      BY <1>3, WorkerParts DEF TypeOK, EnvDrawn, Shape, Drawn, ClaimFails,
         RedisTypeOK, TERMINAL_STATES, claim_durable_execution, Claimable
    <2>4. RecordTypeOK' /\ GatewayTypeOK' /\ RequestTypeOK' /\ RequestShape' /\
          GatewayShape' /\ RecDrawn' /\ CanDrawn'
      BY <1>3 DEF TypeOK, Shape, RecordTypeOK, GatewayTypeOK, RequestTypeOK,
         RequestShape, GatewayShape, RecDrawn, CanDrawn, RequestOK, GatewayOK,
         Drawn, ClaimFails
    <2> QED BY <2>1, <2>2, <2>3, <2>4 DEF TypeOK, Shape
  <1>4. CASE LoseClaim(w)
    <2>1. RecordTypeOK' /\ TaskTypeOK'
      BY <1>4 DEF TypeOK, RecordTypeOK, ExitCodes, ACTIVE_STATES, TERMINAL_STATES,
         LoseClaim, TaskTypeOK, PCs, Goto
    <2>2. WorkerShape'
      BY <1>4, ConstantsAssumption DEF TypeOK, Shape, WorkerShape, WorkerOK,
         LoseClaim, RecordTypeOK, TaskTypeOK, TERMINAL_STATES, Goto
    <2>3. RecDrawn'
      BY <1>4 DEF TypeOK, RecDrawn, Shape, Drawn, LoseClaim
    <2>4. RedisTypeOK' /\ GatewayTypeOK' /\ RequestTypeOK' /\ HistoryTypeOK' /\
          RequestShape' /\ GatewayShape' /\ EnvDrawn' /\ CanDrawn'
      BY <1>4 DEF TypeOK, Shape, RedisTypeOK, GatewayTypeOK, RequestTypeOK,
         HistoryTypeOK, RequestShape, GatewayShape, EnvDrawn, CanDrawn, RequestOK,
         GatewayOK, Drawn, LoseClaim
    <2> QED BY <2>1, <2>2, <2>3, <2>4 DEF TypeOK, Shape
  <1>5. CASE CheckIntent(w)
    <2>1. TaskTypeOK'
      BY <1>5 DEF TypeOK, TaskTypeOK, PCs, TERMINAL_STATES, CheckIntent, Goto
    <2>2. WorkerShape'
      BY <1>5, ConstantsAssumption DEF TypeOK, Shape, WorkerShape, WorkerOK,
         CheckIntent, RecordTypeOK, TaskTypeOK, TERMINAL_STATES, Goto
    <2>3. RedisTypeOK' /\ RecordTypeOK' /\ GatewayTypeOK' /\ RequestTypeOK' /\
          HistoryTypeOK'
      BY <1>5 DEF TypeOK, Shape, RedisTypeOK, RecordTypeOK, GatewayTypeOK,
         RequestTypeOK, HistoryTypeOK, CheckIntent
    <2>4. RequestShape' /\ GatewayShape' /\ EnvDrawn' /\ RecDrawn' /\ CanDrawn'
      BY <1>5 DEF TypeOK, Shape, RequestShape, GatewayShape, EnvDrawn, RecDrawn,
         CanDrawn, RequestOK, GatewayOK, Drawn, CheckIntent
    <2> QED BY <2>1, <2>2, <2>3, <2>4 DEF TypeOK, Shape
  <1>6. CASE CheckIntentFails(w)
    <2>1. TaskTypeOK' /\ HistoryTypeOK'
      BY <1>6, ConstantsAssumption DEF TypeOK, TaskTypeOK, PCs, TERMINAL_STATES,
         CheckIntentFails, Goto, HistoryTypeOK, RedisFault
    <2>2. WorkerShape'
      BY <1>6, ConstantsAssumption DEF TypeOK, Shape, WorkerShape, WorkerOK,
         CheckIntentFails, RecordTypeOK, TaskTypeOK, TERMINAL_STATES, Goto
    <2>3. RedisTypeOK' /\ RecordTypeOK' /\ GatewayTypeOK' /\ RequestTypeOK' /\
          RequestShape' /\ GatewayShape' /\ EnvDrawn' /\ RecDrawn' /\ CanDrawn'
      BY <1>6 DEF TypeOK, Shape, RedisTypeOK, RecordTypeOK, GatewayTypeOK,
         RequestTypeOK, RequestShape, GatewayShape, EnvDrawn, RecDrawn, CanDrawn,
         RequestOK, GatewayOK, Drawn, CheckIntentFails
    <2> QED BY <2>1, <2>2, <2>3 DEF TypeOK, Shape
  <1>7. CASE HonourIntent(w)
    <2>1. RecordTypeOK' /\ TaskTypeOK'
      BY <1>7 DEF TypeOK, RecordTypeOK, ExitCodes, ACTIVE_STATES, TERMINAL_STATES,
         HonourIntent, TaskTypeOK, PCs, Goto
    <2>2. GatewayShape'
      <3>1. \A v \in Workers : v # w => st'[v] = st[v]
        BY <1>7 DEF TypeOK, RecordTypeOK, HonourIntent, RecordTypeOK,
           TERMINAL_STATES
      <3>2. pc[w] # "none" \/ can[w] # "idle" \/ gpc[w[1]] = "serving"
        BY <1>7 DEF HonourIntent
      <3> QED BY <1>7, <3>1, <3>2, PersDown, GatewayFrame DEF HonourIntent
    <2>3. WorkerShape'
      BY <1>7, ConstantsAssumption DEF TypeOK, Shape, WorkerShape, WorkerOK,
         HonourIntent, RecordTypeOK, TaskTypeOK, TERMINAL_STATES, Goto
    <2>4. RedisTypeOK' /\ GatewayTypeOK' /\ RequestTypeOK' /\ HistoryTypeOK' /\
          RequestShape' /\ EnvDrawn' /\ RecDrawn' /\ CanDrawn'
      BY <1>7 DEF TypeOK, Shape, RedisTypeOK, GatewayTypeOK, RequestTypeOK,
         HistoryTypeOK, RequestShape, EnvDrawn, RecDrawn, CanDrawn, RequestOK,
         Drawn, HonourIntent
    <2> QED BY <2>1, <2>2, <2>3, <2>4 DEF TypeOK, Shape
  <1>8. CASE Begin(w)
    <2>1. RecordTypeOK' /\ TaskTypeOK'
      BY <1>8 DEF TypeOK, RecordTypeOK, ExitCodes, ACTIVE_STATES, TERMINAL_STATES,
         Begin, BeginRun, TaskTypeOK, PCs, Goto
    <2>2. GatewayShape'
      <3>1. \A v \in Workers : v # w => st'[v] = st[v]
        BY <1>8 DEF TypeOK, RecordTypeOK, Begin, RecordTypeOK, BeginRun
      <3>2. pc[w] # "none" \/ can[w] # "idle" \/ gpc[w[1]] = "serving"
        BY <1>8 DEF Begin
      <3> QED BY <1>8, <3>1, <3>2, PersDown, GatewayFrame DEF Begin
    <2>3. WorkerShape'
      BY <1>8, ConstantsAssumption DEF TypeOK, Shape, WorkerShape, WorkerOK, Begin,
         RecordTypeOK, TaskTypeOK, TERMINAL_STATES, BeginRun, Goto
    <2>4. RedisTypeOK' /\ GatewayTypeOK' /\ RequestTypeOK' /\ HistoryTypeOK' /\
          RequestShape' /\ EnvDrawn' /\ RecDrawn' /\ CanDrawn'
      BY <1>8 DEF TypeOK, Shape, RedisTypeOK, GatewayTypeOK, RequestTypeOK,
         HistoryTypeOK, RequestShape, EnvDrawn, RecDrawn, CanDrawn, RequestOK,
         Drawn, Begin
    <2> QED BY <2>1, <2>2, <2>3, <2>4 DEF TypeOK, Shape
  <1>9. CASE FailBeforeStart(w)
    <2>1. RecordTypeOK' /\ TaskTypeOK'
      BY <1>9 DEF TypeOK, RecordTypeOK, ExitCodes, ACTIVE_STATES, TERMINAL_STATES,
         FailBeforeStart, TaskTypeOK, PCs, EnterFinally, Goto
    <2>2. GatewayShape'
      <3>1. \A v \in Workers : v # w => st'[v] = st[v]
        BY <1>9 DEF TypeOK, RecordTypeOK, FailBeforeStart, RecordTypeOK,
           TERMINAL_STATES
      <3>2. pc[w] # "none" \/ can[w] # "idle" \/ gpc[w[1]] = "serving"
        BY <1>9 DEF FailBeforeStart
      <3> QED BY <1>9, <3>1, <3>2, PersDown, GatewayFrame DEF FailBeforeStart
    <2>3. WorkerShape'
      BY <1>9, ConstantsAssumption DEF TypeOK, Shape, WorkerShape, WorkerOK,
         FailBeforeStart, RecordTypeOK, TaskTypeOK, TERMINAL_STATES, EnterFinally,
         Goto
    <2>4. RedisTypeOK' /\ GatewayTypeOK' /\ RequestTypeOK' /\ HistoryTypeOK' /\
          RequestShape' /\ EnvDrawn' /\ RecDrawn' /\ CanDrawn'
      BY <1>9 DEF TypeOK, Shape, RedisTypeOK, GatewayTypeOK, RequestTypeOK,
         HistoryTypeOK, RequestShape, EnvDrawn, RecDrawn, CanDrawn, RequestOK,
         Drawn, FailBeforeStart
    <2> QED BY <2>1, <2>2, <2>3, <2>4 DEF TypeOK, Shape
  <1>10. CASE StartRemote(w)
    <2>1. TaskTypeOK' /\ GatewayTypeOK' /\ HistoryTypeOK'
      BY <1>10, WorkerParts DEF TypeOK, TaskTypeOK, PCs, TERMINAL_STATES,
         StartRemote, Goto, GatewayTypeOK, Pin, HistoryTypeOK
    <2>2. WorkerShape'
      BY <1>10, ConstantsAssumption DEF TypeOK, Shape, WorkerShape, WorkerOK,
         StartRemote, RecordTypeOK, TaskTypeOK, TERMINAL_STATES, Goto
    <2>3. RedisTypeOK' /\ RecordTypeOK' /\ RequestTypeOK' /\ RequestShape' /\
          GatewayShape' /\ EnvDrawn' /\ RecDrawn' /\ CanDrawn'
      BY <1>10 DEF TypeOK, Shape, RedisTypeOK, RecordTypeOK, RequestTypeOK,
         RequestShape, GatewayShape, EnvDrawn, RecDrawn, CanDrawn, RequestOK,
         GatewayOK, Drawn, StartRemote
    <2> QED BY <2>1, <2>2, <2>3 DEF TypeOK, Shape
  <1> QED BY <1>1, <1>2, <1>3, <1>4, <1>5, <1>6, <1>7, <1>8, <1>9, <1>10

\* The end of a stream keeps types and shape.
LEMMA StreamShape ==
    ASSUME TypeOK, Shape, NEW w \in Workers, NEW x \in Exits,
           StreamEnds(w, x)
    PROVE  TypeOK' /\ Shape'
  <1>1. CASE StreamEnds(w, x)
    <2>1. RecordTypeOK'
      BY <1>1, ConstantsAssumption DEF TypeOK, RecordTypeOK, ExitCodes,
         ACTIVE_STATES, TERMINAL_STATES, StreamEnds
    <2>2. TaskTypeOK'
      BY <1>1 DEF TypeOK, TaskTypeOK, PCs, TERMINAL_STATES, StreamEnds, Goto
    <2>3. GatewayTypeOK'
      BY <1>1, WorkerParts DEF TypeOK, GatewayTypeOK, StreamEnds, Unpin
    <2>4. HistoryTypeOK'
      BY <1>1, TokType, WorkerParts DEF TypeOK, HistoryTypeOK, StreamEnds
    <2>5. WorkerShape'
      BY <1>1, ConstantsAssumption DEF TypeOK, Shape, WorkerShape, WorkerOK,
         StreamEnds, RecordTypeOK, TaskTypeOK, TERMINAL_STATES, Goto
    <2>6. RedisTypeOK' /\ RequestTypeOK' /\ RequestShape' /\ GatewayShape' /\
          EnvDrawn' /\ RecDrawn' /\ CanDrawn'
      BY <1>1 DEF TypeOK, Shape, RedisTypeOK, RequestTypeOK, RequestShape,
         GatewayShape, EnvDrawn, RecDrawn, CanDrawn, RequestOK, GatewayOK, Drawn,
         StreamEnds
    <2> QED BY <2>1, <2>2, <2>3, <2>4, <2>5, <2>6 DEF TypeOK, Shape
  <1> QED BY <1>1

\* The second half of _run_job keeps types and shape.
LEMMA EndShapeStep ==
    ASSUME TypeOK, Shape, NEW w \in Workers,
           Classify(w) \/ Reaped(w) \/ Finish(w) \/ FinishFails(w) \/ Persist(w) \/
             Complete(w) \/ EndTask(w)
    PROVE  TypeOK' /\ Shape'
  <1>1. CASE Classify(w)
    <2>1. RecordTypeOK' /\ TaskTypeOK'
      BY <1>1 DEF TypeOK, RecordTypeOK, ExitCodes, ACTIVE_STATES, TERMINAL_STATES,
         Classify, Outcome, TaskTypeOK, PCs, EnterFinally, Goto
    <2>2. GatewayShape'
      <3>1. \A v \in Workers : v # w => st'[v] = st[v]
        BY <1>1 DEF TypeOK, RecordTypeOK, Classify, RecordTypeOK, Outcome,
           TERMINAL_STATES
      <3>2. pc[w] # "none" \/ can[w] # "idle" \/ gpc[w[1]] = "serving"
        BY <1>1 DEF Classify
      <3> QED BY <1>1, <3>1, <3>2, PersDown, GatewayFrame DEF Classify
    <2>3. WorkerShape'
      BY <1>1, ConstantsAssumption DEF TypeOK, Shape, WorkerShape, WorkerOK,
         Classify, RecordTypeOK, TaskTypeOK, TERMINAL_STATES, EnterFinally, Goto,
         Outcome
    <2>4. RedisTypeOK' /\ GatewayTypeOK' /\ RequestTypeOK' /\ HistoryTypeOK' /\
          RequestShape' /\ EnvDrawn' /\ RecDrawn' /\ CanDrawn'
      BY <1>1 DEF TypeOK, Shape, RedisTypeOK, GatewayTypeOK, RequestTypeOK,
         HistoryTypeOK, RequestShape, EnvDrawn, RecDrawn, CanDrawn, RequestOK,
         Drawn, Classify
    <2> QED BY <2>1, <2>2, <2>3, <2>4 DEF TypeOK, Shape
  <1>2. CASE Reaped(w)
    <2>1. TaskTypeOK'
      BY <1>2 DEF TypeOK, TaskTypeOK, PCs, TERMINAL_STATES, Reaped, Goto
    <2>2. WorkerShape'
      BY <1>2, ConstantsAssumption DEF TypeOK, Shape, WorkerShape, WorkerOK, Reaped,
         RecordTypeOK, TaskTypeOK, TERMINAL_STATES, Goto
    <2>3. RedisTypeOK' /\ RecordTypeOK' /\ GatewayTypeOK' /\ RequestTypeOK' /\
          HistoryTypeOK'
      BY <1>2 DEF TypeOK, Shape, RedisTypeOK, RecordTypeOK, GatewayTypeOK,
         RequestTypeOK, HistoryTypeOK, Reaped
    <2>4. RequestShape' /\ GatewayShape' /\ EnvDrawn' /\ RecDrawn' /\ CanDrawn'
      BY <1>2 DEF TypeOK, Shape, RequestShape, GatewayShape, EnvDrawn, RecDrawn,
         CanDrawn, RequestOK, GatewayOK, Drawn, Reaped
    <2> QED BY <2>1, <2>2, <2>3, <2>4 DEF TypeOK, Shape
  <1>3. CASE Finish(w)
    <2>1. RedisTypeOK'
      BY <1>3, FinishType, WorkerParts DEF TypeOK, RedisTypeOK, EnvStatuses,
         TERMINAL_STATES, Finish, Shape, WorkerShape, WorkerOK
    <2>2. TaskTypeOK'
      BY <1>3 DEF TypeOK, TaskTypeOK, PCs, TERMINAL_STATES, Finish, AfterFinish,
         Goto
    <2>3. WorkerShape'
      BY <1>3, ConstantsAssumption DEF TypeOK, Shape, WorkerShape, WorkerOK, Finish,
         RecordTypeOK, TaskTypeOK, TERMINAL_STATES, AfterFinish, Goto
    <2>4. EnvDrawn'
      BY <1>3, WorkerParts DEF TypeOK, EnvDrawn, Shape, Drawn, Finish, RedisTypeOK,
         TERMINAL_STATES, finish_durable_execution, OwnedBy, WorkerShape, WorkerOK
    <2>5. RecordTypeOK' /\ GatewayTypeOK' /\ RequestTypeOK' /\ HistoryTypeOK' /\
          RequestShape' /\ GatewayShape' /\ RecDrawn' /\ CanDrawn'
      BY <1>3 DEF TypeOK, Shape, RecordTypeOK, GatewayTypeOK, RequestTypeOK,
         HistoryTypeOK, RequestShape, GatewayShape, RecDrawn, CanDrawn, RequestOK,
         GatewayOK, Drawn, Finish
    <2> QED BY <2>1, <2>2, <2>3, <2>4, <2>5 DEF TypeOK, Shape
  <1>4. CASE FinishFails(w)
    <2>1. RedisTypeOK'
      BY <1>4, FinishType, WorkerParts DEF TypeOK, RedisTypeOK, EnvStatuses,
         TERMINAL_STATES, FinishFails, Shape, WorkerShape, WorkerOK
    <2>2. TaskTypeOK'
      BY <1>4, ConstantsAssumption DEF TypeOK, TaskTypeOK, PCs, TERMINAL_STATES,
         FinishFails, Shape, WorkerShape, WorkerOK, AnotherAttempt, AfterFinish,
         Goto
    <2>3. HistoryTypeOK'
      BY <1>4, ConstantsAssumption DEF TypeOK, HistoryTypeOK, FinishFails,
         RedisFault
    <2>4. WorkerShape'
      BY <1>4, ConstantsAssumption DEF TypeOK, Shape, WorkerShape, WorkerOK,
         FinishFails, RecordTypeOK, TaskTypeOK, TERMINAL_STATES, AnotherAttempt,
         AfterFinish, Goto
    <2>5. EnvDrawn'
      BY <1>4, WorkerParts DEF TypeOK, EnvDrawn, Shape, Drawn, FinishFails,
         RedisTypeOK, TERMINAL_STATES, finish_durable_execution, OwnedBy,
         WorkerShape, WorkerOK
    <2>6. RecordTypeOK' /\ GatewayTypeOK' /\ RequestTypeOK' /\ RequestShape' /\
          GatewayShape' /\ RecDrawn' /\ CanDrawn'
      BY <1>4 DEF TypeOK, Shape, RecordTypeOK, GatewayTypeOK, RequestTypeOK,
         RequestShape, GatewayShape, RecDrawn, CanDrawn, RequestOK, GatewayOK,
         Drawn, FinishFails
    <2> QED BY <2>1, <2>2, <2>3, <2>4, <2>5, <2>6 DEF TypeOK, Shape
  <1>5. CASE Persist(w)
    <2>1. RedisTypeOK'
      BY <1>5, SaveType, WorkerParts DEF TypeOK, RedisTypeOK, EnvStatuses,
         TERMINAL_STATES, Persist, Shape, WorkerShape, WorkerOK
    <2>2. TaskTypeOK'
      BY <1>5 DEF TypeOK, TaskTypeOK, PCs, TERMINAL_STATES, Persist, Goto
    <2>3. HistoryTypeOK'
      BY <1>5, ConstantsAssumption DEF TypeOK, HistoryTypeOK, Persist, RedisFault
    <2>4. WorkerShape'
      BY <1>5, ConstantsAssumption DEF TypeOK, Shape, WorkerShape, WorkerOK,
         Persist, RecordTypeOK, TaskTypeOK, TERMINAL_STATES, Goto
    <2>5. EnvDrawn'
      BY <1>5, WorkerParts DEF TypeOK, EnvDrawn, Shape, Drawn, Persist, RedisTypeOK,
         TERMINAL_STATES, save_terminal_job, save_terminal_job_fails, SetTerminal, WorkerShape, WorkerOK
    <2>6. RecordTypeOK' /\ GatewayTypeOK' /\ RequestTypeOK' /\ RequestShape' /\
          GatewayShape' /\ RecDrawn' /\ CanDrawn'
      BY <1>5 DEF TypeOK, Shape, RecordTypeOK, GatewayTypeOK, RequestTypeOK,
         RequestShape, GatewayShape, RecDrawn, CanDrawn, RequestOK, GatewayOK,
         Drawn, Persist
    <2> QED BY <2>1, <2>2, <2>3, <2>4, <2>5, <2>6 DEF TypeOK, Shape
  <1>6. CASE Complete(w)
    <2>1. RecordTypeOK' /\ TaskTypeOK'
      BY <1>6 DEF TypeOK, RecordTypeOK, ExitCodes, ACTIVE_STATES, TERMINAL_STATES,
         Complete, TaskTypeOK, PCs, Goto
    <2>2. WorkerShape'
      BY <1>6, ConstantsAssumption DEF TypeOK, Shape, WorkerShape, WorkerOK,
         Complete, RecordTypeOK, TaskTypeOK, TERMINAL_STATES, Goto
    <2>3. RedisTypeOK' /\ GatewayTypeOK' /\ RequestTypeOK' /\ HistoryTypeOK' /\
          RequestShape' /\ GatewayShape' /\ EnvDrawn' /\ RecDrawn' /\ CanDrawn'
      BY <1>6 DEF TypeOK, Shape, RedisTypeOK, GatewayTypeOK, RequestTypeOK,
         HistoryTypeOK, RequestShape, GatewayShape, EnvDrawn, RecDrawn, CanDrawn,
         RequestOK, GatewayOK, Drawn, Complete
    <2> QED BY <2>1, <2>2, <2>3 DEF TypeOK, Shape
  <1>7. CASE EndTask(w)
    <2>1. TaskTypeOK'
      BY <1>7, ConstantsAssumption DEF TypeOK, TaskTypeOK, PCs, TERMINAL_STATES,
         EndTask, Goto
    <2>2. GatewayTypeOK'
      BY <1>7, WorkerParts DEF TypeOK, GatewayTypeOK, EndTask, Unpin
    <2>3. WorkerShape'
      BY <1>7, ConstantsAssumption DEF TypeOK, Shape, WorkerShape, WorkerOK,
         EndTask, RecordTypeOK, TaskTypeOK, TERMINAL_STATES, Goto
    <2>4. RedisTypeOK' /\ RecordTypeOK' /\ RequestTypeOK' /\ HistoryTypeOK' /\
          RequestShape' /\ GatewayShape' /\ EnvDrawn' /\ RecDrawn' /\ CanDrawn'
      BY <1>7 DEF TypeOK, Shape, RedisTypeOK, RecordTypeOK, RequestTypeOK,
         HistoryTypeOK, RequestShape, GatewayShape, EnvDrawn, RecDrawn, CanDrawn,
         RequestOK, GatewayOK, Drawn, EndTask
    <2> QED BY <2>1, <2>2, <2>3, <2>4 DEF TypeOK, Shape
  <1> QED BY <1>1, <1>2, <1>3, <1>4, <1>5, <1>6, <1>7

\* Heartbeats, cancellation and record cleanup keep types and shape.
LEMMA SideShapeStep ==
    ASSUME TypeOK, Shape, NEW w \in Workers,
           Renew(w) \/ PollIntent(w) \/ CancelJob(w) \/ RequestCancellation(w) \/
             CancellationFails(w) \/ CancelReply(w) \/ CleanupOldJob(w)
    PROVE  TypeOK' /\ Shape'
  <1>1. CASE Renew(w)
    <2>1. RedisTypeOK'
      BY <1>1, RenewType, WorkerParts DEF TypeOK, RedisTypeOK, EnvStatuses,
         TERMINAL_STATES, Renew
    <2>2. RecordTypeOK'
      BY <1>1 DEF TypeOK, RecordTypeOK, ExitCodes, ACTIVE_STATES, TERMINAL_STATES,
         Renew
    <2>3. TaskTypeOK'
      BY <1>1 DEF TypeOK, TaskTypeOK, PCs, TERMINAL_STATES, Renew
    <2>4. HistoryTypeOK'
      BY <1>1, ConstantsAssumption DEF TypeOK, HistoryTypeOK, Renew, RedisFault
    <2>5. EnvDrawn'
      BY <1>1, WorkerParts DEF TypeOK, EnvDrawn, Shape, Drawn, Renew, RedisTypeOK,
         TERMINAL_STATES, heartbeat_durable_execution
    <2>6. GatewayTypeOK' /\ RequestTypeOK' /\ RequestShape' /\ GatewayShape' /\
          WorkerShape' /\ RecDrawn' /\ CanDrawn'
      BY <1>1 DEF TypeOK, Shape, GatewayTypeOK, RequestTypeOK, RequestShape,
         GatewayShape, WorkerShape, RecDrawn, CanDrawn, RequestOK, GatewayOK,
         WorkerOK, Drawn, Renew
    <2> QED BY <2>1, <2>2, <2>3, <2>4, <2>5, <2>6 DEF TypeOK, Shape
  <1>2. CASE PollIntent(w)
    <2>1. RecordTypeOK' /\ TaskTypeOK' /\ HistoryTypeOK'
      BY <1>2, ConstantsAssumption DEF TypeOK, RecordTypeOK, ExitCodes,
         ACTIVE_STATES, TERMINAL_STATES, PollIntent, TaskTypeOK, PCs, HistoryTypeOK,
         RedisFault
    <2>2. RedisTypeOK' /\ GatewayTypeOK' /\ RequestTypeOK' /\ RequestShape' /\
          GatewayShape' /\ WorkerShape' /\ EnvDrawn' /\ RecDrawn' /\ CanDrawn'
      BY <1>2 DEF TypeOK, Shape, RedisTypeOK, GatewayTypeOK, RequestTypeOK,
         RequestShape, GatewayShape, WorkerShape, EnvDrawn, RecDrawn, CanDrawn,
         RequestOK, GatewayOK, WorkerOK, Drawn, PollIntent
    <2> QED BY <2>1, <2>2 DEF TypeOK, Shape
  <1>3. CASE CancelJob(w)
    <2>1. RecordTypeOK' /\ TaskTypeOK'
      BY <1>3 DEF TypeOK, RecordTypeOK, ExitCodes, ACTIVE_STATES, TERMINAL_STATES,
         CancelJob, ApplyCancel, TaskTypeOK, PCs
    <2>2. GatewayShape'
      <3>1. \A v \in Workers : v # w => st'[v] = st[v]
        BY <1>3 DEF TypeOK, RecordTypeOK, CancelJob, RecordTypeOK, ApplyCancel,
           TERMINAL_STATES, ACTIVE_STATES
      <3>2. pc[w] # "none" \/ can[w] # "idle" \/ gpc[w[1]] = "serving"
        BY <1>3 DEF CancelJob
      <3> QED BY <1>3, <3>1, <3>2, PersDown, GatewayFrame DEF CancelJob
    <2>3. WorkerShape'
      BY <1>3, ConstantsAssumption DEF TypeOK, Shape, WorkerShape, WorkerOK,
         CancelJob, RecordTypeOK, TaskTypeOK, TERMINAL_STATES, ApplyCancel,
         ACTIVE_STATES
    <2>4. CanDrawn'
      BY <1>3 DEF TypeOK, CanDrawn, Shape, Drawn, CancelJob, RecDrawn, TaskTypeOK
    <2>5. RedisTypeOK' /\ GatewayTypeOK' /\ RequestTypeOK' /\ HistoryTypeOK' /\
          RequestShape' /\ EnvDrawn' /\ RecDrawn'
      BY <1>3 DEF TypeOK, Shape, RedisTypeOK, GatewayTypeOK, RequestTypeOK,
         HistoryTypeOK, RequestShape, EnvDrawn, RecDrawn, RequestOK, Drawn,
         CancelJob
    <2> QED BY <2>1, <2>2, <2>3, <2>4, <2>5 DEF TypeOK, Shape
  <1>4. CASE RequestCancellation(w)
    <2>1. RedisTypeOK' /\ TaskTypeOK'
      BY <1>4, CancelType, WorkerParts DEF TypeOK, RedisTypeOK, EnvStatuses,
         TERMINAL_STATES, RequestCancellation, TaskTypeOK, PCs, CancelAnswer
    <2>2. WorkerShape'
      BY <1>4, ConstantsAssumption DEF TypeOK, Shape, WorkerShape, WorkerOK,
         RequestCancellation, RecordTypeOK, TaskTypeOK, TERMINAL_STATES
    <2>3. EnvDrawn'
      BY <1>4, WorkerParts DEF TypeOK, EnvDrawn, Shape, Drawn, RequestCancellation,
         RedisTypeOK, TERMINAL_STATES, request_durable_cancellation
    <2>4. CanDrawn'
      BY <1>4 DEF TypeOK, CanDrawn, Shape, Drawn, RequestCancellation, TaskTypeOK
    <2>5. RecordTypeOK' /\ GatewayTypeOK' /\ RequestTypeOK' /\ HistoryTypeOK' /\
          RequestShape' /\ GatewayShape' /\ RecDrawn'
      BY <1>4 DEF TypeOK, Shape, RecordTypeOK, GatewayTypeOK, RequestTypeOK,
         HistoryTypeOK, RequestShape, GatewayShape, RecDrawn, RequestOK, GatewayOK,
         Drawn, RequestCancellation
    <2> QED BY <2>1, <2>2, <2>3, <2>4, <2>5 DEF TypeOK, Shape
  <1>5. CASE CancellationFails(w)
    <2>1. RedisTypeOK' /\ TaskTypeOK' /\ HistoryTypeOK'
      BY <1>5, CancelType, WorkerParts, ConstantsAssumption DEF TypeOK, RedisTypeOK,
         EnvStatuses, TERMINAL_STATES, CancellationFails, TaskTypeOK, PCs,
         HistoryTypeOK, RedisFault
    <2>2. WorkerShape'
      BY <1>5, ConstantsAssumption DEF TypeOK, Shape, WorkerShape, WorkerOK,
         CancellationFails, RecordTypeOK, TaskTypeOK, TERMINAL_STATES
    <2>3. EnvDrawn'
      BY <1>5, WorkerParts DEF TypeOK, EnvDrawn, Shape, Drawn, CancellationFails,
         RedisTypeOK, TERMINAL_STATES, request_durable_cancellation
    <2>4. CanDrawn'
      BY <1>5 DEF TypeOK, CanDrawn, Shape, Drawn, CancellationFails, TaskTypeOK
    <2>5. RecordTypeOK' /\ GatewayTypeOK' /\ RequestTypeOK' /\ RequestShape' /\
          GatewayShape' /\ RecDrawn'
      BY <1>5 DEF TypeOK, Shape, RecordTypeOK, GatewayTypeOK, RequestTypeOK,
         RequestShape, GatewayShape, RecDrawn, RequestOK, GatewayOK, Drawn,
         CancellationFails
    <2> QED BY <2>1, <2>2, <2>3, <2>4, <2>5 DEF TypeOK, Shape
  <1>6. CASE CancelReply(w)
    <2>1. RecordTypeOK' /\ TaskTypeOK'
      BY <1>6 DEF TypeOK, RecordTypeOK, ExitCodes, ACTIVE_STATES, TERMINAL_STATES,
         CancelReply, ApplyCancel, TaskTypeOK, PCs
    <2>2. GatewayShape'
      <3>1. \A v \in Workers : v # w => st'[v] = st[v]
        BY <1>6 DEF TypeOK, RecordTypeOK, CancelReply, RecordTypeOK, ApplyCancel,
           TERMINAL_STATES
      <3>2. pc[w] # "none" \/ can[w] # "idle" \/ gpc[w[1]] = "serving"
        BY <1>6 DEF CancelReply
      <3> QED BY <1>6, <3>1, <3>2, PersDown, GatewayFrame DEF CancelReply
    <2>3. WorkerShape'
      BY <1>6, ConstantsAssumption DEF TypeOK, Shape, WorkerShape, WorkerOK,
         CancelReply, RecordTypeOK, TaskTypeOK, TERMINAL_STATES, ApplyCancel
    <2>4. CanDrawn'
      BY <1>6 DEF TypeOK, CanDrawn, Shape, Drawn, CancelReply, TaskTypeOK
    <2>5. RedisTypeOK' /\ GatewayTypeOK' /\ RequestTypeOK' /\ HistoryTypeOK' /\
          RequestShape' /\ EnvDrawn' /\ RecDrawn'
      BY <1>6 DEF TypeOK, Shape, RedisTypeOK, GatewayTypeOK, RequestTypeOK,
         HistoryTypeOK, RequestShape, EnvDrawn, RecDrawn, RequestOK, Drawn,
         CancelReply
    <2> QED BY <2>1, <2>2, <2>3, <2>4, <2>5 DEF TypeOK, Shape
  <1>7. CASE CleanupOldJob(w)
    <2>1. RecordTypeOK'
      BY <1>7 DEF TypeOK, RecordTypeOK, ExitCodes, ACTIVE_STATES, TERMINAL_STATES,
         CleanupOldJob
    <2>2. RecDrawn'
      BY <1>7 DEF TypeOK, RecDrawn, Shape, Drawn, CleanupOldJob
    <2>3. RedisTypeOK' /\ TaskTypeOK' /\ GatewayTypeOK' /\ RequestTypeOK' /\
          HistoryTypeOK'
      BY <1>7 DEF TypeOK, Shape, RedisTypeOK, TaskTypeOK, GatewayTypeOK,
         RequestTypeOK, HistoryTypeOK, CleanupOldJob
    <2>4. RequestShape' /\ EnvDrawn' /\ CanDrawn'
      BY <1>7 DEF Shape, RequestShape, EnvDrawn, CanDrawn, RequestOK, Drawn, Keyed,
         CleanupOldJob
    <2>5. GatewayShape'
      BY <1>7 DEF Shape, GatewayShape, GatewayOK, CleanupOldJob
    <2>6. WorkerShape'
      BY <1>7 DEF Shape, WorkerShape, WorkerOK, CleanupOldJob
    <2> QED BY <2>1, <2>2, <2>3, <2>4, <2>5, <2>6 DEF TypeOK, Shape
  <1> QED BY <1>1, <1>2, <1>3, <1>4, <1>5, <1>6, <1>7

\* A gateway's life keeps types and shape.
LEMMA GatewayShapeStep ==
    ASSUME TypeOK, Shape, NEW g \in Gateways,
           CloseSession(g) \/ Boot(g) \/ Reconcile(g) \/ ListRecoverable(g) \/
             Serve(g) \/ Shutdown(g) \/ GoDown(g) \/ ForceCleanup(g)
    PROVE  TypeOK' /\ Shape'
  <1>1. CASE CloseSession(g)
    <2>1. GatewayTypeOK'
      BY <1>1 DEF TypeOK, GatewayTypeOK, CloseSession
    <2>2. RedisTypeOK' /\ RecordTypeOK' /\ TaskTypeOK' /\ RequestTypeOK' /\
          HistoryTypeOK'
      BY <1>1 DEF TypeOK, Shape, RedisTypeOK, RecordTypeOK, TaskTypeOK,
         RequestTypeOK, HistoryTypeOK, CloseSession
    <2>3. RequestShape' /\ GatewayShape' /\ WorkerShape' /\ EnvDrawn' /\ RecDrawn'
          /\ CanDrawn'
      BY <1>1 DEF TypeOK, Shape, RequestShape, GatewayShape, WorkerShape, EnvDrawn,
         RecDrawn, CanDrawn, RequestOK, GatewayOK, WorkerOK, Drawn, CloseSession
    <2> QED BY <2>1, <2>2, <2>3 DEF TypeOK, Shape
  <1>2. CASE Boot(g)
    <2>1. GatewayTypeOK'
      <3>1. boots[g] + 1 \in 0 .. MaxBoots
        <4>1. MaxBoots \in Nat
          BY ConstantsAssumption
        <4>2. boots[g] \in 0 .. MaxBoots
          BY DEF TypeOK, GatewayTypeOK
        <4>3. boots[g] < MaxBoots
          BY <1>2 DEF Boot
        <4> QED BY <4>1, <4>2, <4>3
      <3> QED BY <1>2, <3>1 DEF TypeOK, GatewayTypeOK, Boot
    <2>2. RequestShape'
      BY <1>2 DEF TypeOK, RequestShape, RequestOK, Shape, InFlight, Reserving, Boot,
         GatewayTypeOK
    <2>3. GatewayShape'
      <3> SUFFICES ASSUME NEW h \in Gateways PROVE GatewayOK(h)'
        BY DEF GatewayShape
      <3>1. GatewayOK(h) /\ boots[h] + 1 > 0
        BY DEF Shape, GatewayShape, TypeOK, GatewayTypeOK
      <3>2. CASE h = g
        BY <1>2, <3>1, <3>2 DEF TypeOK, GatewayOK, Boot, GatewayTypeOK
      <3>3. CASE h # g
        BY <1>2, <3>1, <3>3 DEF TypeOK, GatewayOK, Boot, GatewayTypeOK
      <3> QED BY <3>2, <3>3
    <2>4. WorkerShape'
      <3> SUFFICES ASSUME NEW v \in Workers PROVE WorkerOK(v)'
        BY DEF WorkerShape
      <3>1. WorkerOK(v)
        BY DEF Shape, WorkerShape
      <3>2. CASE v = g
        BY <3>2, <1>2, <3>1, WorkerParts DEF TypeOK, WorkerOK, Boot, GatewayTypeOK
      <3>3. CASE v # g
        BY <3>3, <1>2, <3>1, WorkerParts DEF TypeOK, WorkerOK, Boot, GatewayTypeOK
      <3> QED BY <3>2, <3>3
    <2>5. RedisTypeOK' /\ RecordTypeOK' /\ TaskTypeOK' /\ RequestTypeOK' /\
          HistoryTypeOK' /\ EnvDrawn' /\ RecDrawn' /\ CanDrawn'
      BY <1>2 DEF TypeOK, Shape, RedisTypeOK, RecordTypeOK, TaskTypeOK,
         RequestTypeOK, HistoryTypeOK, EnvDrawn, RecDrawn, CanDrawn, Drawn, Boot
    <2> QED BY <2>1, <2>2, <2>3, <2>4, <2>5 DEF TypeOK, Shape
  <1>3. CASE Reconcile(g)
    <2>1. RedisTypeOK' /\ GatewayTypeOK' /\ HistoryTypeOK'
      BY <1>3, ReconcileType, ConstantsAssumption DEF TypeOK, RedisTypeOK,
         EnvStatuses, TERMINAL_STATES, Reconcile, GatewayTypeOK, HistoryTypeOK,
         RedisFault
    <2>2. RequestShape'
      BY <1>3 DEF TypeOK, RequestShape, RequestOK, Shape, InFlight, Reserving,
         Reconcile, GatewayTypeOK
    <2>3. GatewayShape'
      BY <1>3 DEF TypeOK, Shape, GatewayShape, GatewayOK, Reconcile, GatewayTypeOK
    <2>4. WorkerShape'
      BY <1>3 DEF TypeOK, Shape, WorkerShape, WorkerOK, Reconcile, GatewayTypeOK
    <2>5. EnvDrawn'
      BY <1>3 DEF TypeOK, EnvDrawn, Shape, Drawn, Reconcile, RedisTypeOK,
         TERMINAL_STATES, reconcile_expired_cancelled_processing
    <2>6. RecordTypeOK' /\ TaskTypeOK' /\ RequestTypeOK' /\ RecDrawn' /\ CanDrawn'
      BY <1>3 DEF TypeOK, Shape, RecordTypeOK, TaskTypeOK, RequestTypeOK, RecDrawn,
         CanDrawn, Drawn, Reconcile
    <2> QED BY <2>1, <2>2, <2>3, <2>4, <2>5, <2>6 DEF TypeOK, Shape
  <1>4. CASE ListRecoverable(g)
    <2>1. GatewayTypeOK' /\ HistoryTypeOK'
      BY <1>4, ListType, ConstantsAssumption DEF TypeOK, GatewayTypeOK,
         ListRecoverable, HistoryTypeOK, RedisFault
    <2>2. RequestShape'
      BY <1>4 DEF TypeOK, RequestShape, RequestOK, Shape, InFlight, Reserving,
         ListRecoverable, GatewayTypeOK
    <2>3. GatewayShape'
      BY <1>4 DEF TypeOK, Shape, GatewayShape, GatewayOK, ListRecoverable,
         GatewayTypeOK
    <2>4. WorkerShape'
      BY <1>4 DEF TypeOK, Shape, WorkerShape, WorkerOK, ListRecoverable,
         GatewayTypeOK
    <2>5. RedisTypeOK' /\ RecordTypeOK' /\ TaskTypeOK' /\ RequestTypeOK' /\
          EnvDrawn' /\ RecDrawn' /\ CanDrawn'
      BY <1>4 DEF TypeOK, Shape, RedisTypeOK, RecordTypeOK, TaskTypeOK,
         RequestTypeOK, EnvDrawn, RecDrawn, CanDrawn, Drawn, ListRecoverable
    <2> QED BY <2>1, <2>2, <2>3, <2>4, <2>5 DEF TypeOK, Shape
  <1>5. CASE Serve(g)
    <2>1. GatewayTypeOK'
      BY <1>5 DEF TypeOK, GatewayTypeOK, Serve
    <2>2. RequestShape'
      BY <1>5 DEF TypeOK, RequestShape, RequestOK, Shape, InFlight, Reserving,
         Serve, GatewayTypeOK
    <2>3. GatewayShape'
      BY <1>5 DEF TypeOK, Shape, GatewayShape, GatewayOK, Serve, GatewayTypeOK
    <2>4. WorkerShape'
      BY <1>5 DEF TypeOK, Shape, WorkerShape, WorkerOK, Serve, GatewayTypeOK
    <2>5. RedisTypeOK' /\ RecordTypeOK' /\ TaskTypeOK' /\ RequestTypeOK' /\
          HistoryTypeOK' /\ EnvDrawn' /\ RecDrawn' /\ CanDrawn'
      BY <1>5 DEF TypeOK, Shape, RedisTypeOK, RecordTypeOK, TaskTypeOK,
         RequestTypeOK, HistoryTypeOK, EnvDrawn, RecDrawn, CanDrawn, Drawn, Serve
    <2> QED BY <2>1, <2>2, <2>3, <2>4, <2>5 DEF TypeOK, Shape
  <1>6. CASE Shutdown(g) /\ ~GoDown(g)
    <2>a. /\ gpc[g] = "serving" /\ gpc' = [gpc EXCEPT ![g] = "draining"]
          /\ todo' = [todo EXCEPT ![g] = {w[2] : w \in ActiveJobs(g)}]
          /\ UNCHANGED <<redisVars, recordVars, taskVars, can, boots, pers, sess, ops, reqVars,
                         faults, histVars>>
          /\ \A r \in Requests : rgw[r] = g => rpc[r] \notin InFlight
          /\ \A w \in Workers : w[1] = g => can[w] = "idle"
      BY <1>6 DEF Shutdown
    <2>1. GatewayTypeOK'
      <3>1. {w[2] : w \in ActiveJobs(g)} \subseteq Jobs
        BY WorkerParts DEF ActiveJobs, TypeOK, RecordTypeOK
      <3> QED BY <2>a, <3>1 DEF TypeOK, GatewayTypeOK
    <2>2. RequestShape'
      BY <2>a DEF TypeOK, RequestShape, RequestOK, Shape, InFlight, Reserving, GatewayTypeOK,
         Keyed
    <2>3. GatewayShape'
      BY <2>a DEF TypeOK, Shape, GatewayShape, GatewayOK, GatewayTypeOK
    <2>4. WorkerShape'
      BY <2>a DEF TypeOK, Shape, WorkerShape, WorkerOK, GatewayTypeOK
    <2>5. RedisTypeOK' /\ RecordTypeOK' /\ TaskTypeOK' /\ RequestTypeOK' /\
          HistoryTypeOK' /\ EnvDrawn' /\ RecDrawn' /\ CanDrawn'
      BY <2>a DEF TypeOK, Shape, RedisTypeOK, RecordTypeOK, TaskTypeOK, RequestTypeOK,
         HistoryTypeOK, EnvDrawn, RecDrawn, CanDrawn, Drawn
    <2> QED BY <2>1, <2>2, <2>3, <2>4, <2>5 DEF TypeOK, Shape
  <1>7. CASE GoDown(g)
    <2>1. RecordTypeOK' /\ GatewayTypeOK' /\ RequestTypeOK'
      BY <1>7 DEF TypeOK, RecordTypeOK, ExitCodes, ACTIVE_STATES, TERMINAL_STATES,
         GoDown, GatewayTypeOK, RequestTypeOK, InFlight, Reserving
    <2>2. TaskTypeOK'
      BY <1>7, ForgetType DEF TypeOK, GoDown
    <2>3. RequestShape'
      BY <1>7 DEF TypeOK, RequestShape, RequestOK, Shape, InFlight, Reserving,
         GoDown, GatewayTypeOK, RequestTypeOK
    <2>4. GatewayShape'
      BY <1>7, WorkerParts DEF TypeOK, Shape, GatewayShape, GatewayOK, GoDown,
         GatewayTypeOK, RecordTypeOK
    <2>5. WorkerShape'
      <3>1. \A h \in Gateways : h # g => gpc'[h] = gpc[h]
        BY <1>7 DEF TypeOK, GatewayTypeOK, GoDown
      <3>2. \A w \in Workers : w[1] # g =>
              st'[w] = st[w] /\ (w \in durable' <=> w \in durable)
        BY <1>7 DEF GoDown, Of
      <3>3. ForgetTasks(g, {})
        BY <1>7 DEF GoDown
      <3> QED BY <3>1, <3>2, <3>3, ForgetShape
    <2>6. RecDrawn'
      BY <1>7 DEF TypeOK, RecDrawn, Shape, Drawn, GoDown
    <2>7. CanDrawn'
      BY <1>7 DEF TypeOK, CanDrawn, Shape, Drawn, GoDown, ForgetTasks
    <2>8. RedisTypeOK' /\ HistoryTypeOK' /\ EnvDrawn'
      BY <1>7 DEF TypeOK, Shape, RedisTypeOK, HistoryTypeOK, EnvDrawn, Drawn, GoDown
    <2> QED BY <2>1, <2>2, <2>3, <2>4, <2>5, <2>6, <2>7, <2>8 DEF TypeOK, Shape
  <1>8. CASE ForceCleanup(g)
    <2> DEFINE mine == Of(g, mem)
    <2>a. /\ pers' = [pers EXCEPT ![g] =
                        {w[2] : w \in {v \in mine : st'[v] \in TERMINAL_STATES}}]
          /\ mine \subseteq {w \in Workers : w[1] = g}
          /\ \A w \in Workers : w \notin mine => st'[w] = st[w]
          /\ gpc' = [gpc EXCEPT ![g] = "cleanup"] /\ gpc[g] = "draining"
          /\ UNCHANGED <<boots, sess>> /\ ops' = [ops EXCEPT ![g] = 0]
          /\ todo' = [todo EXCEPT ![g] = {}]
      BY <1>8 DEF ForceCleanup, Of, TypeOK, RecordTypeOK
    <2>1. RecordTypeOK'
      BY <1>8, <2>a DEF TypeOK, RecordTypeOK, ExitCodes, ACTIVE_STATES,
         TERMINAL_STATES, ForceCleanup, Of
    <2>2. TaskTypeOK'
      BY <1>8, ForgetType DEF TypeOK, ForceCleanup
    <2>3. GatewayTypeOK'
      <3> HIDE DEF mine
      <3>1. {w[2] : w \in {v \in mine : st'[v] \in TERMINAL_STATES}} \subseteq Jobs
        BY <2>a, WorkerParts
      <3> QED BY <2>a, <3>1 DEF TypeOK, GatewayTypeOK
    <2>4. RequestShape'
      <3>1. UNCHANGED <<rpc, rgw, rjob>>
        BY <1>8 DEF ForceCleanup
      <3> HIDE DEF mine
      <3> QED BY <2>a, <3>1 DEF TypeOK, GatewayTypeOK, Shape, RequestShape, RequestOK, Keyed
    <2>5. GatewayShape'
      <3> HIDE DEF mine
      <3> SUFFICES ASSUME NEW h \in Gateways PROVE GatewayOK(h)'
        BY DEF GatewayShape
      <3>1. GatewayOK(h)
        BY DEF Shape, GatewayShape
      <3>2. CASE h = g
        <4>1. ASSUME NEW j \in pers'[g] PROVE st'[<<g, j>>] \in TERMINAL_STATES
          BY <2>a, <4>1, WorkerParts DEF TypeOK, GatewayTypeOK
        <4> QED BY <2>a, <3>1, <3>2, <4>1 DEF TypeOK, GatewayTypeOK, GatewayOK
      <3>3. CASE h # g
        <4>1. ASSUME NEW j \in pers'[h] PROVE st'[<<h, j>>] \in TERMINAL_STATES
          BY <2>a, <3>1, <3>3, <4>1, WorkerParts DEF TypeOK, GatewayTypeOK, GatewayOK
        <4> QED BY <2>a, <3>1, <3>3, <4>1 DEF TypeOK, GatewayTypeOK, GatewayOK
      <3> QED BY <3>2, <3>3
    <2>6. WorkerShape'
      <3>1. \A h \in Gateways : h # g => gpc'[h] = gpc[h]
        BY <1>8 DEF TypeOK, GatewayTypeOK, ForceCleanup
      <3>2. \A w \in Workers : w[1] # g =>
              st'[w] = st[w] /\ (w \in durable' <=> w \in durable)
        BY <1>8 DEF ForceCleanup, Of
      <3>3. ForgetTasks(g, {"reap"}) /\ gpc'[g] = "cleanup"
        BY <1>8 DEF ForceCleanup, TypeOK, GatewayTypeOK
      <3> QED BY <3>1, <3>2, <3>3, ForgetShape
    <2>7. RecDrawn'
      BY <1>8, <2>a DEF TypeOK, RecDrawn, Shape, Drawn, ForceCleanup
    <2>8. CanDrawn'
      BY <1>8, <2>a DEF TypeOK, CanDrawn, Shape, Drawn, ForceCleanup, ForgetTasks
    <2>9. RedisTypeOK' /\ RequestTypeOK' /\ HistoryTypeOK' /\ EnvDrawn'
      BY <1>8 DEF TypeOK, Shape, RedisTypeOK, RequestTypeOK, HistoryTypeOK,
         EnvDrawn, Drawn, ForceCleanup
    <2> QED BY <2>1, <2>2, <2>3, <2>4, <2>5, <2>6, <2>7, <2>8, <2>9 DEF TypeOK, Shape
  <1> QED BY <1>1, <1>2, <1>3, <1>4, <1>5, <1>6, <1>7, <1>8

\* Recovering or persisting one job keeps types and shape.
LEMMA GatewayJobShape ==
    ASSUME TypeOK, Shape, NEW g \in Gateways, NEW j \in Jobs,
           RecoverJob(g, j) \/ PersistCleaned(g, j)
    PROVE  TypeOK' /\ Shape'
  <1>1. CASE RecoverJob(g, j)
    <2>a. <<g, j>> \in Workers
      BY WorkerParts
    <2>1. RecordTypeOK'
      BY <1>1, <2>a, NewRecordType DEF TypeOK, RecordTypeOK, RecoverJob
    <2>2. TaskTypeOK'
      BY <1>1, <2>a, NewRecordType DEF TypeOK, TaskTypeOK, RecoverJob
    <2>3. GatewayTypeOK'
      BY <1>1, PinType DEF TypeOK, GatewayTypeOK, RecoverJob
    <2>4. HistoryTypeOK'
      BY <1>1, FaultType DEF TypeOK, HistoryTypeOK, RecoverJob
    <2>5. GatewayShape'
      BY <1>1, <2>a, WorkerParts, PersDown, <2>a DEF TypeOK, Shape, GatewayShape,
         GatewayOK, RecoverJob, GatewayTypeOK, RecordTypeOK, NewRecord
    <2>6. WorkerShape'
      <3>1. UNCHANGED <<can, gpc>> /\ gpc[g] = "recover"
        BY <1>1 DEF RecoverJob
      <3>2. CASE UNCHANGED <<recordVars, taskVars>>
        BY <3>1, <3>2 DEF Shape, WorkerShape, WorkerOK
      <3>3. CASE NewRecord(<<g, j>>, TRUE)
        BY <2>a, <3>1, <3>3, WorkerParts, NewRecordShape DEF TypeOK, Shape
      <3> QED BY <1>1, <3>2, <3>3 DEF RecoverJob
    <2>7. RecDrawn'
      BY <1>1, <2>a, WorkerParts DEF TypeOK, RecDrawn, Shape, Drawn, RecoverJob,
         EnvDrawn, RecordTypeOK, NewRecord, Recoverable
    <2>8. RedisTypeOK' /\ RequestTypeOK' /\ RequestShape' /\ EnvDrawn' /\ CanDrawn'
      BY <1>1 DEF TypeOK, Shape, RedisTypeOK, RequestTypeOK, RequestShape, EnvDrawn,
         CanDrawn, RequestOK, Drawn, RecoverJob
    <2> QED BY <2>1, <2>2, <2>3, <2>4, <2>5, <2>6, <2>7, <2>8 DEF TypeOK, Shape
  <1>2. CASE PersistCleaned(g, j)
    <2>1. RedisTypeOK' /\ GatewayTypeOK' /\ HistoryTypeOK'
      BY <1>2, SaveType, ConstantsAssumption DEF TypeOK, RedisTypeOK, EnvStatuses,
         TERMINAL_STATES, PersistCleaned, Shape, GatewayShape, GatewayOK,
         GatewayTypeOK, HistoryTypeOK, RedisFault
    <2>2. GatewayShape'
      BY <1>2 DEF TypeOK, Shape, GatewayShape, GatewayOK, PersistCleaned,
         GatewayTypeOK
    <2>3. EnvDrawn'
      BY <1>2 DEF TypeOK, EnvDrawn, Shape, Drawn, PersistCleaned, RedisTypeOK,
         TERMINAL_STATES, save_terminal_job, save_terminal_job_fails, SetTerminal, GatewayShape, GatewayOK
    <2>4. RecordTypeOK' /\ TaskTypeOK' /\ RequestTypeOK' /\ RequestShape' /\
          WorkerShape' /\ RecDrawn' /\ CanDrawn'
      BY <1>2 DEF TypeOK, Shape, RecordTypeOK, TaskTypeOK, RequestTypeOK,
         RequestShape, WorkerShape, RecDrawn, CanDrawn, RequestOK, WorkerOK, Drawn,
         PersistCleaned
    <2> QED BY <2>1, <2>2, <2>3, <2>4 DEF TypeOK, Shape
  <1> QED BY <1>1, <1>2

\* Time runs leases down to zero and no further.
LEMMA TickShape == TypeOK /\ Shape /\ Tick => TypeOK' /\ Shape'
  <1> SUFFICES ASSUME TypeOK, Shape, Tick PROVE TypeOK' /\ Shape'
    OBVIOUS
  <1>1. RedisTypeOK'
    BY LeaseAssumption DEF TypeOK, RedisTypeOK, Tick, Expired
  <1>2. HistoryTypeOK'
    BY DEF TypeOK, HistoryTypeOK, Tick
  <1>3. /\ RecordTypeOK' /\ TaskTypeOK' /\ GatewayTypeOK' /\ RequestTypeOK'
        /\ RequestShape' /\ GatewayShape' /\ WorkerShape'
    BY DEF TypeOK, RecordTypeOK, TaskTypeOK, GatewayTypeOK, RequestTypeOK, Shape,
           RequestShape, GatewayShape, WorkerShape, RequestOK, GatewayOK, WorkerOK, Tick
  <1>4. EnvDrawn' /\ RecDrawn' /\ CanDrawn'
    BY DEF Shape, EnvDrawn, RecDrawn, CanDrawn, Drawn, Tick
  <1> QED BY <1>1, <1>2, <1>3, <1>4 DEF TypeOK, Shape

\* A stuttering step changes nothing.
LEMMA StutterShape == TypeOK /\ Shape /\ UNCHANGED vars => TypeOK' /\ Shape'
  <1> SUFFICES ASSUME TypeOK, Shape, UNCHANGED vars PROVE TypeOK' /\ Shape'
    OBVIOUS
  <1>1. RedisTypeOK' /\ RecordTypeOK' /\ TaskTypeOK'
    BY DEF TypeOK, RedisTypeOK, RecordTypeOK, TaskTypeOK, vars
  <1>2. GatewayTypeOK' /\ RequestTypeOK' /\ HistoryTypeOK'
    BY DEF TypeOK, GatewayTypeOK, RequestTypeOK, HistoryTypeOK, vars
  <1>3. RequestShape' /\ GatewayShape' /\ WorkerShape'
    BY DEF Shape, RequestShape, GatewayShape, WorkerShape, RequestOK, GatewayOK,
           WorkerOK, vars
  <1>4. EnvDrawn' /\ RecDrawn' /\ CanDrawn'
    BY DEF Shape, EnvDrawn, RecDrawn, CanDrawn, Drawn, vars
  <1> QED BY <1>1, <1>2, <1>3, <1>4 DEF TypeOK, Shape

\* Every step keeps types and shape.
LEMMA ShapeStep == TypeOK /\ Shape /\ [Next]_vars => TypeOK' /\ Shape'
  <1> SUFFICES ASSUME TypeOK, Shape, [Next]_vars PROVE TypeOK' /\ Shape'
    OBVIOUS
  <1>1. ASSUME NEW r \in Requests, NEW g \in Gateways, Submit(r, g)
        PROVE  TypeOK' /\ Shape'
    BY <1>1, SubmitShape
  <1>2. ASSUME NEW r \in Requests, NEW j \in Jobs, Admit(r, j)
        PROVE  TypeOK' /\ Shape'
    BY <1>2, AdmitShape
  <1>3. ASSUME NEW r \in Requests,
               \/ FindSubmission(r) \/ Refuse(r) \/ Reserve(r) \/ ReserveReply(r)
               \/ RequestFails(r)
        PROVE  TypeOK' /\ Shape'
    BY <1>3, RequestShapeStep
  <1>4. ASSUME NEW w \in Workers, NEW x \in Exits, StreamEnds(w, x)
        PROVE  TypeOK' /\ Shape'
    BY <1>4, StreamShape
  <1>5. ASSUME NEW w \in Workers, TaskStep(w) \/ WorkerFault(w)
        PROVE  TypeOK' /\ Shape'
    BY <1>4, <1>5, RunShapeStep, EndShapeStep, SideShapeStep DEF TaskStep, WorkerFault
  <1>6. ASSUME NEW w \in Workers,
               \/ Renew(w) \/ PollIntent(w) \/ CancelJob(w) \/ CancelStep(w)
               \/ CleanupOldJob(w)
        PROVE  TypeOK' /\ Shape'
    BY <1>6, SideShapeStep DEF CancelStep
  <1>7. ASSUME NEW g \in Gateways, NEW j \in Jobs, RecoverJob(g, j) \/ PersistCleaned(g, j)
        PROVE  TypeOK' /\ Shape'
    BY <1>7, GatewayJobShape
  <1>8. ASSUME NEW g \in Gateways,
               \/ CloseSession(g) \/ Boot(g) \/ Reconcile(g) \/ ListRecoverable(g)
               \/ Serve(g) \/ Crash(g) \/ Shutdown(g) \/ DrainDone(g)
               \/ ForceCleanup(g) \/ CleanupDone(g)
        PROVE  TypeOK' /\ Shape'
    BY <1>8, GatewayShapeStep DEF Crash, DrainDone, CleanupDone
  <1>9. CASE Next
    <2>1. CASE \E r \in Requests : RequestStep(r) \/ RequestFails(r)
                                     \/ \E g \in Gateways : Submit(r, g)
      BY <2>1, <1>1, <1>2, <1>3 DEF RequestStep
    <2>2. CASE \E w \in Workers : \/ TaskStep(w) \/ Renew(w) \/ PollIntent(w)
                                  \/ CancelJob(w) \/ CancelStep(w) \/ WorkerFault(w)
                                  \/ CleanupOldJob(w)
      BY <2>2, <1>5, <1>6
    <2>3. CASE \E g \in Gateways : \/ CloseSession(g) \/ Boot(g) \/ StartupStep(g)
                                   \/ Crash(g) \/ Shutdown(g) \/ DrainDone(g)
                                   \/ ForceCleanup(g) \/ CleanupDone(g)
                                   \/ \E j \in Jobs : PersistCleaned(g, j)
      BY <2>3, <1>7, <1>8 DEF StartupStep
    <2> QED BY <1>9, <2>1, <2>2, <2>3, TickShape DEF Next
  <1> QED BY <1>9, StutterShape

\* The type invariant holds in every reachable state of every instance: the
\* arguments of all Redis calls in flight are well-formed, counters stay in
\* their bounds, and no operation counter goes below zero.
THEOREM TypeCorrect == Spec => []TypeOK
  <1>1. Init => TypeOK /\ Shape
    BY InitShape
  <1>2. TypeOK /\ Shape /\ [Next]_vars => (TypeOK /\ Shape)'
    BY ShapeStep
  <1> QED BY <1>1, <1>2, PTL DEF Spec
============================================================================
