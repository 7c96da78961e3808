------------------------- MODULE JobManagerPromises -------------------------
(***************************************************************************)
(* What the gateways promise besides "no blind replay", for every value of *)
(* the constants: what a submission key answers, what a restart finds in   *)
(* the store, who may settle a job, that the store implements JobLedger,   *)
(* and that operation leases balance.                                      *)
(*                                                                         *)
(* The store is reached only through the scripts of RedisJobQueue, so the  *)
(* proofs about it split on the script that a step runs and not on the     *)
(* step.  The forced cleanup of a drain that timed out persists outcomes   *)
(* without a token; a promise that it breaks is proved of the instances    *)
(* in which no drain times out, and says so.                               *)
(***************************************************************************)
EXTENDS JobManagerReplay, FiniteSetTheorems

USE DEF redisVars, recordVars, taskVars, gwVars, reqVars, histVars

----------------------------------------------------------------------------
(* The scripts that a step may run *)

Save(j, s) == save_terminal_job(j, s) \/ save_terminal_job_fails(j, s)

ClaimScript == \E w \in Workers : pc[w] = "claim" /\ claim_durable_execution(w[2], Tok(w))

RenewScript ==
    \E w \in Workers : hb[w] = "renew" /\ heartbeat_durable_execution(w[2], Tok(w))

FinishScript ==
    \E w \in Workers : /\ pc[w] \in {"finish", "cfinish"}
                       /\ finish_durable_execution(w[2], Tok(w), arg[w])

CancelScript ==
    \E w \in Workers : can[w] = "sent" /\ request_durable_cancellation(w[2])

PersistScript ==
    \E w \in Workers : pc[w] = "persist" /\ pc'[w] = "fin" /\ Save(w[2], st[w])

CleanupScript ==
    \E g \in Gateways, j \in Jobs :
        gpc[g] = "cleanup" /\ j \in pers[g] /\ Save(j, st[<<g, j>>])

Script ==
    \/ UNCHANGED redisVars \/ ClaimScript \/ RenewScript \/ FinishScript \/ CancelScript
    \/ reconcile_expired_cancelled_processing \/ PersistScript \/ CleanupScript

\* A step reserves a submission key, lets time pass, or runs one of the other
\* scripts, and only time makes leases lapse.
LEMMA StoreSteps ==
    ASSUME IInv, [Next]_vars
    PROVE  \/ \E r \in Requests : Reserve(r)
           \/ Tick
           \/ Script /\ UNCHANGED lapsed
  <1>1. ASSUME NEW r \in Requests,
               \/ RequestStep(r) \/ RequestFails(r) \/ \E g \in Gateways : Submit(r, g)
        PROVE  Reserve(r) \/ (Script /\ UNCHANGED lapsed)
    BY <1>1 DEF RequestStep, RequestFails, Submit, FindSubmission, Refuse, ReserveReply,
       Admit, Script
  <1>2. ASSUME NEW w \in Workers,
               \/ TaskStep(w) \/ Renew(w) \/ PollIntent(w) \/ CancelJob(w) \/ CancelStep(w)
               \/ WorkerFault(w) \/ CleanupOldJob(w)
        PROVE  Script /\ UNCHANGED lapsed
    <2>1. CASE Claim(w) \/ ClaimFails(w)
      BY <2>1 DEF Claim, ClaimFails, Script, ClaimScript
    <2>2. CASE Finish(w) \/ FinishFails(w)
      BY <2>2 DEF Finish, FinishFails, Script, FinishScript
    <2>3. CASE Persist(w)
      <3>1. pc'[w] = "fin"
        BY <2>3 DEF Persist, Goto, IInv, TypeOK, TaskTypeOK
      <3> QED BY <2>3, <3>1 DEF Persist, Script, PersistScript, Save
    <2>4. CASE Renew(w)
      BY <2>4 DEF Renew, Script, RenewScript
    <2>5. CASE RequestCancellation(w) \/ CancellationFails(w)
      BY <2>5 DEF RequestCancellation, CancellationFails, Script, CancelScript
    <2>6. CASE \/ EnterRunJob(w) \/ LoseClaim(w) \/ CheckIntent(w) \/ CheckIntentFails(w)
               \/ HonourIntent(w) \/ Begin(w) \/ FailBeforeStart(w) \/ StartRemote(w)
               \/ (\E x \in Exits : StreamEnds(w, x))
               \/ Classify(w) \/ Reaped(w) \/ Complete(w) \/ EndTask(w)
      BY <2>6 DEF EnterRunJob, LoseClaim, CheckIntent, CheckIntentFails, HonourIntent, Begin,
         FailBeforeStart, StartRemote, StreamEnds, Classify, Reaped, Complete, EndTask, Script
    <2>7. CASE PollIntent(w) \/ CancelJob(w) \/ CancelReply(w) \/ CleanupOldJob(w)
      BY <2>7 DEF PollIntent, CancelJob, CancelReply, CleanupOldJob, Script
    <2> QED BY <1>2, <2>1, <2>2, <2>3, <2>4, <2>5, <2>6, <2>7
            DEF TaskStep, CancelStep, WorkerFault
  <1>3. ASSUME NEW g \in Gateways,
               \/ CloseSession(g) \/ Boot(g) \/ StartupStep(g) \/ Crash(g) \/ Shutdown(g)
               \/ DrainDone(g) \/ ForceCleanup(g) \/ CleanupDone(g)
        PROVE  Script /\ UNCHANGED lapsed
    BY <1>3 DEF CloseSession, Boot, StartupStep, Reconcile, ListRecoverable, Serve, RecoverJob,
       Crash, Shutdown, DrainDone, CleanupDone, GoDown, ForceCleanup, Script
  <1>4. ASSUME NEW g \in Gateways, NEW j \in Jobs, PersistCleaned(g, j)
        PROVE  Script /\ UNCHANGED lapsed
    BY <1>4 DEF PersistCleaned, Script, CleanupScript, Save
  <1>5. CASE UNCHANGED vars
    BY <1>5 DEF vars, Script
  <1> QED BY <1>1, <1>2, <1>3, <1>4, <1>5 DEF Next

----------------------------------------------------------------------------
(* What the store keeps *)

ClaimsKnown ==
    \A k \in Keys : claimJob[k] # NoJob => envStatus[claimJob[k]] # "absent"

ProcessingListed == \A j \in Jobs : envStatus[j] = "processing" => j \in proc

AbsentBlank ==
    \A j \in Jobs : envStatus[j] = "absent" => envToken[j] = NoToken /\ j \notin envCancel

StoreInv == ClaimsKnown /\ ProcessingListed /\ AbsentBlank

\* No script but the reservation touches a claim or creates an envelope, except
\* for the mirror of an outcome; none loses one; what is processed is listed.
KeepsEnvelopes ==
    /\ UNCHANGED <<claimJob, claimIdent>>
    /\ \A j \in Jobs : envStatus[j] # "absent" => envStatus'[j] # "absent"
    /\ \A j \in Jobs : envStatus'[j] = "processing" => j \in proc'
    /\ \A j \in Jobs : envStatus'[j] = "absent" =>
          /\ envToken'[j] = envToken[j]
          /\ j \in envCancel' => j \in envCancel

\* The scripts of a worker and of a cancellation keep envelopes.
LEMMA ScriptKeeps ==
    ASSUME RedisTypeOK, ProcessingListed, NEW j \in Jobs, NEW t,
           NEW s \in TERMINAL_STATES,
           \/ claim_durable_execution(j, t) \/ heartbeat_durable_execution(j, t)
           \/ finish_durable_execution(j, t, s) \/ request_durable_cancellation(j)
           \/ Save(j, s)
    PROVE  KeepsEnvelopes
  <1>1. CASE claim_durable_execution(j, t)
    BY <1>1 DEF claim_durable_execution, KeepsEnvelopes, RedisTypeOK, ProcessingListed
  <1>2. CASE heartbeat_durable_execution(j, t)
    BY <1>2 DEF heartbeat_durable_execution, KeepsEnvelopes, RedisTypeOK, ProcessingListed
  <1>3. CASE finish_durable_execution(j, t, s)
    BY <1>3 DEF finish_durable_execution, KeepsEnvelopes, RedisTypeOK, ProcessingListed,
       TERMINAL_STATES
  <1>4. CASE request_durable_cancellation(j)
    BY <1>4 DEF request_durable_cancellation, KeepsEnvelopes, RedisTypeOK, ProcessingListed
  <1>5. CASE Save(j, s)
    BY <1>5 DEF Save, save_terminal_job, save_terminal_job_fails, SetTerminal, KeepsEnvelopes,
       RedisTypeOK, ProcessingListed, TERMINAL_STATES
  <1> QED BY <1>1, <1>2, <1>3, <1>4, <1>5

\* Startup reconciliation keeps envelopes.
LEMMA ReconcileKeeps ==
    ASSUME RedisTypeOK, ProcessingListed, reconcile_expired_cancelled_processing
    PROVE  KeepsEnvelopes
  BY DEF RedisTypeOK, ProcessingListed, reconcile_expired_cancelled_processing,
     KeepsEnvelopes, ExpiredProcessing

\* So does every step that reserves nothing.
LEMMA StepKeeps ==
    ASSUME IInv, ProcessingListed, Tick \/ Script
    PROVE  KeepsEnvelopes
  <1>a. RedisTypeOK /\ "failed" \in TERMINAL_STATES /\ \A w \in Workers : w[2] \in Jobs
    BY WorkerParts DEF IInv, TypeOK, TERMINAL_STATES
  <1>1. CASE Tick \/ UNCHANGED redisVars
    BY <1>1 DEF Tick, KeepsEnvelopes, ProcessingListed
  <1>2. CASE ClaimScript \/ RenewScript \/ CancelScript
    BY <1>2, <1>a, ScriptKeeps DEF ClaimScript, RenewScript, CancelScript
  <1>3. CASE FinishScript
    <2>1. PICK w \in Workers : /\ pc[w] \in {"finish", "cfinish"}
                               /\ finish_durable_execution(w[2], Tok(w), arg[w])
      BY <1>3 DEF FinishScript
    <2>2. arg[w] \in TERMINAL_STATES
      BY <2>1 DEF IInv, Shape, WorkerShape, WorkerOK
    <2> QED BY <1>a, <2>1, <2>2, ScriptKeeps
  <1>4. CASE PersistScript
    <2>1. PICK w \in Workers : pc[w] = "persist" /\ Save(w[2], st[w])
      BY <1>4 DEF PersistScript
    <2>2. st[w] \in TERMINAL_STATES
      BY <2>1 DEF IInv, Shape, WorkerShape, WorkerOK
    <2> QED BY <1>a, <2>1, <2>2, ScriptKeeps
  <1>5. CASE CleanupScript
    <2>1. PICK g \in Gateways, j \in Jobs : j \in pers[g] /\ Save(j, st[<<g, j>>])
      BY <1>5 DEF CleanupScript
    <2>2. st[<<g, j>>] \in TERMINAL_STATES
      BY <2>1 DEF IInv, Shape, GatewayShape, GatewayOK
    <2> QED BY <1>a, <2>1, <2>2, ScriptKeeps
  <1>6. CASE reconcile_expired_cancelled_processing
    BY <1>6, <1>a, ReconcileKeeps
  <1> QED BY <1>1, <1>2, <1>3, <1>4, <1>5, <1>6 DEF Script

\* A reservation names a job id that no envelope has.
LEMMA ReserveFacts ==
    ASSUME IInv, NEW r \in Requests, Reserve(r)
    PROVE  /\ KeyOf[r] \in Keys /\ rjob[r] \in Jobs /\ IdentOf[r] \in Idents
           /\ envStatus[rjob[r]] = "absent" /\ envToken[rjob[r]] = NoToken
           /\ rpc[r] = "reserve"
           /\ reserve_submission_with_job(KeyOf[r], IdentOf[r], rjob[r])
           /\ UNCHANGED lapsed
  <1>1. rpc[r] = "reserve" /\ UNCHANGED lapsed
    BY DEF Reserve
  <1>2. KeyOf[r] \in Keys /\ rjob[r] \in Jobs /\ IdentOf[r] \in Idents
    BY <1>1, ConstantsAssumption
       DEF IInv, Shape, RequestShape, RequestOK, Keyed, InFlight, Reserving
  <1>3. Fresh(rjob[r])
    BY <1>1, <1>2 DEF Fresh
  <1> QED BY <1>1, <1>2, <1>3 DEF IInv, Replay, Ids, FreshIdle, Reserve

\* What the store keeps, it keeps in every step.
LEMMA StoreInvStep ==
    ASSUME IInv, StoreInv, [Next]_vars
    PROVE  StoreInv'
  <1>a. RedisTypeOK /\ NoJob \notin Jobs
    BY ConstantsAssumption DEF IInv, TypeOK
  <1>1. ASSUME NEW r \in Requests, Reserve(r) PROVE StoreInv'
    <2>1. /\ KeyOf[r] \in Keys /\ rjob[r] \in Jobs
          /\ reserve_submission_with_job(KeyOf[r], IdentOf[r], rjob[r])
      BY <1>1, ReserveFacts
    <2>2. ClaimsKnown'
      BY <1>a, <2>1 DEF reserve_submission_with_job, StoreInv, ClaimsKnown, RedisTypeOK
    <2>3. ProcessingListed' /\ AbsentBlank'
      BY <1>a, <2>1 DEF reserve_submission_with_job, StoreInv, ProcessingListed, AbsentBlank,
         RedisTypeOK
    <2> QED BY <2>2, <2>3 DEF StoreInv
  <1>2. CASE Tick \/ Script
    <2>1. KeepsEnvelopes
      BY <1>2, StepKeeps DEF StoreInv
    <2>2. ClaimsKnown'
      BY <1>a, <2>1 DEF StoreInv, ClaimsKnown, KeepsEnvelopes, RedisTypeOK
    <2> QED BY <2>1, <2>2 DEF StoreInv, ProcessingListed, AbsentBlank, KeepsEnvelopes
  <1> QED BY <1>1, <1>2, StoreSteps

----------------------------------------------------------------------------
(* What a submission key answers *)

\* The request's answer, given or on the way, is the claim of its key.
AnswerOK(r) ==
    /\ rpc[r] = "created" =>
         claimJob[KeyOf[r]] = rjob[r] /\ claimIdent[KeyOf[r]] = IdentOf[r]
    /\ rpc[r] = "duplicate" =>
         claimJob[KeyOf[r]] # NoJob /\ claimIdent[KeyOf[r]] = IdentOf[r]
    /\ Keyed(r) /\ rpc[r] = "acked" =>
         /\ ack[r] # NoJob /\ ack[r] = claimJob[KeyOf[r]]
         /\ claimIdent[KeyOf[r]] = IdentOf[r]

Answers == \A r \in Requests : AnswerOK(r)

\* What other actors do to a request: its process may die.
Unserved(r) ==
    rpc'[r] \in {rpc[r], "dead"} /\ ack'[r] = ack[r] /\ rjob'[r] = rjob[r] /\ rgw'[r] = rgw[r]

\* The worker's steps leave every request as it is.
LEMMA WorkerUnserved ==
    ASSUME NEW w \in Workers,
           \/ TaskStep(w) \/ Renew(w) \/ PollIntent(w) \/ CancelJob(w) \/ CancelStep(w)
           \/ WorkerFault(w) \/ CleanupOldJob(w)
    PROVE  UNCHANGED reqVars /\ UNCHANGED gwVars
  <1>1. CASE \/ EnterRunJob(w) \/ LoseClaim(w) \/ CheckIntent(w) \/ CheckIntentFails(w)
             \/ HonourIntent(w) \/ Begin(w) \/ FailBeforeStart(w) \/ StartRemote(w)
             \/ (\E x \in Exits : StreamEnds(w, x))
             \/ Classify(w) \/ Reaped(w) \/ Complete(w) \/ EndTask(w)
    BY <1>1 DEF EnterRunJob, LoseClaim, CheckIntent, CheckIntentFails, HonourIntent, Begin,
       FailBeforeStart, StartRemote, StreamEnds, Classify, Reaped, Complete, EndTask
  <1>2. CASE \/ Claim(w) \/ ClaimFails(w) \/ Finish(w) \/ FinishFails(w) \/ Persist(w)
             \/ Renew(w) \/ RequestCancellation(w) \/ CancellationFails(w)
             \/ PollIntent(w) \/ CancelJob(w) \/ CancelReply(w) \/ CleanupOldJob(w)
    BY <1>2 DEF Claim, ClaimFails, Finish, FinishFails, Persist, Renew, RequestCancellation,
       CancellationFails, PollIntent, CancelJob, CancelReply, CleanupOldJob
  <1> QED BY <1>1, <1>2 DEF TaskStep, CancelStep, WorkerFault

\* A step serves one request, or none.
LEMMA RequestFrame ==
    ASSUME IInv, [Next]_vars
    PROVE  \/ \E r \in Requests :
                /\ \/ RequestStep(r) \/ RequestFails(r) \/ \E g \in Gateways : Submit(r, g)
                /\ \A q \in Requests : q # r => Unserved(q)
           \/ \A q \in Requests : Unserved(q)
  <1>1. ASSUME NEW r \in Requests,
               \/ RequestStep(r) \/ RequestFails(r) \/ \E g \in Gateways : Submit(r, g)
        PROVE  \A q \in Requests : q # r => Unserved(q)
    BY <1>1, ZenonT(60) DEF RequestStep, RequestFails, Submit, FindSubmission, Refuse, Reserve,
       ReserveReply, Admit, Answer, Unserved, IInv, TypeOK, RequestTypeOK
  <1>2. ASSUME NEW w \in Workers,
               \/ TaskStep(w) \/ Renew(w) \/ PollIntent(w) \/ CancelJob(w) \/ CancelStep(w)
               \/ WorkerFault(w) \/ CleanupOldJob(w)
        PROVE  \A q \in Requests : Unserved(q)
    BY <1>2, WorkerUnserved DEF Unserved
  <1>3. ASSUME NEW g \in Gateways,
               \/ CloseSession(g) \/ Boot(g) \/ StartupStep(g) \/ Crash(g) \/ Shutdown(g)
               \/ DrainDone(g) \/ ForceCleanup(g) \/ CleanupDone(g)
               \/ \E j \in Jobs : PersistCleaned(g, j)
        PROVE  \A q \in Requests : Unserved(q)
    <2>1. CASE UNCHANGED reqVars
      BY <2>1 DEF Unserved
    <2>2. CASE GoDown(g)
      BY <2>2 DEF GoDown, Unserved
    <2> QED BY <1>3, <2>1, <2>2 DEF CloseSession, Boot, StartupStep, Reconcile,
            ListRecoverable, Serve, RecoverJob, Crash, Shutdown, DrainDone, CleanupDone,
            ForceCleanup, PersistCleaned
  <1>4. CASE Tick \/ UNCHANGED vars
    BY <1>4 DEF Tick, vars, Unserved
  <1> QED BY <1>1, <1>2, <1>3, <1>4 DEF Next

\* A claim that is set stays as it is: the reservation is SET with NX, and no
\* other script writes it.
LEMMA ClaimsStay ==
    ASSUME IInv, StoreInv, [Next]_vars, NEW k \in Keys, claimJob[k] # NoJob
    PROVE  claimJob'[k] = claimJob[k] /\ claimIdent'[k] = claimIdent[k]
  <1>1. ASSUME NEW r \in Requests, Reserve(r)
        PROVE  claimJob'[k] = claimJob[k] /\ claimIdent'[k] = claimIdent[k]
    BY <1>1 DEF Reserve, reserve_submission_with_job, IInv, TypeOK, RedisTypeOK
  <1>2. CASE Tick \/ Script
    BY <1>2, StepKeeps DEF StoreInv, KeepsEnvelopes
  <1> QED BY <1>1, <1>2, StoreSteps

\* The answers stay the claims of their keys.
LEMMA AnswersStep ==
    ASSUME IInv, StoreInv, Answers, [Next]_vars
    PROVE  Answers'
  <1> SUFFICES ASSUME NEW r \in Requests PROVE AnswerOK(r)'
    BY DEF Answers
  <1>a. AnswerOK(r) /\ RequestOK(r) /\ NoJob \notin Jobs
    BY ConstantsAssumption DEF Answers, IInv, Shape, RequestShape
  <1>b. Keyed(r) => KeyOf[r] \in Keys
    BY ConstantsAssumption DEF Keyed
  <1>c. /\ rpc[r] \in {"created", "duplicate"} => Keyed(r)
        /\ rpc[r] = "created" => rjob[r] # NoJob
    BY <1>a DEF RequestOK, InFlight, Reserving
  <1>1. CASE Unserved(r)
    BY <1>1, <1>a, <1>b, <1>c, ClaimsStay DEF AnswerOK, Unserved, Keyed
  <1>2. CASE FindSubmission(r)
    <2>1. Keyed(r) /\ KeyOf[r] \in Keys
      BY <1>2, <1>a, <1>b DEF FindSubmission, RequestOK, InFlight
    <2>2. /\ UNCHANGED <<claimJob, claimIdent, rjob>>
          /\ rpc'[r] \notin {"created", "duplicate"}
          /\ rpc'[r] = "acked" =>
               /\ find_submission(KeyOf[r], IdentOf[r]) = "same"
               /\ ack'[r] = claimJob[KeyOf[r]]
      BY <1>2 DEF FindSubmission, Answer, IInv, TypeOK, RequestTypeOK
    <2> QED BY <2>1, <2>2 DEF AnswerOK, find_submission
  <1>3. CASE Refuse(r) \/ RequestFails(r) \/ \E g \in Gateways : Submit(r, g)
    <2>1. rpc'[r] \in {"full", "rejected", "unavailable", "find", "lock"}
      BY <1>3 DEF Refuse, RequestFails, Submit, Answer, IInv, TypeOK, RequestTypeOK
    <2> QED BY <2>1 DEF AnswerOK
  <1>4. ASSUME NEW j \in Jobs, Admit(r, j) PROVE AnswerOK(r)'
    <2>1. rpc'[r] \in {"reserve", "acked"} /\ (rpc'[r] = "acked" => ~Keyed(r))
      BY <1>4 DEF Admit, Answer, IInv, TypeOK, RequestTypeOK
    <2> QED BY <2>1 DEF AnswerOK, Keyed
  <1>5. CASE Reserve(r)
    <2>1. /\ KeyOf[r] \in Keys /\ rjob[r] \in Jobs
          /\ reserve_submission_with_job(KeyOf[r], IdentOf[r], rjob[r])
      BY <1>5, ReserveFacts
    <2>2. /\ rpc'[r] \in {"created", "duplicate", "conflicting"}
          /\ rpc'[r] = "created" => find_submission(KeyOf[r], IdentOf[r]) = "none"
          /\ rpc'[r] = "duplicate" => find_submission(KeyOf[r], IdentOf[r]) = "same"
          /\ UNCHANGED rjob
      BY <1>5 DEF Reserve, Answer, IInv, TypeOK, RequestTypeOK
    <2> QED BY <2>1, <2>2 DEF AnswerOK, find_submission, reserve_submission_with_job, IInv,
            TypeOK, RedisTypeOK
  <1>6. CASE ReserveReply(r)
    <2>1. /\ rpc'[r] \in {"acked", "unavailable"}
          /\ rpc'[r] = "acked" =>
               \/ rpc[r] = "created" /\ ack'[r] = rjob[r]
               \/ rpc[r] = "duplicate" /\ ack'[r] = claimJob[KeyOf[r]]
          /\ UNCHANGED <<claimJob, claimIdent>>
      BY <1>6 DEF ReserveReply, Answer, IInv, TypeOK, RequestTypeOK
    <2> QED BY <1>a, <1>b, <1>c, <2>1 DEF AnswerOK, Keyed
  <1> QED BY <1>1, <1>2, <1>3, <1>4, <1>5, <1>6, RequestFrame DEF RequestStep

\* The store and the answers, in every reachable state.
THEOREM StoreInvariant == Spec => [](IInv /\ StoreInv /\ Answers)
  <1>1. Init => IInv /\ StoreInv /\ Answers
    <2>1. Init => IInv
      BY InitShape, InitReplay DEF IInv
    <2>2. Init => StoreInv /\ Answers
      BY WorkerParts DEF Init, RedisInit, StoreInv, ClaimsKnown, ProcessingListed,
         AbsentBlank, Answers, AnswerOK
    <2> QED BY <2>1, <2>2
  <1>2. IInv /\ [Next]_vars => IInv'
    BY ShapeStep, ReplayStep DEF IInv
  <1>3. IInv /\ StoreInv /\ Answers /\ [Next]_vars => (StoreInv /\ Answers)'
    BY StoreInvStep, AnswersStep
  <1> QED BY <1>1, <1>2, <1>3, PTL DEF Spec

\* All answers to requests with one submission key name one job, the claim's,
\* of the same owner and payload, and its envelope is in Redis (the ACK of
\* create_job), whatever retries, crashes and failing Redis calls come between.
THEOREM OneAnswerPerKey == Spec => []AcksAgree
  <1>1. IInv /\ StoreInv /\ Answers => AcksAgree
    <2> SUFFICES ASSUME IInv, StoreInv, Answers,
                        NEW r \in Requests, Keyed(r), rpc[r] = "acked"
                 PROVE  /\ ack[r] = claimJob[KeyOf[r]]
                        /\ claimIdent[KeyOf[r]] = IdentOf[r]
                        /\ envStatus[ack[r]] # "absent"
      BY DEF AcksAgree
    <2>1. KeyOf[r] \in Keys /\ AnswerOK(r)
      BY ConstantsAssumption DEF Keyed, Answers
    <2> QED BY <2>1 DEF AnswerOK, StoreInv, ClaimsKnown
  <1> QED BY <1>1, StoreInvariant, PTL

\* A restart finds every acknowledged keyed job that is not finished: it is
\* pending under its key, or in the processing zset (_recover_durable_jobs).
THEOREM RestartFinds == Spec => []AcceptedRecoverable
  <1>1. IInv /\ StoreInv /\ Answers => AcceptedRecoverable
    <2> SUFFICES ASSUME IInv, StoreInv, Answers,
                        NEW r \in Requests, Keyed(r), rpc[r] = "acked"
                 PROVE  \/ envStatus[ack[r]] \in TERMINAL_STATES
                        \/ ack[r] \in PendingClaims
                        \/ envStatus[ack[r]] = "processing" /\ ack[r] \in proc
      BY DEF AcceptedRecoverable
    <2>1. KeyOf[r] \in Keys /\ AnswerOK(r)
      BY ConstantsAssumption DEF Keyed, Answers
    <2>2. RedisTypeOK /\ ack[r] # NoJob /\ ack[r] = claimJob[KeyOf[r]] /\ ack[r] \in Jobs
      BY <2>1 DEF AnswerOK, IInv, TypeOK, RedisTypeOK
    <2>3. envStatus[ack[r]] \in EnvStatuses /\ envStatus[ack[r]] # "absent"
      BY <2>1, <2>2 DEF RedisTypeOK, StoreInv, ClaimsKnown
    <2>4. CASE envStatus[ack[r]] = "pending"
      BY <2>1, <2>2, <2>4 DEF PendingClaims, RedisTypeOK
    <2>5. CASE envStatus[ack[r]] = "processing"
      BY <2>2, <2>5 DEF StoreInv, ProcessingListed
    <2> QED BY <2>3, <2>4, <2>5 DEF EnvStatuses
  <1> QED BY <1>1, StoreInvariant, PTL

----------------------------------------------------------------------------
(* Who touches a worker *)

WorkerAct(w) ==
    \/ TaskStep(w) \/ Renew(w) \/ PollIntent(w) \/ CancelJob(w) \/ CancelStep(w)
    \/ WorkerFault(w) \/ CleanupOldJob(w)

\* The record and the task of v stay as they are.
Same(v) ==
    /\ pc'[v] = pc[v] /\ arg'[v] = arg[v] /\ st'[v] = st[v] /\ exit'[v] = exit[v]
    /\ can'[v] = can[v]
    /\ v \in mem' <=> v \in mem
    /\ v \in durable' <=> v \in durable
    /\ v \in cancelEv' <=> v \in cancelEv
    /\ v \in doneEv' <=> v \in doneEv

\* The record and the task of v are created: by the answer of a reservation, by
\* an unkeyed request, or by the startup recovery.
Created(v) ==
    \E r \in Requests : /\ ReserveReply(r) /\ rpc[r] = "created"
                        /\ v = <<rgw[r], rjob[r]>> /\ NewRecord(v, TRUE)

CreatedUnkeyed(v) ==
    \E r \in Requests, j \in Jobs :
        Admit(r, j) /\ ~Keyed(r) /\ v = <<rgw[r], j>> /\ NewRecord(v, FALSE)

Recovered(v) ==
    \E g \in Gateways, j \in Jobs :
        RecoverJob(g, j) /\ Recoverable(g, j) /\ v = <<g, j>> /\ NewRecord(v, TRUE)

Scheduled(v) == Created(v) \/ CreatedUnkeyed(v) \/ Recovered(v)

\* A worker's step leaves the other workers alone.
LEMMA OtherWorkers ==
    ASSUME IInv, NEW w \in Workers, WorkerAct(w), NEW v \in Workers, v # w
    PROVE  Same(v)
  <1> USE DEF IInv, TypeOK, TaskTypeOK, RecordTypeOK, Same
  <1>1. CASE EnterRunJob(w) \/ LoseClaim(w) \/ Begin(w)
    BY <1>1 DEF EnterRunJob, LoseClaim, Begin, BeginRun, Goto
  <1>2. CASE CheckIntent(w) \/ CheckIntentFails(w) \/ HonourIntent(w)
    BY <1>2 DEF CheckIntent, CheckIntentFails, HonourIntent, Goto
  <1>3. CASE FailBeforeStart(w) \/ StartRemote(w) \/ (\E x \in Exits : StreamEnds(w, x))
    BY <1>3 DEF FailBeforeStart, StartRemote, StreamEnds, EnterFinally, Goto
  <1>4. CASE Classify(w) \/ Reaped(w) \/ Complete(w) \/ EndTask(w)
    BY <1>4 DEF Classify, Reaped, Complete, EndTask, EnterFinally, Goto
  <1>5. CASE Claim(w) \/ ClaimFails(w) \/ Persist(w)
    BY <1>5 DEF Claim, ClaimFails, Persist, Goto
  <1>6. CASE Finish(w) \/ FinishFails(w)
    BY <1>6 DEF Finish, FinishFails, AfterFinish, Goto
  <1>7. CASE Renew(w) \/ PollIntent(w) \/ CleanupOldJob(w)
    BY <1>7 DEF Renew, PollIntent, CleanupOldJob
  <1>8. CASE CancelJob(w) \/ CancelReply(w)
    BY <1>8 DEF CancelJob, CancelReply, ApplyCancel
  <1>9. CASE RequestCancellation(w) \/ CancellationFails(w)
    BY <1>9 DEF RequestCancellation, CancellationFails
  <1> QED BY <1>1, <1>2, <1>3, <1>4, <1>5, <1>6, <1>7, <1>8, <1>9
          DEF WorkerAct, TaskStep, CancelStep, WorkerFault

\* A new record leaves the others alone.
LEMMA OtherRecords ==
    ASSUME IInv, NEW w \in Workers, NEW b, NewRecord(w, b), UNCHANGED can,
           NEW v \in Workers, v # w
    PROVE  Same(v)
  BY DEF IInv, TypeOK, TaskTypeOK, RecordTypeOK, Same, NewRecord, Goto

\* What a process forgets is its own.
LEMMA OtherProcesses ==
    ASSUME IInv, NEW g \in Gateways, GoDown(g) \/ ForceCleanup(g),
           NEW v \in Workers, v[1] # g
    PROVE  Same(v)
  <1> USE DEF IInv, TypeOK, TaskTypeOK, RecordTypeOK, Same, ForgetTasks
  <1>1. CASE GoDown(g)
    BY <1>1 DEF GoDown, Of
  <1>2. CASE ForceCleanup(g)
    <2>1. ForgetTasks(g, {"reap"}) /\ UNCHANGED <<durable, exit>>
      BY <1>2 DEF ForceCleanup
    <2>2. st'[v] = st[v] /\ (v \in mem' <=> v \in mem) /\ (v \in cancelEv' <=> v \in cancelEv)
      BY <1>2 DEF ForceCleanup, Of
    <2>3. v \in doneEv' <=> v \in doneEv
      <3>1. v \notin Of(g, mem)
        BY DEF Of
      <3>2. doneEv' = doneEv \cup {w \in Of(g, mem) : st[w] = "pending"}
        BY <1>2 DEF ForceCleanup
      <3> QED BY <3>1, <3>2
    <2> QED BY <2>1, <2>2, <2>3
  <1> QED BY <1>1, <1>2

\* A worker is touched by its own steps, by the creation of its record, and by
\* the end of its process.
LEMMA Locality ==
    ASSUME IInv, [Next]_vars, NEW v \in Workers
    PROVE  \/ WorkerAct(v) \/ Same(v) \/ Scheduled(v) \/ GoDown(v[1]) \/ ForceCleanup(v[1])
  <1>1. ASSUME NEW r \in Requests,
               \/ RequestStep(r) \/ RequestFails(r) \/ \E g \in Gateways : Submit(r, g)
        PROVE  Same(v) \/ Scheduled(v)
    <2>1. CASE UNCHANGED <<recordVars, taskVars, can>>
      BY <2>1 DEF Same
    <2>2. CASE ReserveReply(r) /\ rpc[r] = "created"
      <3>1. NewRecord(<<rgw[r], rjob[r]>>, TRUE) /\ UNCHANGED can
        BY <2>2 DEF ReserveReply
      <3>2. <<rgw[r], rjob[r]>> \in Workers
        BY <2>2, WorkerParts DEF IInv, Shape, RequestShape, RequestOK, InFlight, Reserving
      <3>3. CASE v = <<rgw[r], rjob[r]>>
        BY <2>2, <3>1, <3>3 DEF Scheduled, Created
      <3> QED BY <3>1, <3>2, <3>3, OtherRecords
    <2>3. ASSUME NEW j \in Jobs, Admit(r, j), ~Keyed(r) PROVE Same(v) \/ Scheduled(v)
      <3>1. NewRecord(<<rgw[r], j>>, FALSE) /\ UNCHANGED can /\ rpc[r] = "lock"
        BY <2>3 DEF Admit
      <3>2. <<rgw[r], j>> \in Workers
        BY <3>1, WorkerParts DEF IInv, Shape, RequestShape, RequestOK, InFlight
      <3>3. CASE v = <<rgw[r], j>>
        BY <2>3, <3>1, <3>3 DEF Scheduled, CreatedUnkeyed
      <3> QED BY <3>1, <3>2, <3>3, OtherRecords
    <2>4. CASE FindSubmission(r) \/ Refuse(r) \/ Reserve(r) \/ RequestFails(r)
      BY <2>1, <2>4 DEF FindSubmission, Refuse, Reserve, RequestFails
    <2>5. CASE \E g \in Gateways : Submit(r, g)
      BY <2>1, <2>5 DEF Submit
    <2>6. CASE ReserveReply(r) /\ rpc[r] # "created"
      BY <2>1, <2>6 DEF ReserveReply
    <2>7. ASSUME NEW j \in Jobs, Admit(r, j), Keyed(r) PROVE Same(v) \/ Scheduled(v)
      BY <2>1, <2>7 DEF Admit
    <2> QED BY <1>1, <2>2, <2>3, <2>4, <2>5, <2>6, <2>7 DEF RequestStep
  <1>2. ASSUME NEW w \in Workers, WorkerAct(w)
        PROVE  WorkerAct(v) \/ Same(v)
    BY <1>2, OtherWorkers
  <1>3. ASSUME NEW g \in Gateways,
               \/ CloseSession(g) \/ Boot(g) \/ StartupStep(g) \/ Crash(g) \/ Shutdown(g)
               \/ DrainDone(g) \/ ForceCleanup(g) \/ CleanupDone(g)
               \/ \E j \in Jobs : PersistCleaned(g, j)
        PROVE  Same(v) \/ Scheduled(v) \/ GoDown(v[1]) \/ ForceCleanup(v[1])
    <2>1. CASE UNCHANGED <<recordVars, taskVars, can>>
      BY <2>1 DEF Same
    <2>2. CASE GoDown(g) \/ ForceCleanup(g)
      BY <2>2, OtherProcesses
    <2>3. ASSUME NEW j \in Jobs, RecoverJob(g, j) PROVE Same(v) \/ Scheduled(v)
      <3>1. CASE Recoverable(g, j) /\ NewRecord(<<g, j>>, TRUE) /\ UNCHANGED can
        <4>1. CASE v = <<g, j>>
          BY <2>3, <3>1, <4>1 DEF Scheduled, Recovered
        <4>2. <<g, j>> \in Workers
          BY WorkerParts
        <4> QED BY <3>1, <4>1, <4>2, OtherRecords
      <3>2. CASE UNCHANGED <<recordVars, taskVars, can>>
        BY <3>2 DEF Same
      <3> QED BY <2>3, <3>1, <3>2 DEF RecoverJob
    <2>4. CASE CloseSession(g) \/ Boot(g) \/ Reconcile(g) \/ ListRecoverable(g) \/ Serve(g)
      BY <2>1, <2>4 DEF CloseSession, Boot, Reconcile, ListRecoverable, Serve
    <2>5. CASE Crash(g) \/ Shutdown(g) \/ DrainDone(g) \/ CleanupDone(g)
      BY <2>1, <2>2, <2>5 DEF Crash, Shutdown, DrainDone, CleanupDone
    <2>6. CASE \E j \in Jobs : PersistCleaned(g, j)
      BY <2>1, <2>6 DEF PersistCleaned
    <2> QED BY <1>3, <2>2, <2>3, <2>4, <2>5, <2>6 DEF StartupStep
  <1>4. CASE Tick \/ UNCHANGED vars
    BY <1>4 DEF Tick, vars, Same
  <1> QED BY <1>1, <1>2, <1>3, <1>4 DEF Next, WorkerAct

\* A process is down before it boots, and only then is its token renewed; it
\* goes down or into its forced cleanup as a whole.
LEMMA ProcessFrame ==
    ASSUME IInv, [Next]_vars, NEW g \in Gateways
    PROVE  /\ boots'[g] = boots[g] \/ gpc[g] = "down"
           /\ gpc'[g] = "down" => gpc[g] = "down" \/ GoDown(g)
           /\ gpc'[g] = "cleanup" => gpc[g] = "cleanup" \/ ForceCleanup(g)
  <1> USE DEF IInv, TypeOK, GatewayTypeOK
  <1>1. CASE UNCHANGED <<gpc, boots>>
    BY <1>1
  <1>2. ASSUME NEW r \in Requests,
               \/ RequestStep(r) \/ RequestFails(r) \/ \E h \in Gateways : Submit(r, h)
        PROVE  UNCHANGED <<gpc, boots>>
    BY <1>2 DEF RequestStep, RequestFails, Submit, FindSubmission, Refuse, Reserve,
       ReserveReply, Admit
  <1>3. ASSUME NEW w \in Workers, WorkerAct(w)
        PROVE  UNCHANGED <<gpc, boots>>
    BY <1>3, WorkerUnserved DEF WorkerAct
  <1>4. ASSUME NEW h \in Gateways, GoDown(h)
        PROVE  /\ UNCHANGED boots
               /\ gpc' = [gpc EXCEPT ![h] = "down"]
    BY <1>4 DEF GoDown
  <1>5. ASSUME NEW h \in Gateways,
               \/ CloseSession(h) \/ StartupStep(h)
               \/ \E j \in Jobs : PersistCleaned(h, j)
        PROVE  /\ UNCHANGED boots
               /\ gpc'[g] \in {"down", "cleanup"} => gpc'[g] = gpc[g]
    BY <1>5 DEF CloseSession, StartupStep, Reconcile, ListRecoverable, Serve, RecoverJob,
       PersistCleaned
  <1>6. ASSUME NEW h \in Gateways, Boot(h)
        PROVE  /\ boots'[g] = boots[g] \/ gpc[g] = "down"
               /\ gpc'[g] \in {"down", "cleanup"} => gpc'[g] = gpc[g]
    BY <1>6 DEF Boot
  <1>7. ASSUME NEW h \in Gateways, ForceCleanup(h)
        PROVE  UNCHANGED boots /\ gpc' = [gpc EXCEPT ![h] = "cleanup"]
    BY <1>7 DEF ForceCleanup
  <1>8. ASSUME NEW h \in Gateways, Shutdown(h)
        PROVE  \/ GoDown(h)
               \/ UNCHANGED boots /\ gpc' = [gpc EXCEPT ![h] = "draining"]
    BY <1>8 DEF Shutdown
  <1>9. CASE Tick \/ UNCHANGED vars
    BY <1>9 DEF Tick, vars
  <1>10. ASSUME NEW h \in Gateways,
                \/ CloseSession(h) \/ Boot(h) \/ StartupStep(h) \/ Crash(h) \/ Shutdown(h)
                \/ DrainDone(h) \/ ForceCleanup(h) \/ CleanupDone(h)
                \/ \E j \in Jobs : PersistCleaned(h, j)
         PROVE  /\ boots'[g] = boots[g] \/ gpc[g] = "down"
                /\ gpc'[g] = "down" => gpc[g] = "down" \/ GoDown(g)
                /\ gpc'[g] = "cleanup" => gpc[g] = "cleanup" \/ ForceCleanup(g)
    <2>1. CASE GoDown(h)
      BY <2>1, <1>4
    <2>2. CASE ForceCleanup(h)
      BY <2>2, <1>7
    <2>3. CASE Shutdown(h)
      BY <2>1, <2>3, <1>8
    <2>4. CASE Crash(h) \/ DrainDone(h) \/ CleanupDone(h)
      BY <2>1, <2>4 DEF Crash, DrainDone, CleanupDone
    <2> QED BY <1>10, <1>5, <1>6, <2>2, <2>3, <2>4
  <1> QED BY <1>1, <1>2, <1>3, <1>9, <1>10 DEF Next, WorkerAct

----------------------------------------------------------------------------
(* "completed" is the outcome that the owner saw *)

\* What a worker says of an exit code 0, its attempt has seen; a process that
\* is down has no records.
ZeroOK(w) ==
    /\ gpc[w[1]] = "down" => st[w] = "absent" /\ exit[w] = "none"
    /\ \/ exit[w] = "zero" \/ st[w] = "completed"
       \/ pc[w] \in {"finish", "cfinish"} /\ arg[w] = "completed"
       => <<w[2], Tok(w)>> \in zero

ZeroSeen == \A w \in Workers : ZeroOK(w)

\* A worker's own steps.
LEMMA ZeroAct ==
    ASSUME IInv, NEW w \in Workers, ZeroOK(w), WorkerAct(w)
    PROVE  ZeroOK(w)' /\ zero \subseteq zero'
  <1>a. UNCHANGED <<gpc, boots>>
    BY WorkerUnserved DEF WorkerAct
  <1>b. /\ pc[w] # "none" => gpc[w[1]] # "down"
        /\ can[w] # "idle" => gpc[w[1]] # "down"
    BY DEF IInv, Shape, WorkerShape, WorkerOK
  <1> USE DEF IInv, TypeOK, TaskTypeOK, RecordTypeOK
  <1>1. CASE UNCHANGED <<exit, zero>> /\ st'[w] \in {st[w], "cancelled", "cancelling", "running", "failed"}
             /\ (st'[w] = st[w] \/ gpc[w[1]] # "down")
             /\ (pc'[w] \in {"finish", "cfinish"} /\ arg'[w] = "completed" =>
                   \/ st[w] = "completed"
                   \/ pc[w] \in {"finish", "cfinish"} /\ arg[w] = "completed")
    BY <1>1, <1>a DEF ZeroOK, Tok
  <1>2. CASE EnterRunJob(w) \/ LoseClaim(w) \/ Begin(w)
    BY <1>1, <1>2, <1>b DEF EnterRunJob, LoseClaim, Begin, BeginRun, Goto
  <1>3. CASE CheckIntent(w) \/ CheckIntentFails(w)
    BY <1>1, <1>3 DEF CheckIntent, CheckIntentFails, Goto
  <1>4. CASE HonourIntent(w)
    BY <1>4, <1>a, <1>b DEF HonourIntent, Goto, ZeroOK, Tok
  <1>5. CASE FailBeforeStart(w) \/ StartRemote(w)
    BY <1>1, <1>5, <1>b DEF FailBeforeStart, StartRemote, EnterFinally, Goto
  <1>6. CASE \E x \in Exits : StreamEnds(w, x)
    BY <1>6, <1>a, <1>b DEF StreamEnds, Goto, ZeroOK, Tok
  <1>7. CASE Classify(w)
    BY <1>7, <1>a, <1>b DEF Classify, Outcome, EnterFinally, Goto, ZeroOK, Tok
  <1>8. CASE Reaped(w) \/ Complete(w) \/ EndTask(w)
    BY <1>1, <1>8 DEF Reaped, Complete, EndTask, Goto
  <1>9. CASE Claim(w) \/ ClaimFails(w) \/ Persist(w)
    BY <1>1, <1>9 DEF Claim, ClaimFails, Persist, Goto
  <1>10. CASE Finish(w) \/ FinishFails(w)
    BY <1>1, <1>10 DEF Finish, FinishFails, AfterFinish, Goto
  <1>11. CASE Renew(w) \/ PollIntent(w) \/ CleanupOldJob(w)
    BY <1>1, <1>11 DEF Renew, PollIntent, CleanupOldJob
  <1>12. CASE CancelJob(w)
    BY <1>1, <1>12 DEF CancelJob, ApplyCancel
  <1>13. CASE CancelReply(w)
    BY <1>1, <1>13, <1>b DEF CancelReply, ApplyCancel
  <1>14. CASE RequestCancellation(w) \/ CancellationFails(w)
    BY <1>1, <1>14 DEF RequestCancellation, CancellationFails
  <1> QED BY <1>2, <1>3, <1>4, <1>5, <1>6, <1>7, <1>8, <1>9, <1>10, <1>11, <1>12, <1>13, <1>14
          DEF WorkerAct, TaskStep, CancelStep, WorkerFault

\* The attempts that saw an exit code 0 are never forgotten.
LEMMA ZeroGrows ==
    ASSUME IInv, ZeroSeen, [Next]_vars
    PROVE  zero \subseteq zero'
  <1>1. ASSUME NEW r \in Requests,
               \/ RequestStep(r) \/ RequestFails(r) \/ \E g \in Gateways : Submit(r, g)
        PROVE  UNCHANGED zero
    BY <1>1 DEF RequestStep, RequestFails, Submit, FindSubmission, Refuse, Reserve,
       ReserveReply, Admit
  <1>2. ASSUME NEW w \in Workers, WorkerAct(w) PROVE zero \subseteq zero'
    BY <1>2, ZeroAct DEF ZeroSeen
  <1>3. ASSUME NEW g \in Gateways,
               \/ CloseSession(g) \/ Boot(g) \/ StartupStep(g) \/ Crash(g) \/ Shutdown(g)
               \/ DrainDone(g) \/ ForceCleanup(g) \/ CleanupDone(g)
               \/ \E j \in Jobs : PersistCleaned(g, j)
        PROVE  UNCHANGED zero
    BY <1>3 DEF CloseSession, Boot, StartupStep, Reconcile, ListRecoverable, Serve, RecoverJob,
       Crash, Shutdown, DrainDone, CleanupDone, GoDown, ForceCleanup, PersistCleaned
  <1>4. CASE Tick \/ UNCHANGED vars
    BY <1>4 DEF Tick, vars
  <1> QED BY <1>1, <1>2, <1>3, <1>4 DEF Next, WorkerAct

\* No step makes a worker claim an exit code that its attempt has not seen.
LEMMA ZeroStep ==
    ASSUME IInv, ZeroSeen, [Next]_vars
    PROVE  ZeroSeen'
  <1> SUFFICES ASSUME NEW w \in Workers PROVE ZeroOK(w)'
    BY DEF ZeroSeen
  <1>a. ZeroOK(w) /\ zero \subseteq zero' /\ w[1] \in Gateways
    BY ZeroGrows, WorkerParts DEF ZeroSeen
  <1>1. CASE WorkerAct(w)
    BY <1>1, <1>a, ZeroAct
  <1>2. CASE GoDown(w[1])
    <2>1. st'[w] = "absent" /\ exit'[w] = "none" /\ pc'[w] = "none"
      BY <1>2, <1>a DEF GoDown, ForgetTasks
    <2> QED BY <2>1 DEF ZeroOK
  <1>3. CASE ForceCleanup(w[1])
    <2>1. /\ UNCHANGED <<exit, boots>> /\ gpc'[w[1]] = "cleanup"
          /\ ForgetTasks(w[1], {"reap"})
      BY <1>3, <1>a DEF ForceCleanup, IInv, TypeOK, GatewayTypeOK
    <2>2. st'[w] \in {st[w], "cancelled", "cancelling"}
      BY <1>3 DEF ForceCleanup
    <2>3. pc'[w] \in {"finish", "cfinish"} => arg'[w] = "none"
      BY <2>1 DEF ForgetTasks
    <2> QED BY <1>a, <2>1, <2>2, <2>3 DEF ZeroOK, Tok
  <1>4. CASE Scheduled(w)
    <2>1. st'[w] = "pending" /\ exit'[w] = "none" /\ pc'[w] = "sched"
      BY <1>4 DEF Scheduled, Created, CreatedUnkeyed, Recovered, NewRecord, Goto, IInv,
         TypeOK, RecordTypeOK, TaskTypeOK
    <2>2. IInv'
      BY ShapeStep, ReplayStep DEF IInv
    <2>3. gpc'[w[1]] # "down"
      BY <2>1, <2>2 DEF IInv, Shape, WorkerShape, WorkerOK
    <2> QED BY <2>1, <2>3 DEF ZeroOK
  <1>5. CASE Same(w) /\ ~GoDown(w[1])
    <2>1. CASE gpc[w[1]] = "down"
      <3>1. pc[w] = "none"
        BY <2>1 DEF IInv, Shape, WorkerShape, WorkerOK
      <3> QED BY <1>5, <1>a, <2>1, <3>1 DEF Same, ZeroOK
    <2>2. CASE gpc[w[1]] # "down"
      <3>1. boots'[w[1]] = boots[w[1]] /\ gpc'[w[1]] # "down"
        BY <1>5, <1>a, <2>2, ProcessFrame
      <3> QED BY <1>5, <1>a, <2>2, <3>1 DEF Same, ZeroOK, Tok
    <2> QED BY <2>1, <2>2
  <1> QED BY <1>1, <1>2, <1>3, <1>4, <1>5, Locality

\* An envelope becomes "completed" under a token only by the finish of the
\* worker that has the token, and its attempt saw exit code 0.
LEMMA CompletedStep ==
    ASSUME IInv, ZeroSeen, CompletedByOwner, [Next]_vars
    PROVE  CompletedByOwner'
  <1> SUFFICES ASSUME NEW j \in Jobs, envStatus'[j] = "completed", envToken'[j] # NoToken
               PROVE  <<j, envToken'[j]>> \in zero'
    BY DEF CompletedByOwner
  <1>a. RedisTypeOK /\ zero \subseteq zero' /\ \A w \in Workers : w[2] \in Jobs
    BY ZeroGrows, WorkerParts DEF IInv, TypeOK
  <1>1. CASE envStatus[j] = "completed" /\ envToken'[j] = envToken[j]
    BY <1>1, <1>a DEF CompletedByOwner
  <1>2. ASSUME NEW r \in Requests, Reserve(r) PROVE <<j, envToken'[j]>> \in zero'
    BY <1>1, <1>2, <1>a, ReserveFacts DEF reserve_submission_with_job, RedisTypeOK
  <1>3. CASE Tick \/ UNCHANGED redisVars \/ RenewScript
    BY <1>1, <1>3, <1>a DEF Tick, RenewScript, heartbeat_durable_execution, RedisTypeOK
  <1>4. CASE ClaimScript
    BY <1>1, <1>4, <1>a DEF ClaimScript, claim_durable_execution, RedisTypeOK
  <1>5. CASE CancelScript
    BY <1>1, <1>5, <1>a DEF CancelScript, request_durable_cancellation, RedisTypeOK
  <1>6. CASE reconcile_expired_cancelled_processing
    BY <1>1, <1>6, <1>a DEF reconcile_expired_cancelled_processing, RedisTypeOK
  <1>7. CASE FinishScript
    <2>1. PICK w \in Workers : /\ pc[w] \in {"finish", "cfinish"}
                               /\ finish_durable_execution(w[2], Tok(w), arg[w])
      BY <1>7 DEF FinishScript
    <2>2. CASE OwnedBy(w[2], Tok(w)) /\ j = w[2]
      <3>1. arg[w] = "completed" /\ envToken'[j] = Tok(w)
        BY <1>a, <2>1, <2>2 DEF finish_durable_execution, OwnedBy, RedisTypeOK
      <3> QED BY <1>a, <2>1, <2>2, <3>1 DEF ZeroSeen, ZeroOK
    <2>3. CASE ~(OwnedBy(w[2], Tok(w)) /\ j = w[2])
      BY <1>1, <1>a, <2>1, <2>3 DEF finish_durable_execution, RedisTypeOK
    <2> QED BY <2>2, <2>3
  <1>8. ASSUME NEW i \in Jobs, NEW s, Save(i, s) PROVE <<j, envToken'[j]>> \in zero'
    BY <1>1, <1>8, <1>a DEF Save, save_terminal_job, save_terminal_job_fails, SetTerminal,
       RedisTypeOK
  <1>9. CASE PersistScript \/ CleanupScript
    BY <1>8, <1>9, <1>a DEF PersistScript, CleanupScript
  <1> QED BY <1>2, <1>3, <1>4, <1>5, <1>6, <1>7, <1>9, StoreSteps DEF Script

\* A durable "completed" is the result of the attempt whose token the envelope
\* carries: an attempt that lost its lease cannot publish over a later one
\* (the fence of finish_durable_execution).
THEOREM OwnerCompletes == Spec => []CompletedByOwner
  <1>1. Init => IInv /\ ZeroSeen /\ CompletedByOwner
    <2>1. Init => IInv
      BY InitShape, InitReplay DEF IInv
    <2>2. Init => ZeroSeen /\ CompletedByOwner
      BY WorkerParts DEF Init, RedisInit, ZeroSeen, ZeroOK, CompletedByOwner
    <2> QED BY <2>1, <2>2
  <1>2. IInv /\ [Next]_vars => IInv'
    BY ShapeStep, ReplayStep DEF IInv
  <1>3. IInv /\ ZeroSeen /\ CompletedByOwner /\ [Next]_vars => (ZeroSeen /\ CompletedByOwner)'
    BY ZeroStep, CompletedStep
  <1> QED BY <1>1, <1>2, <1>3, PTL DEF Spec

\* Once cancellation is recorded for a processing job, no step hands the job to
\* another worker or forgets the intent (the claim script's test of
\* cancel_requested, which comes before those of the token and the lease).
THEOREM IntentStands == Spec => CancelIntentNotReplayed
  <1> DEFINE Stands ==
        \A j \in envCancel :
            envStatus[j] = "processing" /\ envStatus'[j] = "processing"
               => envToken'[j] = envToken[j] /\ j \in envCancel'
  <1>1. ASSUME IInv, [Next]_vars PROVE Stands
    <2> SUFFICES ASSUME NEW j \in envCancel,
                        envStatus[j] = "processing", envStatus'[j] = "processing"
                 PROVE  envToken'[j] = envToken[j] /\ j \in envCancel'
      OBVIOUS
    <2>a. RedisTypeOK /\ j \in Jobs /\ \A w \in Workers : w[2] \in Jobs
      BY <1>1, WorkerParts DEF IInv, TypeOK, RedisTypeOK
    <2>1. ASSUME NEW r \in Requests, Reserve(r)
          PROVE  envToken'[j] = envToken[j] /\ j \in envCancel'
      BY <2>1 DEF Reserve, reserve_submission_with_job
    <2>2. CASE Tick \/ UNCHANGED redisVars \/ RenewScript \/ FinishScript \/ CancelScript
      BY <2>2, <2>a DEF Tick, RenewScript, FinishScript, CancelScript,
         heartbeat_durable_execution, finish_durable_execution, request_durable_cancellation
    <2>3. CASE ClaimScript
      BY <2>3, <2>a DEF ClaimScript, claim_durable_execution, Claimable, RedisTypeOK
    <2>4. CASE reconcile_expired_cancelled_processing
      BY <2>4 DEF reconcile_expired_cancelled_processing
    <2>5. ASSUME NEW i \in Jobs, NEW s \in TERMINAL_STATES, Save(i, s)
          PROVE  envToken'[j] = envToken[j] /\ j \in envCancel'
      BY <2>5, <2>a DEF Save, save_terminal_job, save_terminal_job_fails, SetTerminal,
         RedisTypeOK, TERMINAL_STATES
    <2>6. CASE PersistScript
      <3>1. PICK w \in Workers : pc[w] = "persist" /\ Save(w[2], st[w])
        BY <2>6 DEF PersistScript
      <3>2. st[w] \in TERMINAL_STATES
        BY <1>1, <3>1 DEF IInv, Shape, WorkerShape, WorkerOK
      <3> QED BY <2>5, <2>a, <3>1, <3>2
    <2>7. CASE CleanupScript
      <3>1. PICK g \in Gateways, i \in Jobs : i \in pers[g] /\ Save(i, st[<<g, i>>])
        BY <2>7 DEF CleanupScript
      <3>2. st[<<g, i>>] \in TERMINAL_STATES
        BY <1>1, <3>1 DEF IInv, Shape, GatewayShape, GatewayOK
      <3> QED BY <2>5, <3>1, <3>2
    <2> QED BY <1>1, <2>1, <2>2, <2>3, <2>4, <2>6, <2>7, StoreSteps DEF Script
  <1>2. IInv /\ [Next]_vars => [Stands]_vars
    BY <1>1
  <1> QED BY <1>2, ReplayInvariant, PTL DEF Spec, CancelIntentNotReplayed

----------------------------------------------------------------------------
(* Which jobs have which records *)

DrawnKeyed(j) == \E r \in Requests : Keyed(r) /\ rjob[r] = j

\* An unkeyed request drew the job of w in the process of w.
Mine(w) == \E q \in Requests : ~Keyed(q) /\ rjob[q] = w[2] /\ rgw[q] = w[1]

EnvKeyed == \A j \in Jobs : envStatus[j] \in {"pending", "processing"} => DrawnKeyed(j)

\* Durable records belong to keyed requests; the record, the task and the
\* outcome to persist of an unkeyed job are where its request was served; a
\* forced cleanup has emptied the manager.
RecordOK(w) ==
    /\ w \in durable => DrawnKeyed(w[2])
    /\ w \notin durable /\ (w \in mem \/ pc[w] # "none" \/ w[2] \in pers[w[1]]) => Mine(w)
    /\ w \in mem => gpc[w[1]] # "cleanup"

Records == EnvKeyed /\ \A w \in Workers : RecordOK(w)

\* A job id that was drawn stays with its request and its gateway.
LEMMA DrawStays ==
    ASSUME IInv, [Next]_vars, NEW r \in Requests, rjob[r] \in Jobs
    PROVE  rjob'[r] = rjob[r] /\ rgw'[r] = rgw[r]
  <1>a. rpc[r] \notin {"idle", "find", "lock", "full"}
    BY ConstantsAssumption DEF IInv, Shape, RequestShape, RequestOK
  <1>1. CASE Unserved(r)
    BY <1>1 DEF Unserved
  <1>2. CASE RequestStep(r) \/ RequestFails(r) \/ \E g \in Gateways : Submit(r, g)
    BY <1>2, <1>a DEF RequestStep, RequestFails, Submit, FindSubmission, Refuse, Reserve,
       ReserveReply, Admit
  <1> QED BY <1>1, <1>2, RequestFrame

\* So what was drawn stays drawn.
LEMMA DrawnStays ==
    ASSUME IInv, [Next]_vars
    PROVE  /\ \A j \in Jobs : DrawnKeyed(j) => DrawnKeyed(j)'
           /\ \A w \in Workers : Mine(w) => Mine(w)'
  BY DrawStays, WorkerParts DEF DrawnKeyed, Mine, Keyed

\* No job has both a keyed and an unkeyed request, and an unkeyed one has one place.
LEMMA OnePlace ==
    ASSUME IInv, NEW w \in Workers, Mine(w)
    PROVE  /\ ~DrawnKeyed(w[2])
           /\ \A v \in Workers : Mine(v) /\ v[2] = w[2] => v = w
  BY WorkerParts DEF IInv, Replay, Ids, DrawnOnce, Mine, DrawnKeyed

\* Only a reservation brings an envelope to life.
LEMMA LiveStays ==
    ASSUME IInv, Tick \/ Script, NEW j \in Jobs, envStatus'[j] \in {"pending", "processing"}
    PROVE  envStatus[j] \in {"pending", "processing"}
  <1>a. RedisTypeOK /\ \A w \in Workers : w[2] \in Jobs
    BY WorkerParts DEF IInv, TypeOK
  <1>1. CASE Tick \/ UNCHANGED redisVars \/ RenewScript
    BY <1>1 DEF Tick, RenewScript, heartbeat_durable_execution
  <1>2. CASE ClaimScript
    BY <1>2, <1>a DEF ClaimScript, claim_durable_execution, Claimable, RedisTypeOK
  <1>3. CASE CancelScript
    BY <1>3, <1>a DEF CancelScript, request_durable_cancellation, RedisTypeOK
  <1>4. CASE reconcile_expired_cancelled_processing
    BY <1>4, <1>a DEF reconcile_expired_cancelled_processing, RedisTypeOK
  <1>5. CASE FinishScript
    BY <1>5, <1>a DEF FinishScript, finish_durable_execution, RedisTypeOK, OwnedBy
  <1>6. ASSUME NEW i \in Jobs, NEW s \in TERMINAL_STATES, Save(i, s)
        PROVE  envStatus[j] \in {"pending", "processing"}
    BY <1>6, <1>a DEF Save, save_terminal_job, save_terminal_job_fails, SetTerminal,
       RedisTypeOK, TERMINAL_STATES
  <1>7. CASE PersistScript
    <2>1. PICK w \in Workers : pc[w] = "persist" /\ Save(w[2], st[w])
      BY <1>7 DEF PersistScript
    <2>2. st[w] \in TERMINAL_STATES
      BY <2>1 DEF IInv, Shape, WorkerShape, WorkerOK
    <2> QED BY <1>6, <1>a, <2>1, <2>2
  <1>8. CASE CleanupScript
    <2>1. PICK g \in Gateways, i \in Jobs : i \in pers[g] /\ Save(i, st[<<g, i>>])
      BY <1>8 DEF CleanupScript
    <2>2. st[<<g, i>>] \in TERMINAL_STATES
      BY <2>1 DEF IInv, Shape, GatewayShape, GatewayOK
    <2> QED BY <1>6, <2>1, <2>2
  <1> QED BY <1>1, <1>2, <1>3, <1>4, <1>5, <1>7, <1>8 DEF Script

\* A worker's own steps make no record durable, create none, and start no task.
LEMMA WorkerRecords ==
    ASSUME IInv, NEW w \in Workers, WorkerAct(w)
    PROVE  /\ UNCHANGED <<durable, pers, gpc>> /\ mem' \subseteq mem
           /\ pc[w] = "none" => pc'[w] = "none"
  <1>1. UNCHANGED <<pers, gpc>>
    BY WorkerUnserved DEF WorkerAct
  <1> USE DEF IInv, TypeOK, TaskTypeOK, Goto
  <1>2. CASE \/ EnterRunJob(w) \/ LoseClaim(w) \/ CheckIntent(w) \/ CheckIntentFails(w)
             \/ HonourIntent(w) \/ Begin(w) \/ FailBeforeStart(w) \/ StartRemote(w)
             \/ (\E x \in Exits : StreamEnds(w, x))
             \/ Classify(w) \/ Reaped(w) \/ Complete(w) \/ EndTask(w)
    BY <1>1, <1>2 DEF EnterRunJob, LoseClaim, CheckIntent, CheckIntentFails, HonourIntent,
       Begin, FailBeforeStart, StartRemote, StreamEnds, Classify, Reaped, Complete, EndTask
  <1>3. CASE Claim(w) \/ ClaimFails(w) \/ Finish(w) \/ FinishFails(w) \/ Persist(w)
    BY <1>1, <1>3 DEF Claim, ClaimFails, Finish, FinishFails, Persist
  <1>4. CASE \/ Renew(w) \/ RequestCancellation(w) \/ CancellationFails(w) \/ PollIntent(w)
             \/ CancelJob(w) \/ CancelReply(w) \/ CleanupOldJob(w)
    BY <1>1, <1>4 DEF Renew, RequestCancellation, CancellationFails, PollIntent, CancelJob,
       CancelReply, CleanupOldJob, ApplyCancel
  <1> QED BY <1>2, <1>3, <1>4 DEF WorkerAct, TaskStep, CancelStep, WorkerFault

\* Only a forced cleanup adds outcomes to persist.
LEMMA PersFrame ==
    ASSUME IInv, [Next]_vars, NEW g \in Gateways
    PROVE  pers'[g] \subseteq pers[g] \/ ForceCleanup(g)
  <1> USE DEF IInv, TypeOK, GatewayTypeOK
  <1>1. ASSUME NEW r \in Requests,
               \/ RequestStep(r) \/ RequestFails(r) \/ \E h \in Gateways : Submit(r, h)
        PROVE  UNCHANGED pers
    BY <1>1 DEF RequestStep, RequestFails, Submit, FindSubmission, Refuse, Reserve,
       ReserveReply, Admit
  <1>2. ASSUME NEW w \in Workers, WorkerAct(w) PROVE UNCHANGED pers
    BY <1>2, WorkerRecords
  <1>3. ASSUME NEW h \in Gateways, GoDown(h) PROVE pers'[g] \subseteq pers[g]
    BY <1>3 DEF GoDown
  <1>4. ASSUME NEW h \in Gateways, CloseSession(h) \/ Boot(h) \/ StartupStep(h)
        PROVE  UNCHANGED pers
    BY <1>4 DEF CloseSession, Boot, StartupStep, Reconcile, ListRecoverable, Serve, RecoverJob
  <1>5. ASSUME NEW h \in Gateways, NEW j \in Jobs, PersistCleaned(h, j)
        PROVE  pers'[g] \subseteq pers[g]
    BY <1>5 DEF PersistCleaned
  <1>6. ASSUME NEW h \in Gateways, ForceCleanup(h), h # g PROVE pers'[g] = pers[g]
    BY <1>6 DEF ForceCleanup
  <1>7. ASSUME NEW h \in Gateways, Crash(h) \/ Shutdown(h) \/ DrainDone(h) \/ CleanupDone(h)
        PROVE  GoDown(h) \/ UNCHANGED pers
    BY <1>7 DEF Crash, Shutdown, DrainDone, CleanupDone
  <1>8. CASE Tick \/ UNCHANGED vars
    BY <1>8 DEF Tick, vars
  <1> QED BY <1>1, <1>2, <1>3, <1>4, <1>5, <1>6, <1>7, <1>8 DEF Next, WorkerAct

\* Records stay where they belong.
LEMMA RecordsStep ==
    ASSUME IInv, Records, [Next]_vars
    PROVE  Records'
  <1>a. \A w \in Workers : w[1] \in Gateways /\ w[2] \in Jobs /\ w = <<w[1], w[2]>>
    BY WorkerParts
  <1>b. IInv'
    BY ShapeStep, ReplayStep DEF IInv
  <1>1. ASSUME NEW j \in Jobs, envStatus'[j] \in {"pending", "processing"}
        PROVE  DrawnKeyed(j)'
    <2>1. ASSUME NEW r \in Requests, Reserve(r) PROVE DrawnKeyed(j)'
      <3>1. /\ reserve_submission_with_job(KeyOf[r], IdentOf[r], rjob[r])
            /\ rpc[r] = "reserve" /\ rjob[r] \in Jobs
        BY <2>1, ReserveFacts
      <3>2. CASE j = rjob[r]
        <4>1. Keyed(r) /\ DrawnKeyed(j)
          BY <3>1, <3>2 DEF IInv, Shape, RequestShape, RequestOK, InFlight, Reserving,
             DrawnKeyed
        <4> QED BY <4>1, DrawnStays
      <3>3. CASE j # rjob[r]
        <4>1. envStatus'[j] = envStatus[j]
          BY <3>1, <3>3 DEF reserve_submission_with_job, IInv, TypeOK, RedisTypeOK
        <4> QED BY <1>1, <4>1, DrawnStays DEF Records, EnvKeyed
      <3> QED BY <3>2, <3>3
    <2>2. CASE Tick \/ Script
      BY <1>1, <2>2, LiveStays, DrawnStays DEF Records, EnvKeyed
    <2> QED BY <2>1, <2>2, StoreSteps
  <1>2. ASSUME NEW w \in Workers PROVE RecordOK(w)'
    <2>a. RecordOK(w) /\ (DrawnKeyed(w[2]) => DrawnKeyed(w[2])') /\ (Mine(w) => Mine(w)')
      BY <1>a, DrawnStays DEF Records
    <2>1. CASE WorkerAct(w)
      BY <2>1, <2>a, WorkerRecords DEF RecordOK
    <2>2. CASE GoDown(w[1])
      <3>1. w \notin durable' /\ w \notin mem' /\ pc'[w] = "none" /\ pers'[w[1]] = {}
        BY <1>a, <2>2 DEF GoDown, Of, ForgetTasks, IInv, TypeOK, GatewayTypeOK
      <3> QED BY <3>1 DEF RecordOK
    <2>3. CASE ForceCleanup(w[1])
      <3>1. Quiet
        BY <1>a, <2>3, GatewayQuiet
      <3>2. w[2] \in pers'[w[1]] => w[2] \in pers[w[1]] \/ w \in mem
        BY <1>a, <3>1 DEF Quiet, OkGateway
      <3>3. UNCHANGED durable /\ w \notin mem' /\ (pc[w] = "none" => pc'[w] = "none")
        BY <1>a, <2>3, <3>1 DEF ForceCleanup, Of, Quiet, OkMove
      <3> QED BY <2>a, <3>2, <3>3 DEF RecordOK
    <2>4. CASE Same(w) /\ ~ForceCleanup(w[1])
      <3>1. pers'[w[1]] \subseteq pers[w[1]]
        BY <1>a, <2>4, PersFrame
      <3>2. gpc'[w[1]] = "cleanup" => gpc[w[1]] = "cleanup"
        BY <1>a, <2>4, ProcessFrame
      <3> QED BY <2>4, <2>a, <3>1, <3>2 DEF Same, RecordOK
    <2>5. CASE Scheduled(w)
      <3>1. pc'[w] = "sched" /\ gpc'[w[1]] # "cleanup"
        <4>1. pc'[w] = "sched"
          BY <2>5 DEF Scheduled, Created, CreatedUnkeyed, Recovered, NewRecord, Goto, IInv,
             TypeOK, TaskTypeOK
        <4> QED BY <1>b, <4>1 DEF IInv, Shape, WorkerShape, WorkerOK
      <3>2. CASE Created(w)
        <4>1. PICK r \in Requests : /\ rpc[r] = "created"
                                    /\ w = <<rgw[r], rjob[r]>> /\ NewRecord(w, TRUE)
          BY <3>2 DEF Created
        <4>2. Keyed(r) /\ w[2] = rjob[r]
          BY <4>1 DEF IInv, Shape, RequestShape, RequestOK, InFlight, Reserving
        <4>3. DrawnKeyed(w[2])'
          BY <2>a, <4>2 DEF DrawnKeyed
        <4>4. w \in durable'
          BY <4>1 DEF NewRecord
        <4> QED BY <3>1, <4>3, <4>4 DEF RecordOK
      <3>3. CASE CreatedUnkeyed(w)
        <4>1. PICK r \in Requests, j \in Jobs :
                Admit(r, j) /\ ~Keyed(r) /\ w = <<rgw[r], j>> /\ NewRecord(w, FALSE)
          BY <3>3 DEF CreatedUnkeyed
        <4>2. rjob'[r] = j /\ rgw'[r] = rgw[r]
          BY <4>1 DEF Admit, IInv, TypeOK, RequestTypeOK
        <4>3. Mine(w)'
          BY <4>1, <4>2 DEF Mine, Keyed
        <4>4. w \notin durable'
          BY <4>1 DEF NewRecord
        <4> QED BY <3>1, <4>3, <4>4 DEF RecordOK
      <3>4. CASE Recovered(w)
        <4>1. PICK g \in Gateways, j \in Jobs :
                Recoverable(g, j) /\ w = <<g, j>> /\ NewRecord(w, TRUE)
          BY <3>4 DEF Recovered
        <4>2. envStatus[w[2]] \in {"pending", "processing"}
          BY <4>1 DEF Recoverable
        <4>3. DrawnKeyed(w[2])'
          BY <1>a, <2>a, <4>2 DEF Records, EnvKeyed
        <4>4. w \in durable'
          BY <4>1 DEF NewRecord
        <4> QED BY <3>1, <4>3, <4>4 DEF RecordOK
      <3> QED BY <2>5, <3>2, <3>3, <3>4 DEF Scheduled
    <2> QED BY <2>1, <2>2, <2>3, <2>4, <2>5, Locality
  <1> QED BY <1>1, <1>2 DEF Records, EnvKeyed

----------------------------------------------------------------------------
(* Unkeyed jobs *)

\* Where the task of an unkeyed record is, and what the record and the store
\* say then.
UnkeyedOK(w) ==
    w \in mem \ durable =>
        /\ pc[w] \in UnkeyedPCs \cup {"none"}
        /\ pc[w] = "sched" =>
             \/ st[w] = "pending" /\ w \notin doneEv
             \/ st[w] = "cancelled" /\ w \in cancelEv
        /\ pc[w] = "start" => starts[w[2]] = 0
        /\ pc[w] \in {"start", "stream", "ended"} =>
             st[w] \in {"running", "cancelling"} /\ w \notin doneEv
        /\ pc[w] = "persist" /\ w \in doneEv => starts[w[2]] = 0
        /\ pc[w] \in {"persist", "fin", "end", "none"} => st[w] \in TERMINAL_STATES
        /\ pc[w] \in {"fin", "end", "none"} /\ faults = 0 => envStatus[w[2]] = st[w]
        /\ st[w] = "cancelled" => starts[w[2]] = 0

Unkeyed == \A w \in Workers : UnkeyedOK(w)

\* Only execute_stream starts a remote command.
LEMMA StartsFrame ==
    ASSUME [Next]_vars
    PROVE  UNCHANGED starts \/ \E v \in Workers : StartRemote(v)
  <1>1. ASSUME NEW r \in Requests,
               \/ RequestStep(r) \/ RequestFails(r) \/ \E h \in Gateways : Submit(r, h)
        PROVE  UNCHANGED starts
    BY <1>1 DEF RequestStep, RequestFails, Submit, FindSubmission, Refuse, Reserve,
       ReserveReply, Admit
  <1>2. ASSUME NEW w \in Workers, WorkerAct(w) PROVE UNCHANGED starts \/ StartRemote(w)
    BY <1>2 DEF WorkerAct, TaskStep, CancelStep, WorkerFault, EnterRunJob, LoseClaim,
       CheckIntent, CheckIntentFails, HonourIntent, Begin, FailBeforeStart, StreamEnds,
       Classify, Reaped, Complete, EndTask, Claim, ClaimFails, Finish, FinishFails, Persist,
       Renew, RequestCancellation, CancellationFails, PollIntent, CancelJob, CancelReply,
       CleanupOldJob
  <1>3. ASSUME NEW g \in Gateways,
               \/ CloseSession(g) \/ Boot(g) \/ StartupStep(g) \/ Crash(g) \/ Shutdown(g)
               \/ DrainDone(g) \/ ForceCleanup(g) \/ CleanupDone(g)
               \/ \E j \in Jobs : PersistCleaned(g, j)
        PROVE  UNCHANGED starts
    BY <1>3 DEF CloseSession, Boot, StartupStep, Reconcile, ListRecoverable, Serve, RecoverJob,
       Crash, Shutdown, DrainDone, CleanupDone, GoDown, ForceCleanup, PersistCleaned
  <1>4. CASE Tick \/ UNCHANGED vars
    BY <1>4 DEF Tick, vars
  <1> QED BY <1>1, <1>2, <1>3, <1>4 DEF Next, WorkerAct

\* Redis calls that failed are not forgotten.
LEMMA FaultsFrame ==
    ASSUME IInv, [Next]_vars
    PROVE  faults' = 0 => faults = 0
  <1>a. faults \in Nat /\ (RedisFault => faults' # 0)
    BY ConstantsAssumption DEF IInv, TypeOK, HistoryTypeOK, RedisFault
  <1>1. ASSUME NEW r \in Requests,
               \/ RequestStep(r) \/ RequestFails(r) \/ \E h \in Gateways : Submit(r, h)
        PROVE  UNCHANGED faults \/ RedisFault
    BY <1>1 DEF RequestStep, RequestFails, Submit, FindSubmission, Refuse, Reserve,
       ReserveReply, Admit
  <1>2. ASSUME NEW w \in Workers, WorkerAct(w) PROVE UNCHANGED faults \/ RedisFault
    BY <1>2 DEF WorkerAct, TaskStep, CancelStep, WorkerFault, EnterRunJob, LoseClaim,
       CheckIntent, CheckIntentFails, HonourIntent, Begin, FailBeforeStart, StartRemote,
       StreamEnds, Classify, Reaped, Complete, EndTask, Claim, ClaimFails, Finish,
       FinishFails, Persist, Renew, RequestCancellation, CancellationFails, PollIntent,
       CancelJob, CancelReply, CleanupOldJob
  <1>3. ASSUME NEW g \in Gateways,
               \/ CloseSession(g) \/ Boot(g) \/ StartupStep(g) \/ Crash(g) \/ Shutdown(g)
               \/ DrainDone(g) \/ ForceCleanup(g) \/ CleanupDone(g)
               \/ \E j \in Jobs : PersistCleaned(g, j)
        PROVE  UNCHANGED faults \/ RedisFault
    BY <1>3 DEF CloseSession, Boot, StartupStep, Reconcile, ListRecoverable, Serve, RecoverJob,
       Crash, Shutdown, DrainDone, CleanupDone, GoDown, ForceCleanup, PersistCleaned
  <1>4. CASE Tick \/ UNCHANGED vars
    BY <1>4 DEF Tick, vars
  <1> QED BY <1>a, <1>1, <1>2, <1>3, <1>4 DEF Next, WorkerAct

\* Nobody else writes the envelope of an unkeyed job or starts its command.
LEMMA UnkeyedForeign ==
    ASSUME IInv, Records, [Next]_vars, NEW w \in Workers, w \notin durable,
           w \in mem \/ (pc[w] # "none" /\ gpc[w[1]] # "cleanup")
    PROVE  /\ envStatus'[w[2]] = envStatus[w[2]] \/ (pc[w] = "persist" /\ pc'[w] = "fin")
           /\ starts'[w[2]] = starts[w[2]] \/ StartRemote(w)
  <1>a. /\ RedisTypeOK /\ \A v \in Workers : v[1] \in Gateways /\ v[2] \in Jobs
        /\ \A g \in Gateways, j \in Jobs :
             <<g, j>> \in Workers /\ <<g, j>>[1] = g /\ <<g, j>>[2] = j
        /\ \A v \in Workers : v = <<v[1], v[2]>>
    BY WorkerParts DEF IInv, TypeOK
  <1>b. Mine(w) /\ RecordOK(w) /\ ~DrawnKeyed(w[2])
    BY OnePlace DEF Records, RecordOK
  <1>c. \A v \in Workers : v[2] = w[2] => v \notin durable
    BY <1>b DEF Records, RecordOK
  <1>d. \A v \in Workers : v[2] = w[2] /\ pc[v] # "none" => v = w /\ pc[v] \in UnkeyedPCs
    BY <1>b, <1>c, OnePlace DEF Records, RecordOK, IInv, Replay, Locks, UnkeyedAlone
  <1>1. starts'[w[2]] = starts[w[2]] \/ StartRemote(w)
    <2>1. ASSUME NEW v \in Workers, StartRemote(v), v # w
          PROVE  starts'[w[2]] = starts[w[2]]
      <3>1. v[2] # w[2]
        BY <1>d, <2>1 DEF StartRemote
      <3> QED BY <1>a, <2>1, <3>1 DEF StartRemote, IInv, TypeOK, HistoryTypeOK
    <2> QED BY <2>1, StartsFrame
  <1>2. envStatus'[w[2]] = envStatus[w[2]] \/ (pc[w] = "persist" /\ pc'[w] = "fin")
    <2>1. ASSUME NEW r \in Requests, Reserve(r) PROVE envStatus'[w[2]] = envStatus[w[2]]
      <3>1. /\ reserve_submission_with_job(KeyOf[r], IdentOf[r], rjob[r])
            /\ rpc[r] = "reserve" /\ rjob[r] \in Jobs
        BY <2>1, ReserveFacts
      <3>2. DrawnKeyed(rjob[r])
        BY <3>1 DEF IInv, Shape, RequestShape, RequestOK, InFlight, Reserving, DrawnKeyed
      <3>3. w[2] # rjob[r]
        BY <1>b, <3>2
      <3> QED BY <1>a, <3>1, <3>3 DEF reserve_submission_with_job, RedisTypeOK
    <2>2. CASE Tick \/ UNCHANGED redisVars \/ RenewScript
      BY <2>2 DEF Tick, RenewScript, heartbeat_durable_execution
    <2>3. CASE ClaimScript \/ FinishScript
      <3>1. PICK v \in Workers :
              \/ pc[v] = "claim" /\ claim_durable_execution(v[2], Tok(v))
              \/ /\ pc[v] \in {"finish", "cfinish"}
                 /\ finish_durable_execution(v[2], Tok(v), arg[v])
        BY <2>3 DEF ClaimScript, FinishScript
      <3>2. v[2] # w[2]
        BY <1>d, <3>1 DEF UnkeyedPCs
      <3> QED BY <1>a, <3>1, <3>2
              DEF claim_durable_execution, finish_durable_execution, RedisTypeOK
    <2>4. CASE CancelScript
      <3>1. PICK v \in Workers : can[v] = "sent" /\ request_durable_cancellation(v[2])
        BY <2>4 DEF CancelScript
      <3>2. v[2] # w[2]
        BY <1>c, <3>1 DEF IInv, Shape, WorkerShape, WorkerOK
      <3> QED BY <1>a, <3>1, <3>2 DEF request_durable_cancellation, RedisTypeOK
    <2>5. CASE reconcile_expired_cancelled_processing
      <3>1. envStatus[w[2]] # "processing"
        BY <1>a, <1>b DEF Records, EnvKeyed
      <3> QED BY <1>a, <2>5, <3>1
              DEF reconcile_expired_cancelled_processing, ExpiredProcessing, RedisTypeOK
    <2>6. ASSUME NEW j \in Jobs, NEW s, Save(j, s), j # w[2]
          PROVE  envStatus'[w[2]] = envStatus[w[2]]
      BY <1>a, <2>6 DEF Save, save_terminal_job, save_terminal_job_fails, SetTerminal,
         RedisTypeOK
    <2>7. CASE PersistScript
      BY <1>a, <1>d, <2>6, <2>7 DEF PersistScript
    <2>8. CASE CleanupScript
      <3>1. PICK g \in Gateways, j \in Jobs :
              gpc[g] = "cleanup" /\ j \in pers[g] /\ Save(j, st[<<g, j>>])
        BY <2>8 DEF CleanupScript
      <3>2. CASE j = w[2]
        <4>1. <<g, j>> \in Workers /\ <<g, j>> \notin durable /\ Mine(<<g, j>>)
          BY <1>a, <1>c, <3>1, <3>2 DEF Records, RecordOK
        <4>2. <<g, j>> = w
          BY <1>a, <1>b, <3>2, <4>1, OnePlace
        <4>3. w[1] = g
          BY <1>a, <4>2
        <4> QED BY <1>b, <3>1, <4>3 DEF RecordOK
      <3> QED BY <2>6, <3>1, <3>2
    <2> QED BY <2>1, <2>2, <2>3, <2>4, <2>5, <2>7, <2>8, StoreSteps DEF Script
  <1> QED BY <1>1, <1>2

\* A worker's own steps.
LEMMA UnkeyedAct ==
    ASSUME IInv, Records, [Next]_vars, NEW w \in Workers, UnkeyedOK(w), WorkerAct(w)
    PROVE  UnkeyedOK(w)'
  <1> SUFFICES ASSUME w \in mem' \ durable' PROVE UnkeyedOK(w)'
    BY DEF UnkeyedOK
  <1>a. w \in mem \ durable
    BY WorkerRecords
  <1>b. /\ pc[w] \in UnkeyedPCs \cup {"none"} /\ can[w] = "idle"
        /\ pc[w] = "sched" => starts[w[2]] = 0
    BY <1>a DEF UnkeyedOK, IInv, Shape, WorkerShape, WorkerOK, Replay, Locks, UnkeyedAlone
  <1>c. /\ envStatus'[w[2]] = envStatus[w[2]] \/ pc[w] = "persist"
        /\ starts'[w[2]] = starts[w[2]] \/ StartRemote(w)
        /\ faults' = 0 => faults = 0
    BY <1>a, UnkeyedForeign, FaultsFrame
  <1> USE DEF IInv, TypeOK, TaskTypeOK, RecordTypeOK, UnkeyedOK, UnkeyedPCs
  <1>1. CASE EnterRunJob(w)
    <2>a. pc[w] = "sched" /\ starts'[w[2]] = 0
      BY <1>1, <1>b DEF EnterRunJob
    <2>1. CASE w \in cancelEv
      <3>1. pc'[w] = "persist" /\ st'[w] = "cancelled"
        BY <1>1, <1>a, <2>1 DEF EnterRunJob, Goto
      <3> QED BY <2>a, <3>1 DEF TERMINAL_STATES
    <2>2. CASE w \notin cancelEv
      <3>1. BeginRun(w) /\ st[w] = "pending" /\ w \notin doneEv
        BY <1>1, <1>a, <2>2 DEF EnterRunJob
      <3>2. doneEv' = doneEv
        BY <1>1, <1>a, <2>2 DEF EnterRunJob
      <3>3. pc'[w] = "start" /\ st'[w] = "running"
        BY <1>a, <3>1 DEF BeginRun, Goto
      <3> QED BY <1>a, <2>a, <3>1, <3>2, <3>3
    <2> QED BY <2>1, <2>2
  <1>2. CASE FailBeforeStart(w)
    BY <1>2, <1>a, <1>b, <1>c DEF FailBeforeStart, EnterFinally, Goto, TERMINAL_STATES
  <1>3. CASE StartRemote(w)
    BY <1>3, <1>a, <1>b, <1>c DEF StartRemote, Goto
  <1>4. CASE \E x \in Exits : StreamEnds(w, x)
    BY <1>4, <1>a, <1>b, <1>c DEF StreamEnds, Goto
  <1>5. CASE Classify(w)
    BY <1>5, <1>a, <1>b, <1>c DEF Classify, Outcome, EnterFinally, Goto, TERMINAL_STATES
  <1>6. CASE Persist(w)
    <2>1. /\ st[w] \in TERMINAL_STATES /\ pc'[w] = "fin" /\ UNCHANGED st
          /\ pc[w] = "persist" /\ starts'[w[2]] = starts[w[2]]
      BY <1>6, <1>a, <1>c DEF Persist, Goto
    <2>2. faults' = 0 => envStatus'[w[2]] = st[w]
      <3>1. RedisFault => faults' # 0
        BY ConstantsAssumption DEF HistoryTypeOK, RedisFault
      <3>2. save_terminal_job(w[2], st[w]) => envStatus'[w[2]] = st[w]
        BY WorkerParts DEF save_terminal_job, SetTerminal, RedisTypeOK
      <3> QED BY <1>6, <3>1, <3>2 DEF Persist
    <2> QED BY <1>a, <2>1, <2>2
  <1>7. CASE Complete(w) \/ EndTask(w)
    BY <1>7, <1>a, <1>b, <1>c DEF Complete, EndTask, Goto
  <1>8. CASE Renew(w) \/ PollIntent(w)
    BY <1>8, <1>a, <1>b, <1>c DEF Renew, PollIntent
  <1>9. CASE CancelJob(w)
    <2>1. /\ ApplyCancel(w) /\ st[w] \in ACTIVE_STATES /\ UNCHANGED <<pc, mem, durable, starts>>
      BY <1>9, <1>a DEF CancelJob
    <2>2. pc[w] \in {"sched", "start", "stream", "ended"}
      BY <1>a, <1>b, <2>1 DEF ACTIVE_STATES, TERMINAL_STATES
    <2>3. CASE st[w] = "pending"
      <3>1. pc[w] = "sched" /\ st'[w] = "cancelled" /\ w \in cancelEv' /\ starts[w[2]] = 0
        BY <1>a, <1>b, <2>1, <2>2, <2>3 DEF ApplyCancel
      <3>2. pc'[w] = "sched" /\ starts'[w[2]] = 0 /\ pc'[w] \notin {"start", "persist"}
        BY <2>1, <3>1
      <3> QED BY <3>1, <3>2
    <2>4. CASE st[w] # "pending"
      <3>1. pc[w] # "sched" /\ st'[w] = "cancelling" /\ pc'[w] = pc[w]
        BY <1>a, <2>1, <2>4 DEF ApplyCancel, ACTIVE_STATES
      <3>2. doneEv' = doneEv
        BY <2>1, <2>4 DEF ApplyCancel
      <3> QED BY <1>a, <1>c, <2>1, <2>2, <3>1, <3>2
    <2> QED BY <2>3, <2>4
  <1>10. ~\/ LoseClaim(w) \/ CheckIntent(w) \/ CheckIntentFails(w) \/ HonourIntent(w)
          \/ Begin(w) \/ Reaped(w) \/ Claim(w) \/ ClaimFails(w) \/ Finish(w) \/ FinishFails(w)
          \/ RequestCancellation(w) \/ CancellationFails(w) \/ CancelReply(w)
    BY <1>b DEF LoseClaim, CheckIntent, CheckIntentFails, HonourIntent, Begin, Reaped, Claim,
       ClaimFails, Finish, FinishFails, RequestCancellation, CancellationFails, CancelReply
  <1>11. CASE CleanupOldJob(w)
    BY <1>11 DEF CleanupOldJob
  <1> QED BY <1>1, <1>2, <1>3, <1>4, <1>5, <1>6, <1>7, <1>8, <1>9, <1>10, <1>11
          DEF WorkerAct, TaskStep, CancelStep, WorkerFault

\* No step leaves an unkeyed record behind that is neither running nor settled.
LEMMA UnkeyedStep ==
    ASSUME IInv, Records, Unkeyed, [Next]_vars
    PROVE  Unkeyed'
  <1> SUFFICES ASSUME NEW w \in Workers PROVE UnkeyedOK(w)'
    BY DEF Unkeyed
  <1>a. UnkeyedOK(w) /\ w[1] \in Gateways
    BY WorkerParts DEF Unkeyed
  <1>1. CASE WorkerAct(w)
    BY <1>1, <1>a, UnkeyedAct
  <1>2. CASE GoDown(w[1]) \/ ForceCleanup(w[1])
    <2>1. w \notin mem'
      BY <1>2 DEF GoDown, ForceCleanup, Of
    <2> QED BY <2>1 DEF UnkeyedOK
  <1>3. CASE Scheduled(w)
    <2>1. CASE Created(w) \/ Recovered(w)
      <3>1. w \in durable'
        BY <2>1 DEF Created, Recovered, NewRecord
      <3> QED BY <3>1 DEF UnkeyedOK
    <2>2. CASE CreatedUnkeyed(w)
      <3>1. NewRecord(w, FALSE)
        BY <2>2 DEF CreatedUnkeyed
      <3>2. st'[w] = "pending" /\ pc'[w] = "sched" /\ w \notin doneEv'
        BY <3>1 DEF NewRecord, Goto, IInv, TypeOK, RecordTypeOK, TaskTypeOK
      <3> QED BY <3>2 DEF UnkeyedOK, UnkeyedPCs
    <2> QED BY <1>3, <2>1, <2>2 DEF Scheduled
  <1>4. CASE Same(w) /\ ~WorkerAct(w)
    <2> SUFFICES ASSUME w \in mem' \ durable' PROVE UnkeyedOK(w)'
      BY DEF UnkeyedOK
    <2>1. w \in mem \ durable
      BY <1>4 DEF Same
    <2>2. ~StartRemote(w)
      BY <1>4 DEF WorkerAct, TaskStep
    <2>3. /\ envStatus'[w[2]] = envStatus[w[2]] \/ pc[w] = "persist"
          /\ starts'[w[2]] = starts[w[2]]
          /\ faults' = 0 => faults = 0
      BY <2>1, <2>2, UnkeyedForeign, FaultsFrame
    <2> QED BY <1>4, <1>a, <2>1, <2>3 DEF UnkeyedOK, Same
  <1> QED BY <1>1, <1>2, <1>3, <1>4, Locality

\* Records and unkeyed jobs, in every reachable state.
THEOREM RecordsInvariant == Spec => [](IInv /\ Records /\ Unkeyed)
  <1>1. Init => IInv /\ Records /\ Unkeyed
    <2>1. Init => IInv
      BY InitShape, InitReplay DEF IInv
    <2>2. Init => Records /\ Unkeyed
      BY WorkerParts DEF Init, RedisInit, Records, EnvKeyed, RecordOK, Unkeyed, UnkeyedOK
    <2> QED BY <2>1, <2>2
  <1>2. IInv /\ [Next]_vars => IInv'
    BY ShapeStep, ReplayStep DEF IInv
  <1>3. IInv /\ Records /\ Unkeyed /\ [Next]_vars => (Records /\ Unkeyed)'
    BY RecordsStep, UnkeyedStep
  <1> QED BY <1>1, <1>2, <1>3, PTL DEF Spec

\* An unkeyed job leaves no active record behind when its task is over, and
\* "cancelled" means that it did not start (the legacy path of _run_job).
\* Unless Redis failed, its outcome is mirrored there before completed_event
\* wakes its waiters, or the command never started and will not.
THEOREM UnkeyedSettled == Spec => []UnkeyedSettles
  <1>1. ASSUME IInv, Unkeyed, NEW w \in Workers, w \in mem \ durable
        PROVE  UnkeyedOK(w) /\ (pc[w] = "sched" => starts[w[2]] = 0)
    BY <1>1 DEF Unkeyed, IInv, Replay, Locks, UnkeyedAlone
  <1>2. IInv /\ Records /\ Unkeyed => UnkeyedSettles
    BY <1>1 DEF UnkeyedOK, UnkeyedPCs, UnkeyedSettles, IInv, TypeOK, RecordTypeOK
  <1> QED BY <1>2, RecordsInvariant, PTL

----------------------------------------------------------------------------
(* While no drain times out: who settles a job, and the ledger *)

CleanupFree == \A g \in Gateways : gpc[g] # "cleanup"

\* An unkeyed job is mirrored once, when its task is nearly over.
MirrorOK(w) ==
    w \notin durable /\ pc[w] \notin {"none", "fin", "end"} => envStatus[w[2]] = "absent"

Mirrored == CleanupFree /\ \A w \in Workers : MirrorOK(w)

\* Only a drain that times out is followed by a forced cleanup.
LEMMA CleanupFreeStep ==
    ASSUME "drain timeout" \notin May, IInv, CleanupFree, [Next]_vars
    PROVE  CleanupFree' /\ \A g \in Gateways : ~ForceCleanup(g)
  <1>1. \A g \in Gateways : ~ForceCleanup(g)
    BY DEF ForceCleanup
  <1> QED BY <1>1, ProcessFrame DEF CleanupFree

\* A task that is nearly over does not go back.
LEMMA OverStaysOver ==
    ASSUME IInv, NEW w \in Workers, WorkerAct(w), pc[w] \in {"none", "fin", "end"}
    PROVE  pc'[w] \in {"none", "fin", "end"}
  <1> USE DEF IInv, TypeOK, TaskTypeOK, Goto
  <1>2. CASE \/ EnterRunJob(w) \/ LoseClaim(w) \/ CheckIntent(w) \/ CheckIntentFails(w)
             \/ HonourIntent(w) \/ Begin(w) \/ FailBeforeStart(w) \/ StartRemote(w)
             \/ (\E x \in Exits : StreamEnds(w, x))
             \/ Classify(w) \/ Reaped(w) \/ Complete(w) \/ EndTask(w)
    BY <1>2 DEF EnterRunJob, LoseClaim, CheckIntent, CheckIntentFails, HonourIntent,
       Begin, FailBeforeStart, StartRemote, StreamEnds, Classify, Reaped, Complete, EndTask
  <1>3. CASE Claim(w) \/ ClaimFails(w) \/ Finish(w) \/ FinishFails(w) \/ Persist(w)
    BY <1>3 DEF Claim, ClaimFails, Finish, FinishFails, Persist
  <1>4. CASE \/ Renew(w) \/ RequestCancellation(w) \/ CancellationFails(w) \/ PollIntent(w)
             \/ CancelJob(w) \/ CancelReply(w) \/ CleanupOldJob(w)
    BY <1>4 DEF Renew, RequestCancellation, CancellationFails, PollIntent, CancelJob,
       CancelReply, CleanupOldJob
  <1> QED BY <1>2, <1>3, <1>4 DEF WorkerAct, TaskStep, CancelStep, WorkerFault

\* An unkeyed job has no envelope before its outcome is mirrored.
LEMMA MirroredStep ==
    ASSUME "drain timeout" \notin May, IInv, Records, Mirrored, [Next]_vars
    PROVE  Mirrored'
  <1>a. CleanupFree' /\ \A g \in Gateways : ~ForceCleanup(g)
    BY CleanupFreeStep DEF Mirrored
  <1>1. ASSUME NEW w \in Workers, w \notin durable', pc'[w] \notin {"none", "fin", "end"}
        PROVE  envStatus'[w[2]] = "absent"
    <2>a. w[1] \in Gateways /\ w[2] \in Jobs /\ gpc[w[1]] # "cleanup" /\ MirrorOK(w)
      BY WorkerParts DEF Mirrored, CleanupFree
    <2>1. CASE w \notin durable /\ pc[w] \notin {"none", "fin", "end"}
      BY <1>1, <2>1, <2>a, UnkeyedForeign DEF MirrorOK
    <2>2. CASE WorkerAct(w)
      BY <1>1, <2>1, <2>2, OverStaysOver, WorkerRecords
    <2>3. CASE GoDown(w[1])
      BY <1>1, <2>3 DEF GoDown, ForgetTasks
    <2>4. CASE Same(w)
      BY <1>1, <2>1, <2>4 DEF Same
    <2>5. CASE CreatedUnkeyed(w)
      <3>1. PICK r \in Requests, j \in Jobs : Admit(r, j) /\ w = <<rgw[r], j>>
        BY <2>5 DEF CreatedUnkeyed
      <3>2. Fresh(w[2]) /\ UNCHANGED envStatus
        BY <3>1 DEF Admit, Fresh
      <3> QED BY <2>a, <3>2 DEF IInv, Replay, Ids, FreshIdle
    <2>6. CASE Created(w) \/ Recovered(w)
      BY <1>1, <2>6 DEF Created, Recovered, NewRecord
    <2> QED BY <1>a, <2>a, <2>2, <2>3, <2>4, <2>5, <2>6, Locality DEF Scheduled
  <1> QED BY <1>a, <1>1 DEF Mirrored, MirrorOK

\* In the beginning there are no records and no envelopes.
LEMMA InitStore == Init => Records /\ StoreInv /\ Mirrored
  <1>1. Init => Records /\ Mirrored
    BY WorkerParts DEF Init, RedisInit, Records, EnvKeyed, RecordOK, Mirrored, MirrorOK,
       CleanupFree
  <1>2. Init => StoreInv
    BY WorkerParts DEF Init, RedisInit, StoreInv, ClaimsKnown, ProcessingListed, AbsentBlank
  <1> QED BY <1>1, <1>2

\* Until a drain times out, in every reachable state.
THEOREM MirroredInvariant ==
    ASSUME "drain timeout" \notin May
    PROVE  Spec => [](IInv /\ Records /\ StoreInv /\ Mirrored)
  <1>1. Init => IInv /\ Records /\ StoreInv /\ Mirrored
    <2>1. Init => IInv
      BY InitShape, InitReplay DEF IInv
    <2> QED BY <2>1, InitStore
  <1>2. IInv /\ [Next]_vars => IInv'
    BY ShapeStep, ReplayStep DEF IInv
  <1>3. IInv /\ Records /\ StoreInv /\ Mirrored /\ [Next]_vars =>
           (Records /\ StoreInv /\ Mirrored)'
    BY RecordsStep, StoreInvStep, MirroredStep
  <1> QED BY <1>1, <1>2, <1>3, PTL DEF Spec

\* Without a forced cleanup, the mirror is written for unkeyed jobs only, and
\* these have no envelope yet.
LEMMA MirrorFirst ==
    ASSUME IInv, Records, Mirrored, NEW w \in Workers, pc[w] = "persist"
    PROVE  /\ w \notin durable /\ Mine(w) /\ envStatus[w[2]] = "absent"
           /\ st[w] \in TERMINAL_STATES
  BY DEF IInv, Shape, WorkerShape, WorkerOK, Records, RecordOK, Mirrored, MirrorOK

\* While no drain times out, a job leaves "processing" only through the fenced
\* finish of the worker whose token the envelope carries, or by startup
\* reconciliation after its lease ran out.
THEOREM OwnerFinishes ==
    ASSUME "drain timeout" \notin May
    PROVE  Spec => OnlyOwnerFinishes
  <1> DEFINE Owner ==
        \A j \in Jobs :
            envStatus[j] = "processing" /\ envStatus'[j] # "processing" =>
               \/ Expired(j)
               \/ \E w \in Workers : /\ w[2] = j /\ Tok(w) = envToken[j]
                                     /\ pc[w] \in {"finish", "cfinish"}
  <1>1. ASSUME IInv, Records, Mirrored, [Next]_vars PROVE Owner
    <2> SUFFICES ASSUME NEW j \in Jobs,
                        envStatus[j] = "processing", envStatus'[j] # "processing"
                 PROVE  \/ Expired(j)
                        \/ \E w \in Workers : /\ w[2] = j /\ Tok(w) = envToken[j]
                                              /\ pc[w] \in {"finish", "cfinish"}
      OBVIOUS
    <2>a. RedisTypeOK /\ \A w \in Workers : w[2] \in Jobs
      BY <1>1, WorkerParts DEF IInv, TypeOK
    <2>1. ASSUME NEW r \in Requests, Reserve(r) PROVE FALSE
      BY <1>1, <2>1, <2>a, ReserveFacts DEF reserve_submission_with_job, RedisTypeOK
    <2>2. ~(Tick \/ UNCHANGED redisVars \/ RenewScript)
      BY DEF Tick, RenewScript, heartbeat_durable_execution
    <2>3. ~(ClaimScript \/ CancelScript)
      BY <2>a, ZenonT(60) DEF ClaimScript, CancelScript, claim_durable_execution,
         request_durable_cancellation, RedisTypeOK
    <2>4. CASE reconcile_expired_cancelled_processing
      BY <2>4, <2>a DEF reconcile_expired_cancelled_processing, ExpiredProcessing, RedisTypeOK
    <2>5. CASE FinishScript
      BY <2>5, <2>a DEF FinishScript, finish_durable_execution, OwnedBy, RedisTypeOK
    <2>6. ~PersistScript
      <3> SUFFICES ASSUME NEW w \in Workers, pc[w] = "persist", Save(w[2], st[w]) PROVE FALSE
        BY DEF PersistScript
      <3>1. w[2] # j
        BY <1>1, MirrorFirst
      <3> QED BY <2>a, <3>1 DEF Save, save_terminal_job, save_terminal_job_fails, SetTerminal,
              RedisTypeOK
    <2>7. ~CleanupScript
      BY <1>1 DEF CleanupScript, Mirrored, CleanupFree
    <2> QED BY <1>1, <2>1, <2>2, <2>3, <2>4, <2>5, <2>6, <2>7, StoreSteps DEF Script
  <1>2. IInv /\ Records /\ Mirrored /\ [Next]_vars => [Owner]_vars
    BY <1>1
  <1>3. Spec => [](IInv /\ Records /\ StoreInv /\ Mirrored)
    BY MirroredInvariant
  <1> QED BY <1>2, <1>3, PTL DEF Spec, OnlyOwnerFinishes

\* A step of the system is a step of the ledger, or leaves the ledger alone.
LEMMA LedgerStep ==
    ASSUME "drain timeout" \notin May, IInv, Records, StoreInv, Mirrored, [Next]_vars
    PROVE  [Ledger!Next]_(Ledger!vars)
  <1>a. RedisTypeOK /\ \A w \in Workers : w[2] \in Jobs
    BY WorkerParts DEF IInv, TypeOK
  <1>b. \A j \in Jobs : envStatus[j] = "processing" /\ envLease[j] = 0 => j \in lapsed
    BY DEF IInv, Replay, Locks, ExpiredLapsed
  <1> USE DEF Ledger!Next, Ledger!vars
  <1>1. ASSUME NEW r \in Requests, Reserve(r) PROVE Ledger!Next
    <2>1. /\ reserve_submission_with_job(KeyOf[r], IdentOf[r], rjob[r])
          /\ rjob[r] \in Jobs /\ envStatus[rjob[r]] = "absent" /\ UNCHANGED lapsed
      BY <1>1, ReserveFacts
    <2>2. Ledger!Accept(rjob[r])
      BY <2>1 DEF reserve_submission_with_job, Ledger!Accept, Ledger!Becomes
    <2> QED BY <2>1, <2>2
  <1>2. CASE Tick
    <2> DEFINE S == {j \in Jobs : envStatus[j] = "processing" /\ ~Expired(j) /\ envLease[j] = 1}
    <2>1. lapsed' = lapsed \cup S /\ UNCHANGED <<envStatus, envToken, envCancel>>
      BY <1>2 DEF Tick
    <2>2. S \in SUBSET Jobs /\ Ledger!Lapse(S)
      BY <2>1 DEF Ledger!Lapse
    <2> QED BY <2>2
  <1>3. CASE (UNCHANGED redisVars \/ RenewScript) /\ UNCHANGED lapsed
    BY <1>3 DEF RenewScript, heartbeat_durable_execution
  <1>4. CASE ClaimScript /\ UNCHANGED lapsed
    <2>1. PICK w \in Workers : pc[w] = "claim" /\ claim_durable_execution(w[2], Tok(w))
      BY <1>4 DEF ClaimScript
    <2>2. CASE Claimable(w[2], Tok(w))
      <3>1. w[2] \in Jobs /\ Tok(w) \in Tokens
        BY <1>a, <2>1, TokType DEF IInv
      <3>2. envToken[w[2]] # Tok(w)
        <4>1. Unclaimed(w[1], w[2])
          BY <2>1, WorkerParts DEF Unclaimed
        <4> QED BY <4>1, WorkerParts DEF IInv, Replay, Fences, TokenFresh, Tok
      <3>3. \/ envStatus[w[2]] = "pending"
            \/ envStatus[w[2]] = "processing" /\ w[2] \in lapsed \ envCancel
        BY <1>b, <2>2, <3>1, <3>2 DEF Claimable, Expired
      <3>4. Ledger!Take(w[2], Tok(w))
        BY <1>4, <2>1, <2>2, <3>3
           DEF claim_durable_execution, Ledger!Take, Ledger!Becomes
      <3> QED BY <3>1, <3>4
    <2>3. CASE ~Claimable(w[2], Tok(w))
      BY <1>4, <2>1, <2>3 DEF claim_durable_execution
    <2> QED BY <2>2, <2>3
  <1>5. CASE FinishScript /\ UNCHANGED lapsed
    <2>1. PICK w \in Workers : /\ pc[w] \in {"finish", "cfinish"}
                               /\ finish_durable_execution(w[2], Tok(w), arg[w])
      BY <1>5 DEF FinishScript
    <2>2. arg[w] \in Ledger!Final
      BY <2>1 DEF IInv, Shape, WorkerShape, WorkerOK, TERMINAL_STATES, Ledger!Final
    <2>3. CASE OwnedBy(w[2], Tok(w))
      <3>1. Ledger!Settle(w[2], arg[w])
        BY <1>5, <2>1, <2>3
           DEF finish_durable_execution, OwnedBy, Ledger!Settle, Ledger!Becomes
      <3> QED BY <1>a, <2>2, <3>1
    <2>4. CASE ~OwnedBy(w[2], Tok(w))
      BY <1>5, <2>1, <2>4 DEF finish_durable_execution
    <2> QED BY <2>3, <2>4
  <1>6. CASE CancelScript /\ UNCHANGED lapsed
    <2>1. PICK w \in Workers : request_durable_cancellation(w[2])
      BY <1>6 DEF CancelScript
    <2>2. CASE envStatus[w[2]] \in {"pending", "processing"}
      <3>1. Ledger!Cancel(w[2])
        BY <1>6, <2>1, <2>2 DEF request_durable_cancellation, Ledger!Cancel, Ledger!Becomes
      <3> QED BY <1>a, <3>1
    <2>3. CASE envStatus[w[2]] \notin {"pending", "processing"}
      BY <1>6, <2>1, <2>3 DEF request_durable_cancellation
    <2> QED BY <2>2, <2>3
  <1>7. CASE reconcile_expired_cancelled_processing /\ UNCHANGED lapsed
    <2> DEFINE S == ExpiredProcessing \cap envCancel
    <2>1. S \in SUBSET Jobs
      BY <1>a DEF ExpiredProcessing, RedisTypeOK
    <2>2. \A j \in S : envStatus[j] = "processing" /\ j \in envCancel \cap lapsed
      BY <1>b, <2>1 DEF ExpiredProcessing, Expired
    <2>3. /\ envStatus' = [j \in Jobs |-> IF j \in S THEN "ambiguous" ELSE envStatus[j]]
          /\ UNCHANGED <<envToken, envCancel, lapsed>>
      BY <1>7, <1>a DEF reconcile_expired_cancelled_processing, RedisTypeOK
    <2> HIDE DEF S
    <2>4. Ledger!GiveUp(S)
      BY <2>2, <2>3 DEF Ledger!GiveUp
    <2> QED BY <2>1, <2>4
  <1>8. CASE PersistScript /\ UNCHANGED lapsed
    <2>1. PICK w \in Workers : pc[w] = "persist" /\ Save(w[2], st[w])
      BY <1>8 DEF PersistScript
    <2>2. /\ envStatus[w[2]] = "absent" /\ st[w] \in Ledger!Final
          /\ envToken[w[2]] = NoToken /\ w[2] \notin envCancel
      BY <1>a, <2>1, MirrorFirst DEF StoreInv, AbsentBlank, TERMINAL_STATES, Ledger!Final
    <2>3. CASE SetTerminal(w[2], st[w])
      <3>1. UNCHANGED <<envToken, envCancel>>
        BY <1>a, <2>2, <2>3 DEF SetTerminal, RedisTypeOK
      <3>2. Ledger!RecordUnkeyed(w[2], st[w])
        BY <1>8, <2>2, <2>3, <3>1 DEF SetTerminal, Ledger!RecordUnkeyed, Ledger!Becomes
      <3> QED BY <1>a, <2>2, <3>2
    <2>4. CASE UNCHANGED redisVars
      BY <1>8, <2>4
    <2> QED BY <2>1, <2>3, <2>4 DEF Save, save_terminal_job, save_terminal_job_fails
  <1>9. ~CleanupScript
    BY DEF CleanupScript, Mirrored, CleanupFree
  <1> QED BY <1>1, <1>2, <1>3, <1>4, <1>5, <1>6, <1>7, <1>8, <1>9, StoreSteps DEF Script

\* While no drain times out, the store implements JobLedger: a job is accepted
\* once, executed by one owner at a time, handed to another owner only after a
\* lapse and never after a cancellation, and settled once and for all.
THEOREM ImplementsLedger ==
    ASSUME "drain timeout" \notin May
    PROVE  Spec => LedgerSpec
  <1>1. Init => Ledger!Init
    BY DEF Init, RedisInit, Ledger!Init
  <1>2. IInv /\ Records /\ StoreInv /\ Mirrored /\ [Next]_vars => [Ledger!Next]_(Ledger!vars)
    BY LedgerStep
  <1>3. Spec => [](IInv /\ Records /\ StoreInv /\ Mirrored)
    BY MirroredInvariant
  <1> QED BY <1>1, <1>2, <1>3, PTL DEF Spec, LedgerSpec, Ledger!Spec

----------------------------------------------------------------------------
(* While no drain times out: "cancelled" means not started *)

\* Where a durable task holds its claim; Claimed adds where it gives it back.
HeldPCs == {"check", "intent", "go", "start", "stream", "ended", "reap"}
Claimed == HeldPCs \cup {"finish", "cfinish"}

\* As long as no lease of the job lapsed, the task that claimed it is the owner.
HeldOK(w) ==
    w \in durable /\ w[2] \notin lapsed =>
        /\ pc[w] \in Claimed => envToken[w[2]] = Tok(w)
        /\ pc[w] \in HeldPCs => envStatus[w[2]] = "processing"

\* What such a task and the calls of cancel_job know of a cancellation.
IntentOK(w) ==
    w \in durable /\ w[2] \notin lapsed =>
        /\ pc[w] \in {"intent", "cfinish"} => starts[w[2]] = 0
        /\ pc[w] \in {"start", "stream", "ended", "reap"} => st[w] \notin {"pending", "cancelled"}
        /\ pc[w] = "finish" => arg[w] # "cancelled"
        /\ can[w] = "cancelled" => envStatus[w[2]] = "cancelled"

ClaimsDrawn == \A k \in Keys : claimJob[k] # NoJob => DrawnKeyed(claimJob[k])

Held    == \A w \in Workers : HeldOK(w)
Intents == \A w \in Workers : IntentOK(w)

\* Distinct workers of a job have distinct tokens.
LEMMA TokenNames ==
    ASSUME NEW v \in Workers, NEW w \in Workers, v[2] = w[2], Tok(v) = Tok(w)
    PROVE  v = w
  <1>1. v[1] = w[1]
    BY DEF Tok
  <1> QED BY <1>1, WorkerParts

\* Lapses are not forgotten.
LEMMA LapsesStay ==
    ASSUME IInv, [Next]_vars
    PROVE  lapsed \subseteq lapsed'
  <1>1. ASSUME NEW r \in Requests, Reserve(r) PROVE UNCHANGED lapsed
    BY <1>1 DEF Reserve
  <1>2. Tick => lapsed \subseteq lapsed'
    BY DEF Tick
  <1> QED BY <1>1, <1>2, StoreSteps

\* A keyed job that is settled stays settled as it is.
LEMMA SettledStays ==
    ASSUME IInv, Records, Mirrored, [Next]_vars, NEW j \in Jobs, DrawnKeyed(j),
           envStatus[j] \in TERMINAL_STATES
    PROVE  envStatus'[j] = envStatus[j]
  <1>a. RedisTypeOK /\ (\A w \in Workers : w[2] \in Jobs) /\ envStatus[j] \notin {"absent", "pending", "processing"}
    BY WorkerParts DEF IInv, TypeOK, TERMINAL_STATES
  <1>1. ASSUME NEW r \in Requests, Reserve(r) PROVE envStatus'[j] = envStatus[j]
    BY <1>1, <1>a, ReserveFacts DEF reserve_submission_with_job, RedisTypeOK
  <1>2. CASE Tick \/ UNCHANGED redisVars \/ RenewScript
    BY <1>2 DEF Tick, RenewScript, heartbeat_durable_execution
  <1>3. CASE ClaimScript
    BY <1>3, <1>a DEF ClaimScript, claim_durable_execution, Claimable, RedisTypeOK
  <1>4. CASE CancelScript
    BY <1>4, <1>a DEF CancelScript, request_durable_cancellation, RedisTypeOK
  <1>5. CASE FinishScript
    BY <1>5, <1>a DEF FinishScript, finish_durable_execution, OwnedBy, RedisTypeOK
  <1>6. CASE reconcile_expired_cancelled_processing
    BY <1>6, <1>a DEF reconcile_expired_cancelled_processing, ExpiredProcessing, RedisTypeOK
  <1>7. CASE PersistScript
    <2>1. PICK w \in Workers : pc[w] = "persist" /\ Save(w[2], st[w])
      BY <1>7 DEF PersistScript
    <2>2. w[2] # j
      BY <1>a, <2>1, MirrorFirst
    <2> QED BY <1>a, <2>1, <2>2 DEF Save, save_terminal_job, save_terminal_job_fails,
            SetTerminal, RedisTypeOK
  <1>8. ~CleanupScript
    BY DEF CleanupScript, Mirrored, CleanupFree
  <1> QED BY <1>1, <1>2, <1>3, <1>4, <1>5, <1>6, <1>7, <1>8, StoreSteps DEF Script

\* While the lease of its job has not lapsed, nobody takes a claim from its owner.
LEMMA ClaimKept ==
    ASSUME IInv, Records, Mirrored, [Next]_vars, NEW w \in Workers, w \in durable,
           w[2] \notin lapsed', pc[w] \in Claimed, envToken[w[2]] = Tok(w)
    PROVE  /\ envToken'[w[2]] = Tok(w)
           /\ pc[w] \in HeldPCs /\ envStatus[w[2]] = "processing" =>
                envStatus'[w[2]] = "processing"
  <1>a. RedisTypeOK /\ \A v \in Workers : v[2] \in Jobs
    BY WorkerParts DEF IInv, TypeOK
  <1>b. w[2] \notin lapsed /\ ~(envStatus[w[2]] = "processing" /\ envLease[w[2]] = 0)
    BY <1>a, LapsesStay DEF IInv, Replay, Locks, ExpiredLapsed
  <1>c. pc[w] \notin {"none", "sched", "claim", "lost", "end", "persist", "fin"}
    BY DEF Claimed, HeldPCs
  <1>d. envStatus[w[2]] \notin {"absent", "pending"}
    BY <1>a, <1>c DEF IInv, Replay, Locks, DurableKnown, PendingIdle, Waiting
  <1>1. ASSUME NEW r \in Requests, Reserve(r)
        PROVE  envToken'[w[2]] = Tok(w) /\ envStatus'[w[2]] = envStatus[w[2]]
    BY <1>1, <1>a, <1>d, ReserveFacts DEF reserve_submission_with_job, RedisTypeOK
  <1>2. CASE Tick \/ UNCHANGED redisVars \/ RenewScript
    BY <1>2 DEF Tick, RenewScript, heartbeat_durable_execution
  <1>3. CASE ClaimScript
    <2>1. PICK v \in Workers : pc[v] = "claim" /\ claim_durable_execution(v[2], Tok(v))
      BY <1>3 DEF ClaimScript
    <2>2. CASE v[2] = w[2]
      <3>1. Tok(v) # Tok(w)
        BY <1>c, <2>1, <2>2, TokenNames
      <3>2. ~Claimable(v[2], Tok(v))
        BY <1>b, <1>d, <2>2, <3>1 DEF Claimable, Expired
      <3> QED BY <2>1, <3>2 DEF claim_durable_execution
    <2>3. CASE v[2] # w[2]
      BY <1>a, <2>1, <2>3 DEF claim_durable_execution, RedisTypeOK
    <2> QED BY <2>2, <2>3
  <1>4. CASE CancelScript
    BY <1>4, <1>a DEF CancelScript, request_durable_cancellation, RedisTypeOK
  <1>5. CASE FinishScript
    <2>1. PICK v \in Workers : /\ pc[v] \in {"finish", "cfinish"}
                               /\ finish_durable_execution(v[2], Tok(v), arg[v])
      BY <1>5 DEF FinishScript
    <2>2. UNCHANGED envToken
      BY <2>1 DEF finish_durable_execution
    <2>3. CASE v[2] = w[2] /\ OwnedBy(v[2], Tok(v))
      <3>1. v = w
        BY <2>3, TokenNames DEF OwnedBy
      <3> QED BY <2>1, <2>2, <3>1 DEF HeldPCs
    <2>4. CASE ~(v[2] = w[2] /\ OwnedBy(v[2], Tok(v)))
      BY <1>a, <2>1, <2>2, <2>4 DEF finish_durable_execution, RedisTypeOK
    <2> QED BY <2>3, <2>4
  <1>6. CASE reconcile_expired_cancelled_processing
    BY <1>6, <1>a, <1>b DEF reconcile_expired_cancelled_processing, ExpiredProcessing, Expired,
       RedisTypeOK
  <1>7. CASE PersistScript
    <2>1. PICK v \in Workers : pc[v] = "persist" /\ Save(v[2], st[v])
      BY <1>7 DEF PersistScript
    <2>2. v[2] # w[2]
      BY <1>d, <2>1, MirrorFirst
    <2> QED BY <1>a, <2>1, <2>2 DEF Save, save_terminal_job, save_terminal_job_fails,
            SetTerminal, RedisTypeOK
  <1>8. ~CleanupScript
    BY DEF CleanupScript, Mirrored, CleanupFree
  <1> QED BY <1>1, <1>2, <1>3, <1>4, <1>5, <1>6, <1>7, <1>8, StoreSteps DEF Script

\* A durable task gets hold of a claim only by an accepted claim.
LEMMA ClaimMove ==
    ASSUME IInv, NEW w \in Workers, w \in durable, WorkerAct(w), pc'[w] \in Claimed
    PROVE  \/ pc[w] \in Claimed /\ (pc'[w] \in HeldPCs => pc[w] \in HeldPCs)
           \/ Claim(w) /\ Claimable(w[2], Tok(w)) /\ pc'[w] = "check"
  <1> USE DEF IInv, TypeOK, TaskTypeOK, Goto, Claimed, HeldPCs
  <1>1. CASE EnterRunJob(w) \/ LoseClaim(w) \/ Begin(w)
    BY <1>1 DEF EnterRunJob, LoseClaim, Begin, BeginRun
  <1>2. CASE CheckIntent(w) \/ CheckIntentFails(w) \/ HonourIntent(w)
    BY <1>2 DEF CheckIntent, CheckIntentFails, HonourIntent
  <1>3. CASE FailBeforeStart(w) \/ StartRemote(w) \/ (\E x \in Exits : StreamEnds(w, x))
    BY <1>3 DEF FailBeforeStart, StartRemote, StreamEnds, EnterFinally
  <1>4. CASE Classify(w) \/ Reaped(w) \/ Complete(w) \/ EndTask(w)
    BY <1>4 DEF Classify, Reaped, Complete, EndTask, EnterFinally
  <1>5. CASE Claim(w) \/ ClaimFails(w) \/ Persist(w)
    BY <1>5 DEF Claim, ClaimFails, Persist
  <1>6. CASE Finish(w) \/ FinishFails(w)
    BY <1>6 DEF Finish, FinishFails, AfterFinish
  <1>7. CASE \/ Renew(w) \/ RequestCancellation(w) \/ CancellationFails(w) \/ PollIntent(w)
             \/ CancelJob(w) \/ CancelReply(w) \/ CleanupOldJob(w)
    BY <1>7 DEF Renew, RequestCancellation, CancellationFails, PollIntent, CancelJob,
       CancelReply, CleanupOldJob
  <1> QED BY <1>1, <1>2, <1>3, <1>4, <1>5, <1>6, <1>7
          DEF WorkerAct, TaskStep, CancelStep, WorkerFault

\* Owners stay owners while no lease lapses.
LEMMA HeldStep ==
    ASSUME "drain timeout" \notin May, IInv, Records, Mirrored, Held, [Next]_vars
    PROVE  Held'
  <1> SUFFICES ASSUME NEW w \in Workers, w \in durable', w[2] \notin lapsed',
                      pc'[w] \in Claimed
               PROVE  /\ envToken'[w[2]] = Tok(w)'
                      /\ pc'[w] \in HeldPCs => envStatus'[w[2]] = "processing"
    BY DEF Held, HeldOK, Claimed
  <1>a. HeldOK(w) /\ w[2] \notin lapsed /\ w[1] \in Gateways /\ w[2] \in Jobs
    BY LapsesStay, WorkerParts DEF Held
  <1>b. pc'[w] # "none" /\ pc'[w] # "sched"
    BY DEF Claimed, HeldPCs
  <1>1. CASE /\ w \in durable /\ pc[w] \in Claimed /\ boots'[w[1]] = boots[w[1]]
             /\ pc'[w] \in HeldPCs => pc[w] \in HeldPCs
    BY <1>1, <1>a, ClaimKept DEF HeldOK, Tok
  <1>2. CASE WorkerAct(w)
    <2>1. w \in durable /\ UNCHANGED boots
      BY <1>2, WorkerRecords, WorkerUnserved DEF WorkerAct
    <2>2. CASE Claim(w) /\ Claimable(w[2], Tok(w)) /\ pc'[w] = "check"
      <3>1. claim_durable_execution(w[2], Tok(w))
        BY <2>2 DEF Claim
      <3>2. Tok(w)' = Tok(w)
        BY <2>1 DEF Tok
      <3>3. envToken'[w[2]] = Tok(w) /\ envStatus'[w[2]] = "processing"
        <4>1. envToken \in [Jobs -> Tokens \cup {NoToken}] /\ envStatus \in [Jobs -> EnvStatuses]
          BY DEF IInv, TypeOK, RedisTypeOK
        <4>2. /\ envStatus' = [envStatus EXCEPT ![w[2]] = "processing"]
              /\ envToken' = [envToken EXCEPT ![w[2]] = Tok(w)]
          BY <2>2, <3>1 DEF claim_durable_execution
        <4> QED BY <1>a, <4>1, <4>2
      <3> QED BY <3>2, <3>3
    <2> QED BY <1>1, <1>2, <2>1, <2>2, ClaimMove
  <1>3. CASE GoDown(w[1])
    BY <1>b, <1>3 DEF GoDown, ForgetTasks
  <1>4. CASE Scheduled(w)
    BY <1>b, <1>4 DEF Scheduled, Created, CreatedUnkeyed, Recovered, NewRecord, Goto, IInv,
       TypeOK, TaskTypeOK
  <1>5. CASE Same(w)
    <2>1. w \in durable /\ pc[w] = pc'[w]
      BY <1>5 DEF Same
    <2>2. gpc[w[1]] # "down"
      BY <1>b, <2>1 DEF IInv, Shape, WorkerShape, WorkerOK
    <2> QED BY <1>1, <1>a, <2>1, <2>2, ProcessFrame
  <1>6. ~ForceCleanup(w[1])
    BY <1>a, CleanupFreeStep DEF Mirrored
  <1> QED BY <1>2, <1>3, <1>4, <1>5, <1>6, Locality

\* Nobody else starts the command of a job that a task has claimed.
LEMMA StartsKept ==
    ASSUME IInv, Records, Held, [Next]_vars, NEW w \in Workers, w \in durable,
           w[2] \notin lapsed, pc[w] \in Claimed, pc[w] # "start"
    PROVE  starts'[w[2]] = starts[w[2]]
  <1>1. ASSUME NEW v \in Workers, StartRemote(v) PROVE v[2] # w[2]
    <2> SUFFICES ASSUME v[2] = w[2] PROVE FALSE
      OBVIOUS
    <2>1. pc[v] = "start" /\ RecordOK(v) /\ RecordOK(w) /\ HeldOK(v) /\ HeldOK(w)
      BY <1>1 DEF StartRemote, Records, Held
    <2>2. v \in durable
      BY <2>1, OnePlace DEF RecordOK
    <2>3. Tok(v) = Tok(w)
      BY <2>1, <2>2 DEF HeldOK, Claimed, HeldPCs
    <2> QED BY <2>1, <2>3, TokenNames
  <1>2. ASSUME NEW v \in Workers, StartRemote(v) PROVE starts'[w[2]] = starts[w[2]]
    BY <1>1, <1>2, WorkerParts DEF StartRemote, IInv, TypeOK, HistoryTypeOK
  <1> QED BY <1>2, StartsFrame

\* What a durable task's own step makes of its knowledge of a cancellation.
LEMMA IntentMove ==
    ASSUME IInv, NEW w \in Workers, HeldOK(w), IntentOK(w), w \in durable,
           w[2] \notin lapsed, WorkerAct(w)
    PROVE  /\ pc'[w] \in {"intent", "cfinish"} => pc[w] \in {"check", "intent", "cfinish"}
           /\ pc'[w] \in {"start", "stream", "ended", "reap"} =>
                st'[w] \notin {"pending", "cancelled"}
           /\ pc'[w] = "finish" => arg'[w] # "cancelled"
           /\ can'[w] = "cancelled" => can[w] = "cancelled" \/ RequestCancellation(w)
  <1> DEFINE Goal ==
        /\ pc'[w] \in {"intent", "cfinish"} => pc[w] \in {"check", "intent", "cfinish"}
        /\ pc'[w] \in {"start", "stream", "ended", "reap"} =>
             st'[w] \notin {"pending", "cancelled"}
        /\ pc'[w] = "finish" => arg'[w] # "cancelled"
        /\ can'[w] = "cancelled" => can[w] = "cancelled" \/ RequestCancellation(w)
  <1>a. /\ pc[w] \in {"start", "stream", "ended", "reap"} =>
             /\ st[w] \notin {"pending", "cancelled"}
             /\ can[w] # "cancelled"
        /\ pc[w] = "finish" => arg[w] # "cancelled"
    BY DEF IntentOK, HeldOK, Claimed, HeldPCs
  <1> USE DEF IInv, TypeOK, TaskTypeOK, RecordTypeOK, Goto
  <1>1. CASE EnterRunJob(w) \/ LoseClaim(w) \/ Begin(w)
    BY <1>1 DEF EnterRunJob, LoseClaim, Begin, BeginRun
  <1>2. CASE CheckIntent(w) \/ CheckIntentFails(w) \/ HonourIntent(w)
    BY <1>2 DEF CheckIntent, CheckIntentFails, HonourIntent
  <1>3. CASE FailBeforeStart(w) \/ StartRemote(w) \/ (\E x \in Exits : StreamEnds(w, x))
    BY <1>3, <1>a DEF FailBeforeStart, StartRemote, StreamEnds, EnterFinally
  <1>4. CASE Classify(w)
    BY <1>4 DEF Classify, Outcome, EnterFinally
  <1>5. CASE Reaped(w) \/ Complete(w) \/ EndTask(w)
    BY <1>5, <1>a DEF Reaped, Complete, EndTask
  <1>6. CASE Claim(w) \/ ClaimFails(w) \/ Persist(w)
    BY <1>6 DEF Claim, ClaimFails, Persist
  <1>7. CASE Finish(w) \/ FinishFails(w)
    BY <1>7, <1>a DEF Finish, FinishFails, AfterFinish
  <1>8. CASE Renew(w) \/ PollIntent(w) \/ CleanupOldJob(w)
    BY <1>8, <1>a DEF Renew, PollIntent, CleanupOldJob
  <1>9. CASE CancelJob(w)
    BY <1>9, <1>a DEF CancelJob
  <1>10. CASE RequestCancellation(w) \/ CancellationFails(w)
    BY <1>10, <1>a DEF RequestCancellation, CancellationFails
  <1>11. CASE CancelReply(w)
    <2>1. /\ UNCHANGED <<pc, arg>> /\ can'[w] = "idle"
          /\ \/ can[w] = "cancelled"
             \/ can[w] = "cancelling" /\ ApplyCancel(w)
             \/ UNCHANGED st
      BY <1>11 DEF CancelReply
    <2>2. ApplyCancel(w) => st'[w] = IF st[w] = "pending" THEN "cancelled" ELSE "cancelling"
      BY DEF ApplyCancel
    <2> QED BY <1>a, <2>1, <2>2
  <1> QED BY <1>1, <1>2, <1>3, <1>4, <1>5, <1>6, <1>7, <1>8, <1>9, <1>10, <1>11
          DEF WorkerAct, TaskStep, CancelStep, WorkerFault

\* What is known of a cancellation stays true while no lease lapses.
LEMMA IntentsStep ==
    ASSUME "drain timeout" \notin May, IInv, Records, Mirrored, Held, Intents, [Next]_vars
    PROVE  Intents'
  <1> SUFFICES ASSUME NEW w \in Workers, w \in durable', w[2] \notin lapsed'
               PROVE  IntentOK(w)'
    BY DEF Intents, IntentOK
  <1>a. /\ HeldOK(w) /\ IntentOK(w) /\ RecordOK(w) /\ w[2] \notin lapsed
        /\ w[1] \in Gateways /\ w[2] \in Jobs
    BY LapsesStay, WorkerParts DEF Held, Intents, Records
  <1>b. w \in durable /\ can[w] = "cancelled" => envStatus'[w[2]] = "cancelled"
    <2>1. SUFFICES ASSUME w \in durable, can[w] = "cancelled"
                   PROVE  envStatus'[w[2]] = "cancelled"
      OBVIOUS
    <2>2. DrawnKeyed(w[2]) /\ envStatus[w[2]] = "cancelled"
      BY <1>a, <2>1 DEF RecordOK, IntentOK
    <2> QED BY <1>a, <2>2, SettledStays DEF TERMINAL_STATES
  <1>c. w \in durable /\ pc[w] \in {"check", "intent", "cfinish"} => starts'[w[2]] = 0
    <2>1. SUFFICES ASSUME w \in durable, pc[w] \in {"check", "intent", "cfinish"}
                   PROVE  starts'[w[2]] = 0
      OBVIOUS
    <2>2. starts[w[2]] = 0
      BY <1>a, <2>1 DEF IntentOK, IInv, Replay, Locks, ClaimIsLock, PreStart
    <2> QED BY <1>a, <2>1, <2>2, StartsKept DEF Claimed, HeldPCs
  <1>1. CASE WorkerAct(w)
    <2>1. w \in durable
      BY <1>1, WorkerRecords
    <2>2. RequestCancellation(w) /\ can'[w] = "cancelled" => envStatus'[w[2]] = "cancelled"
      <3> SUFFICES ASSUME RequestCancellation(w), can'[w] = "cancelled"
                   PROVE  envStatus'[w[2]] = "cancelled"
        OBVIOUS
      <3>1. request_durable_cancellation(w[2]) /\ CancelAnswer(w[2]) = "cancelled"
        BY DEF RequestCancellation, IInv, TypeOK, TaskTypeOK
      <3> QED BY <1>a, <3>1 DEF request_durable_cancellation, CancelAnswer, IInv, TypeOK,
              RedisTypeOK
    <2> QED BY <1>1, <1>a, <1>b, <1>c, <2>1, <2>2, IntentMove DEF IntentOK
  <1>2. CASE GoDown(w[1])
    BY <1>2 DEF GoDown, Of
  <1>3. CASE Same(w)
    <2>1. w \in durable
      BY <1>3 DEF Same
    <2> QED BY <1>3, <1>a, <1>b, <1>c, <2>1 DEF Same, IntentOK
  <1>4. CASE Scheduled(w)
    <2>1. pc'[w] = "sched"
      BY <1>4 DEF Scheduled, Created, CreatedUnkeyed, Recovered, NewRecord, Goto, IInv,
         TypeOK, TaskTypeOK
    <2>2. UNCHANGED can
      BY <1>4 DEF Scheduled, Created, CreatedUnkeyed, Recovered, ReserveReply, Admit,
         RecoverJob
    <2>3. can[w] = "cancelled" => w \in durable
      BY DEF IInv, Shape, WorkerShape, WorkerOK
    <2> QED BY <1>b, <2>1, <2>2, <2>3 DEF IntentOK
  <1>5. ~ForceCleanup(w[1])
    BY <1>a, CleanupFreeStep DEF Mirrored
  <1> QED BY <1>1, <1>2, <1>3, <1>4, <1>5, Locality

\* A submission key names jobs of keyed requests.
LEMMA ClaimsDrawnStep ==
    ASSUME IInv, StoreInv, ClaimsDrawn, [Next]_vars
    PROVE  ClaimsDrawn'
  <1> SUFFICES ASSUME NEW k \in Keys, claimJob'[k] # NoJob
               PROVE  \E r \in Requests : Keyed(r) /\ rjob'[r] = claimJob'[k]
    BY DEF ClaimsDrawn, DrawnKeyed, Keyed
  <1>1. CASE claimJob'[k] = claimJob[k]
    <2>1. PICK r \in Requests : Keyed(r) /\ rjob[r] = claimJob[k]
      BY <1>1 DEF ClaimsDrawn, DrawnKeyed
    <2>2. rjob[r] \in Jobs
      BY <1>1, <2>1 DEF IInv, TypeOK, RedisTypeOK
    <2>3. rjob'[r] = rjob[r]
      BY <2>2, DrawStays
    <2> QED BY <1>1, <2>1, <2>3
  <1>2. ASSUME NEW r \in Requests, Reserve(r), claimJob'[k] # claimJob[k]
        PROVE  \E q \in Requests : Keyed(q) /\ rjob'[q] = claimJob'[k]
    <2>1. /\ reserve_submission_with_job(KeyOf[r], IdentOf[r], rjob[r])
          /\ rpc[r] = "reserve" /\ UNCHANGED rjob
      BY <1>2 DEF Reserve
    <2>2. Keyed(r) /\ claimJob'[k] = rjob[r]
      BY <1>2, <2>1 DEF IInv, Shape, RequestShape, RequestOK, InFlight, Reserving,
         reserve_submission_with_job, TypeOK, RedisTypeOK
    <2> QED BY <2>1, <2>2
  <1>3. CASE Tick \/ Script
    BY <1>1, <1>3, StepKeeps DEF StoreInv, KeepsEnvelopes
  <1> QED BY <1>1, <1>2, <1>3, StoreSteps

\* An envelope that becomes "cancelled" is one whose command was not started.
LEMMA CancelledStep ==
    ASSUME IInv, Records, StoreInv, Mirrored, ClaimsDrawn, Held, Intents,
           CancelledNotStarted, [Next]_vars
    PROVE  CancelledNotStarted'
  <1> SUFFICES ASSUME NEW j \in Jobs, j \notin lapsed', NEW k \in Keys, claimJob'[k] = j,
                      envStatus'[j] = "cancelled"
               PROVE  starts'[j] = 0
    BY DEF CancelledNotStarted
  <1>a. /\ RedisTypeOK /\ (\A w \in Workers : w[2] \in Jobs) /\ j \notin lapsed
        /\ NoJob \notin Jobs
    BY LapsesStay, WorkerParts, ConstantsAssumption DEF IInv, TypeOK
  <1>1. ASSUME NEW r \in Requests, Reserve(r) PROVE UNCHANGED starts /\ claimJob[k] = j
    <2>1. /\ reserve_submission_with_job(KeyOf[r], IdentOf[r], rjob[r])
          /\ rjob[r] \in Jobs /\ KeyOf[r] \in Keys
      BY <1>1, ReserveFacts
    <2> QED BY <1>1, <1>a, <2>1 DEF reserve_submission_with_job, RedisTypeOK, Reserve
  <1>2. claimJob[k] = j
    <2>1. Tick \/ Script => claimJob'[k] = claimJob[k]
      BY StepKeeps DEF StoreInv, KeepsEnvelopes
    <2> QED BY <1>1, <2>1, StoreSteps
  <1>3. DrawnKeyed(j)
    BY <1>2, <1>a DEF ClaimsDrawn
  <1>4. ASSUME NEW v \in Workers, StartRemote(v) PROVE v[2] # j
    <2> SUFFICES ASSUME v[2] = j PROVE FALSE
      OBVIOUS
    <2>1. pc[v] = "start" /\ RecordOK(v) /\ HeldOK(v) /\ UNCHANGED envStatus
      BY <1>4 DEF StartRemote, Records, Held
    <2>2. v \in durable
      BY <1>3, <2>1, OnePlace DEF RecordOK
    <2> QED BY <1>a, <2>1, <2>2 DEF HeldOK, HeldPCs
  <1>5. starts'[j] = starts[j]
    <2>1. ASSUME NEW v \in Workers, StartRemote(v) PROVE starts'[j] = starts[j]
      BY <1>4, <1>a, <2>1 DEF StartRemote, IInv, TypeOK, HistoryTypeOK
    <2> QED BY <2>1, StartsFrame
  <1>6. CASE envStatus[j] = "cancelled"
    BY <1>2, <1>5, <1>6, <1>a DEF CancelledNotStarted
  <1>7. CASE envStatus[j] # "cancelled"
    <2>1. ASSUME NEW r \in Requests, Reserve(r) PROVE FALSE
      BY <1>7, <1>a, <2>1, ReserveFacts DEF reserve_submission_with_job, RedisTypeOK
    <2>2. ~(Tick \/ UNCHANGED redisVars \/ RenewScript \/ ClaimScript)
      BY <1>7, <1>a DEF Tick, RenewScript, heartbeat_durable_execution, ClaimScript,
         claim_durable_execution, RedisTypeOK
    <2>3. ~reconcile_expired_cancelled_processing
      BY <1>7, <1>a DEF reconcile_expired_cancelled_processing, RedisTypeOK
    <2>4. CASE CancelScript
      <3>1. envStatus[j] = "pending"
        BY <1>7, <1>a, <2>4 DEF CancelScript, request_durable_cancellation, RedisTypeOK
      <3> QED BY <1>5, <3>1 DEF IInv, Replay, Locks, PendingIdle
    <2>5. CASE FinishScript
      <3>1. PICK v \in Workers : /\ pc[v] \in {"finish", "cfinish"}
                                 /\ finish_durable_execution(v[2], Tok(v), arg[v])
        BY <2>5 DEF FinishScript
      <3>2. v[2] = j /\ arg[v] = "cancelled"
        BY <1>7, <1>a, <3>1 DEF finish_durable_execution, RedisTypeOK
      <3>3. v \in durable
        BY <3>1 DEF IInv, Replay, Locks, UnkeyedAlone, UnkeyedPCs
      <3>4. IntentOK(v)
        BY DEF Intents
      <3> QED BY <1>5, <1>a, <3>1, <3>2, <3>3, <3>4 DEF IntentOK
    <2>6. ~PersistScript
      <3> SUFFICES ASSUME NEW w \in Workers, pc[w] = "persist", Save(w[2], st[w]) PROVE FALSE
        BY DEF PersistScript
      <3>1. w[2] # j
        BY <1>3, MirrorFirst, OnePlace
      <3> QED BY <1>7, <1>a, <3>1 DEF Save, save_terminal_job, save_terminal_job_fails,
              SetTerminal, RedisTypeOK
    <2>7. ~CleanupScript
      BY DEF CleanupScript, Mirrored, CleanupFree
    <2> QED BY <2>1, <2>2, <2>3, <2>4, <2>5, <2>6, <2>7, StoreSteps DEF Script
  <1> QED BY <1>6, <1>7

\* The initial state.
LEMMA InitIntents == Init => ClaimsDrawn /\ Held /\ Intents /\ CancelledNotStarted
  BY WorkerParts DEF Init, RedisInit, ClaimsDrawn, Held, HeldOK, Claimed, HeldPCs, Intents,
     IntentOK, CancelledNotStarted

\* While no drain times out, a durable "cancelled" of a keyed job means that its
\* command never reached the remote host, unless a lease ran out on the way
\* (request_durable_cancellation, and the intent honoured by _run_job).
THEOREM CancelledUnstarted ==
    ASSUME "drain timeout" \notin May
    PROVE  Spec => []CancelledNotStarted
  <1>1. Spec => [](IInv /\ Records /\ StoreInv /\ Mirrored)
    BY MirroredInvariant
  <1>2. IInv /\ Records /\ StoreInv /\ Mirrored /\ [Next]_vars
          /\ ClaimsDrawn /\ Held /\ Intents /\ CancelledNotStarted
        => (ClaimsDrawn /\ Held /\ Intents /\ CancelledNotStarted)'
    BY ClaimsDrawnStep, HeldStep, IntentsStep, CancelledStep
  <1> QED BY <1>1, <1>2, InitIntents, PTL DEF Spec

----------------------------------------------------------------------------
(* Operation leases balance *)

\* Who holds an operation lease of the session in gateway g: create_job calls
\* that are reserving, tasks of jobs, and, once more, streams.
Provisional(g) == {r \in Requests : rgw[r] = g /\ rpc[r] \in Reserving}
Tasks(g)       == {w \in Workers : w[1] = g /\ pc[w] # "none"}
Streams(g)     == {w \in Workers : w[1] = g /\ pc[w] = "stream"}

\* The sets are finite because a step adds at most one element to one of them;
\* nothing is assumed of the number of requests or of gateways.
Balanced(g) ==
    gpc[g] # "cleanup" =>
        /\ IsFiniteSet(Provisional(g)) /\ IsFiniteSet(Tasks(g)) /\ IsFiniteSet(Streams(g))
        /\ ops[g] = Cardinality(Provisional(g)) + Cardinality(Tasks(g))
                  + Cardinality(Streams(g))

Balances == \A g \in Gateways : Balanced(g)

\* One more holder is one more operation.
LEMMA OneMore ==
    ASSUME NEW S, IsFiniteSet(S), NEW x, x \notin S
    PROVE  /\ IsFiniteSet(S \cup {x}) /\ Cardinality(S) \in Nat
           /\ Cardinality(S \cup {x}) = Cardinality(S) + 1
  BY FS_AddElement, FS_CardinalityType

\* One holder less is one operation less, and there was one.
LEMMA OneLess ==
    ASSUME NEW S, IsFiniteSet(S), NEW x \in S
    PROVE  /\ IsFiniteSet(S \ {x}) /\ Cardinality(S) \in Nat
           /\ Cardinality(S \ {x}) \in Nat
           /\ Cardinality(S) = Cardinality(S \ {x}) + 1
  <1>1. /\ IsFiniteSet(S \ {x}) /\ Cardinality(S \ {x}) = Cardinality(S) - 1
    BY FS_RemoveElement
  <1>2. Cardinality(S) \in Nat /\ Cardinality(S \ {x}) \in Nat
    BY <1>1, FS_CardinalityType
  <1> QED BY <1>1, <1>2

\* A session whose holders did not change has as many operations as before.
LEMMA HoldersSame ==
    ASSUME NEW g \in Gateways, Balanced(g), gpc'[g] # "cleanup" => gpc[g] # "cleanup",
           ops'[g] = ops[g],
           \A q \in Requests : (rgw'[q] = g /\ rpc'[q] \in Reserving)
                               <=> (rgw[q] = g /\ rpc[q] \in Reserving),
           \A v \in Workers : v[1] = g =>
               (pc'[v] = "none" <=> pc[v] = "none") /\ (pc'[v] = "stream" <=> pc[v] = "stream")
    PROVE  Balanced(g)'
  <1>1. Provisional(g)' = Provisional(g) /\ Tasks(g)' = Tasks(g) /\ Streams(g)' = Streams(g)
    BY DEF Provisional, Tasks, Streams
  <1> QED BY <1>1 DEF Balanced

\* What create_job does to the leases: it takes one before it talks to Redis, and
\* hands it to the task or gives it back.
LEMMA RequestBalance ==
    ASSUME IInv, NEW g \in Gateways, Balanced(g), NEW r \in Requests,
           \/ RequestStep(r) \/ RequestFails(r) \/ \E h \in Gateways : Submit(r, h)
    PROVE  Balanced(g)'
  <1> SUFFICES ASSUME gpc[g] # "cleanup" PROVE Balanced(g)'
    <2>1. UNCHANGED gpc
      BY DEF RequestStep, RequestFails, Submit, FindSubmission, Refuse, Reserve,
         ReserveReply, Admit
    <2> QED BY <2>1 DEF Balanced
  <1>a. rpc \in [Requests -> {"idle", "acked", "conflict", "unavailable", "rejected",
                              "dead"} \cup InFlight]
        /\ rgw \in [Requests -> Gateways \cup {NoGateway}] /\ pc \in [Workers -> PCs]
        /\ ops \in [Gateways -> Nat]
    BY DEF IInv, TypeOK, RequestTypeOK, TaskTypeOK, GatewayTypeOK
  <1>b. rpc[r] \in InFlight => rgw[r] \in Gateways
    BY DEF IInv, Shape, RequestShape, RequestOK
  <1>1. CASE UNCHANGED <<gpc, ops, pc, rgw>> /\ \E l : Answer(r, l) /\ (l \in Reserving <=> rpc[r] \in Reserving)
    BY <1>1, <1>a, HoldersSame DEF Answer
  <1>2. CASE \E h \in Gateways : Submit(r, h)
    BY <1>2, <1>a, HoldersSame DEF Submit, Answer, Reserving
  <1>3. CASE FindSubmission(r)
    BY <1>3, <1>1 DEF FindSubmission, Reserving
  <1>4. CASE Refuse(r)
    BY <1>4, <1>1 DEF Refuse, Reserving
  <1>5. CASE Reserve(r)
    BY <1>5, <1>1 DEF Reserve, Reserving
  <1>6. CASE RequestFails(r) /\ rpc[r] \in {"find", "full"}
    BY <1>6, <1>1 DEF RequestFails, Reserving
  \* The lease is given back.
  <1>7. ASSUME UNCHANGED <<gpc, pc, rgw>>, rpc[r] \in Reserving, Unpin(rgw[r]),
               NEW l, Answer(r, l), l \notin Reserving
        PROVE  Balanced(g)'
    <2>1. CASE rgw[r] # g
      <3>1. ops'[g] = ops[g]
        BY <1>7, <1>a, <2>1 DEF Unpin
      <3> QED BY <1>7, <1>a, <2>1, <3>1, HoldersSame DEF Answer
    <2>2. CASE rgw[r] = g
      <3>1. /\ Provisional(g)' = Provisional(g) \ {r} /\ r \in Provisional(g)
            /\ Tasks(g)' = Tasks(g) /\ Streams(g)' = Streams(g)
        BY <1>7, <1>a, <2>2 DEF Provisional, Tasks, Streams, Answer
      <3>2. ops'[g] = IF ops[g] = 0 THEN 0 ELSE ops[g] - 1
        BY <1>7, <1>a, <2>2 DEF Unpin
      <3>3. /\ IsFiniteSet(Provisional(g) \ {r})
            /\ Cardinality(Provisional(g) \ {r}) \in Nat
            /\ Cardinality(Provisional(g)) = Cardinality(Provisional(g) \ {r}) + 1
        BY <3>1, OneLess DEF Balanced
      <3>4. Cardinality(Tasks(g)) \in Nat /\ Cardinality(Streams(g)) \in Nat
        BY FS_CardinalityType DEF Balanced
      <3> QED BY <3>1, <3>2, <3>3, <3>4 DEF Balanced
    <2> QED BY <2>1, <2>2
  <1>8. CASE RequestFails(r) /\ rpc[r] \notin {"find", "full"}
    <2>1. UNCHANGED <<gpc, pc, rgw>> /\ rpc[r] \in Reserving /\ Unpin(rgw[r])
          /\ Answer(r, "unavailable")
      BY <1>8 DEF RequestFails, InFlight
    <2> QED BY <2>1, <1>7 DEF Reserving
  <1>9. CASE ReserveReply(r) /\ rpc[r] # "created"
    <2>1. /\ UNCHANGED <<gpc, pc, rgw>> /\ rpc[r] \in Reserving /\ Unpin(rgw[r])
          /\ Answer(r, "acked") \/ Answer(r, "unavailable")
      BY <1>9 DEF ReserveReply, Reserving
    <2>2. {"acked", "unavailable"} \cap Reserving = {}
      BY DEF Reserving
    <2>3. CASE Answer(r, "acked")
      BY <1>7, <2>1, <2>2, <2>3
    <2>4. CASE Answer(r, "unavailable")
      BY <1>7, <2>1, <2>2, <2>4
    <2> QED BY <2>1, <2>3, <2>4
  \* The lease is handed to the new task.
  <1>10. CASE ReserveReply(r) /\ rpc[r] = "created"
    <2> DEFINE w == <<rgw[r], rjob[r]>>
    <2>1. /\ UNCHANGED <<gpc, ops, rgw>> /\ Answer(r, "acked")
          /\ pc' = [pc EXCEPT ![w] = "sched"]
      BY <1>10 DEF ReserveReply, NewRecord, Goto
    <2>2. rgw[r] \in Gateways /\ rjob[r] \in Jobs /\ w \in Workers /\ w[1] = rgw[r]
          /\ pc[w] = "none"
      BY <1>10, WorkerParts DEF IInv, Shape, RequestShape, RequestOK, InFlight, Reserving,
         Replay, Ids, CreatedKnown
    <2> HIDE DEF w
    <2>3. CASE rgw[r] # g
      <3>1. \A v \in Workers : v[1] = g => pc'[v] = pc[v]
        BY <1>a, <2>1, <2>2, <2>3
      <3> QED BY <1>a, <2>1, <2>3, <3>1, HoldersSame DEF Answer
    <2>4. CASE rgw[r] = g
      <3>1. Provisional(g)' = Provisional(g) \ {r} /\ r \in Provisional(g)
        BY <1>10, <1>a, <2>1, <2>4 DEF Provisional, Answer, Reserving
      <3>2. Tasks(g)' = Tasks(g) \cup {w} /\ w \notin Tasks(g) /\ Streams(g)' = Streams(g)
        BY <1>a, <2>1, <2>2, <2>4 DEF Tasks, Streams
      <3>3. /\ IsFiniteSet(Provisional(g) \ {r})
            /\ Cardinality(Provisional(g) \ {r}) \in Nat
            /\ Cardinality(Provisional(g)) = Cardinality(Provisional(g) \ {r}) + 1
        BY <3>1, OneLess DEF Balanced
      <3>4. /\ IsFiniteSet(Tasks(g) \cup {w}) /\ Cardinality(Tasks(g)) \in Nat
            /\ Cardinality(Tasks(g) \cup {w}) = Cardinality(Tasks(g)) + 1
        BY <3>2, OneMore DEF Balanced
      <3>5. Cardinality(Streams(g)) \in Nat
        BY FS_CardinalityType DEF Balanced
      <3> QED BY <2>1, <3>1, <3>2, <3>3, <3>4, <3>5 DEF Balanced
    <2> QED BY <2>3, <2>4
  \* A lease is taken.
  <1>11. ASSUME NEW j \in Jobs, Admit(r, j) PROVE Balanced(g)'
    <2>1. /\ UNCHANGED <<gpc, rgw>> /\ rpc[r] = "lock" /\ Pin(rgw[r])
          /\ Keyed(r) => Answer(r, "reserve") /\ UNCHANGED pc
          /\ ~Keyed(r) => Answer(r, "acked") /\ pc' = [pc EXCEPT ![<<rgw[r], j>>] = "sched"]
      BY <1>11 DEF Admit, NewRecord, Goto
    <2>2. rgw[r] \in Gateways /\ <<rgw[r], j>> \in Workers /\ <<rgw[r], j>>[1] = rgw[r]
      BY <1>b, <2>1, WorkerParts DEF InFlight
    <2>3. pc[<<rgw[r], j>>] = "none"
      <3>1. Fresh(j)
        BY <1>11 DEF Admit, Fresh
      <3> QED BY <2>2, <3>1, WorkerParts DEF IInv, Replay, Ids, FreshIdle
    <2>4. CASE rgw[r] # g
      <3>1. ops'[g] = ops[g]
        BY <1>a, <2>1, <2>4 DEF Pin
      <3>2. \A v \in Workers : v[1] = g => pc'[v] = pc[v]
        BY <1>a, <2>1, <2>2, <2>4
      <3>3. \A q \in Requests : (rgw'[q] = g /\ rpc'[q] \in Reserving)
                                <=> (rgw[q] = g /\ rpc[q] \in Reserving)
        BY <1>a, <2>1, <2>4 DEF Answer
      <3> QED BY <2>1, <3>1, <3>2, <3>3, HoldersSame
    <2>5. CASE rgw[r] = g /\ Keyed(r)
      <3>1. /\ Provisional(g)' = Provisional(g) \cup {r} /\ r \notin Provisional(g)
            /\ Tasks(g)' = Tasks(g) /\ Streams(g)' = Streams(g)
        BY <1>a, <2>1, <2>5 DEF Provisional, Tasks, Streams, Answer, Reserving
      <3>2. /\ IsFiniteSet(Provisional(g) \cup {r}) /\ Cardinality(Provisional(g)) \in Nat
            /\ Cardinality(Provisional(g) \cup {r}) = Cardinality(Provisional(g)) + 1
        BY <3>1, OneMore DEF Balanced
      <3>3. Cardinality(Tasks(g)) \in Nat /\ Cardinality(Streams(g)) \in Nat
        BY FS_CardinalityType DEF Balanced
      <3>4. ops'[g] = ops[g] + 1
        BY <1>a, <2>1, <2>5 DEF Pin
      <3> QED BY <3>1, <3>2, <3>3, <3>4 DEF Balanced
    <2>6. CASE rgw[r] = g /\ ~Keyed(r)
      <3> DEFINE w == <<g, j>>
      <3>1. pc' = [pc EXCEPT ![w] = "sched"] /\ w \in Workers /\ w[1] = g /\ pc[w] = "none"
        BY <2>1, <2>2, <2>3, <2>6
      <3> HIDE DEF w
      <3>2. Provisional(g)' = Provisional(g)
        BY <1>a, <2>1, <2>6 DEF Provisional, Answer, Reserving
      <3>3. Tasks(g)' = Tasks(g) \cup {w} /\ w \notin Tasks(g) /\ Streams(g)' = Streams(g)
        BY <1>a, <3>1 DEF Tasks, Streams
      <3>4. /\ IsFiniteSet(Tasks(g) \cup {w}) /\ Cardinality(Tasks(g)) \in Nat
            /\ Cardinality(Tasks(g) \cup {w}) = Cardinality(Tasks(g)) + 1
        BY <3>3, OneMore DEF Balanced
      <3>5. Cardinality(Provisional(g)) \in Nat /\ Cardinality(Streams(g)) \in Nat
        BY FS_CardinalityType DEF Balanced
      <3>6. ops'[g] = ops[g] + 1
        BY <1>a, <2>1, <2>6 DEF Pin
      <3> QED BY <3>2, <3>3, <3>4, <3>5, <3>6 DEF Balanced
    <2> QED BY <2>4, <2>5, <2>6
  <1> QED BY <1>2, <1>3, <1>4, <1>5, <1>6, <1>8, <1>9, <1>10, <1>11 DEF RequestStep

\* What a task does to the leases: its stream takes a second one, and the finally
\* of _run_job gives the first one back.
LEMMA TaskBalance ==
    ASSUME IInv, NEW g \in Gateways, Balanced(g), NEW w \in Workers, WorkerAct(w)
    PROVE  Balanced(g)'
  <1>a. UNCHANGED reqVars /\ UNCHANGED gwVars /\ \A v \in Workers : v # w => pc'[v] = pc[v]
    BY WorkerUnserved, OtherWorkers DEF WorkerAct, Same
  <1>b. pc \in [Workers -> PCs] /\ ops \in [Gateways -> Nat] /\ w[1] \in Gateways
    BY WorkerParts DEF IInv, TypeOK, TaskTypeOK, GatewayTypeOK
  <1> SUFFICES ASSUME gpc[g] # "cleanup" PROVE Balanced(g)'
    BY <1>a DEF Balanced
  <1>1. CASE /\ UNCHANGED ops
             /\ pc'[w] = "none" <=> pc[w] = "none"
             /\ pc'[w] = "stream" <=> pc[w] = "stream"
    BY <1>1, <1>a, HoldersSame
  <1>2. CASE StartRemote(w)
    <2>1. pc[w] = "start" /\ pc' = [pc EXCEPT ![w] = "stream"] /\ Pin(w[1])
      BY <1>2 DEF StartRemote, Goto
    <2>2. CASE w[1] # g
      <3>1. ops'[g] = ops[g]
        BY <1>b, <2>1, <2>2 DEF Pin
      <3> QED BY <1>a, <2>2, <3>1, HoldersSame
    <2>3. CASE w[1] = g
      <3>1. /\ Provisional(g)' = Provisional(g) /\ Tasks(g)' = Tasks(g)
            /\ Streams(g)' = Streams(g) \cup {w} /\ w \notin Streams(g)
        BY <1>a, <1>b, <2>1, <2>3 DEF Provisional, Tasks, Streams
      <3>2. ops'[g] = ops[g] + 1
        BY <1>b, <2>1, <2>3 DEF Pin
      <3>3. /\ IsFiniteSet(Streams(g) \cup {w}) /\ Cardinality(Streams(g)) \in Nat
            /\ Cardinality(Streams(g) \cup {w}) = Cardinality(Streams(g)) + 1
        BY <3>1, OneMore DEF Balanced
      <3>4. Cardinality(Tasks(g)) \in Nat /\ Cardinality(Provisional(g)) \in Nat
        BY FS_CardinalityType DEF Balanced
      <3> QED BY <3>1, <3>2, <3>3, <3>4 DEF Balanced
    <2> QED BY <2>2, <2>3
  <1>3. CASE \E x \in Exits : StreamEnds(w, x)
    <2>1. pc[w] = "stream" /\ pc' = [pc EXCEPT ![w] = "ended"] /\ Unpin(w[1])
      BY <1>3 DEF StreamEnds, Goto
    <2>2. CASE w[1] # g
      <3>1. ops'[g] = ops[g]
        BY <1>b, <2>1, <2>2 DEF Unpin
      <3> QED BY <1>a, <2>2, <3>1, HoldersSame
    <2>3. CASE w[1] = g
      <3>1. /\ Provisional(g)' = Provisional(g) /\ Tasks(g)' = Tasks(g)
            /\ Streams(g)' = Streams(g) \ {w} /\ w \in Streams(g)
        BY <1>a, <1>b, <2>1, <2>3 DEF Provisional, Tasks, Streams
      <3>2. ops'[g] = IF ops[g] = 0 THEN 0 ELSE ops[g] - 1
        BY <1>b, <2>1, <2>3 DEF Unpin
      <3>3. /\ IsFiniteSet(Streams(g) \ {w}) /\ Cardinality(Streams(g) \ {w}) \in Nat
            /\ Cardinality(Streams(g)) = Cardinality(Streams(g) \ {w}) + 1
        BY <3>1, OneLess DEF Balanced
      <3>4. Cardinality(Tasks(g)) \in Nat /\ Cardinality(Provisional(g)) \in Nat
        BY FS_CardinalityType DEF Balanced
      <3> QED BY <3>1, <3>2, <3>3, <3>4 DEF Balanced
    <2> QED BY <2>2, <2>3
  <1>4. CASE EndTask(w)
    <2>1. pc[w] = "end" /\ pc' = [pc EXCEPT ![w] = "none"] /\ Unpin(w[1])
      BY <1>4 DEF EndTask, Goto
    <2>2. CASE w[1] # g
      <3>1. ops'[g] = ops[g]
        BY <1>b, <2>1, <2>2 DEF Unpin
      <3> QED BY <1>a, <2>2, <3>1, HoldersSame
    <2>3. CASE w[1] = g
      <3>1. /\ Provisional(g)' = Provisional(g) /\ Streams(g)' = Streams(g)
            /\ Tasks(g)' = Tasks(g) \ {w} /\ w \in Tasks(g)
        BY <1>a, <1>b, <2>1, <2>3 DEF Provisional, Tasks, Streams
      <3>2. ops'[g] = IF ops[g] = 0 THEN 0 ELSE ops[g] - 1
        BY <1>b, <2>1, <2>3 DEF Unpin
      <3>3. /\ IsFiniteSet(Tasks(g) \ {w}) /\ Cardinality(Tasks(g) \ {w}) \in Nat
            /\ Cardinality(Tasks(g)) = Cardinality(Tasks(g) \ {w}) + 1
        BY <3>1, OneLess DEF Balanced
      <3>4. Cardinality(Streams(g)) \in Nat /\ Cardinality(Provisional(g)) \in Nat
        BY FS_CardinalityType DEF Balanced
      <3> QED BY <3>1, <3>2, <3>3, <3>4 DEF Balanced
    <2> QED BY <2>2, <2>3
  <1>5. CASE UNCHANGED <<ops, pc>>
    BY <1>1, <1>5
  <1>6. CASE EnterRunJob(w) \/ LoseClaim(w) \/ Begin(w) \/ CheckIntent(w)
               \/ CheckIntentFails(w) \/ HonourIntent(w)
    <2>1. UNCHANGED ops /\ pc[w] \notin {"none", "stream"} /\ pc'[w] \notin {"none", "stream"}
      BY <1>6, <1>b DEF EnterRunJob, LoseClaim, Begin, CheckIntent, CheckIntentFails,
         HonourIntent, BeginRun, Goto
    <2> QED BY <1>1, <2>1
  <1>7. CASE FailBeforeStart(w) \/ Classify(w) \/ Reaped(w) \/ Complete(w)
    <2>1. UNCHANGED ops /\ pc[w] \notin {"none", "stream"} /\ pc'[w] \notin {"none", "stream"}
      BY <1>7, <1>b DEF FailBeforeStart, Classify, Reaped, Complete, EnterFinally, Goto
    <2> QED BY <1>1, <2>1
  <1>8. CASE Claim(w) \/ ClaimFails(w) \/ Persist(w)
    <2>1. UNCHANGED ops /\ pc[w] \notin {"none", "stream"} /\ pc'[w] \notin {"none", "stream"}
      BY <1>8, <1>b DEF Claim, ClaimFails, Persist, Goto
    <2> QED BY <1>1, <2>1
  <1>9. CASE Finish(w) \/ FinishFails(w)
    <2>1. UNCHANGED ops /\ pc[w] \notin {"none", "stream"} /\ pc'[w] \notin {"none", "stream"}
      BY <1>9, <1>b DEF Finish, FinishFails, AfterFinish, Goto
    <2> QED BY <1>1, <2>1
  <1>10. CASE Renew(w) \/ PollIntent(w) \/ CleanupOldJob(w) \/ CancelJob(w) \/ CancelReply(w)
                \/ RequestCancellation(w) \/ CancellationFails(w)
    BY <1>5, <1>10 DEF Renew, PollIntent, CleanupOldJob, CancelJob, CancelReply,
       RequestCancellation, CancellationFails
  <1> QED BY <1>2, <1>3, <1>4, <1>6, <1>7, <1>8, <1>9, <1>10
          DEF WorkerAct, TaskStep, CancelStep, WorkerFault

\* What a process does to the leases: its startup recovery takes one for every job
\* it schedules, and they all go with the process.
LEMMA ProcessBalance ==
    ASSUME IInv, NEW g \in Gateways, Balanced(g), NEW h \in Gateways,
           \/ CloseSession(h) \/ Boot(h) \/ StartupStep(h) \/ Crash(h) \/ Shutdown(h)
           \/ DrainDone(h) \/ ForceCleanup(h) \/ CleanupDone(h)
           \/ \E j \in Jobs : PersistCleaned(h, j)
    PROVE  Balanced(g)'
  <1>a. /\ pc \in [Workers -> PCs] /\ ops \in [Gateways -> Nat]
        /\ gpc \in [Gateways -> {"down", "reconcile", "list", "recover", "serving",
                                 "draining", "cleanup"}]
    BY DEF IInv, TypeOK, TaskTypeOK, GatewayTypeOK
  <1>1. CASE UNCHANGED <<ops, pc, rpc, rgw>> /\ (gpc'[g] # "cleanup" => gpc[g] # "cleanup")
    BY <1>1, HoldersSame
  <1>2. CASE CloseSession(h)
    BY <1>1, <1>2 DEF CloseSession
  <1>3. CASE Boot(h)
    <2>1. gpc'[g] # "cleanup" => gpc[g] # "cleanup"
      BY <1>3, <1>a DEF Boot
    <2> QED BY <1>1, <1>3, <2>1 DEF Boot
  <1>4. CASE Reconcile(h) \/ ListRecoverable(h) \/ Serve(h)
    <2>1. gpc'[g] # "cleanup" => gpc[g] # "cleanup"
      BY <1>4, <1>a DEF Reconcile, ListRecoverable, Serve
    <2> QED BY <1>1, <1>4, <2>1 DEF Reconcile, ListRecoverable, Serve
  <1>5. CASE \E j \in Jobs : PersistCleaned(h, j)
    BY <1>1, <1>5 DEF PersistCleaned
  <1>6. CASE GoDown(h)
    <2>1. CASE g = h
      <3>1. Provisional(g)' = {}
        BY <1>6, <2>1 DEF GoDown, Provisional, InFlight, Reserving
      <3>2. Tasks(g)' = {} /\ Streams(g)' = {}
        BY <1>6, <2>1 DEF GoDown, ForgetTasks, Tasks, Streams
      <3>3. ops'[g] = 0
        BY <1>6, <1>a, <2>1 DEF GoDown
      <3> QED BY <3>1, <3>2, <3>3, FS_EmptySet DEF Balanced
    <2>2. CASE g # h
      <3>1. gpc'[g] = gpc[g] /\ ops'[g] = ops[g]
        BY <1>6, <1>a, <2>2 DEF GoDown
      <3>2. \A v \in Workers : v[1] = g => pc'[v] = pc[v]
        BY <1>6, <2>2 DEF GoDown, ForgetTasks
      <3>3. \A q \in Requests : (rgw'[q] = g /\ rpc'[q] \in Reserving)
                                <=> (rgw[q] = g /\ rpc[q] \in Reserving)
        BY <1>6, <2>2 DEF GoDown
      <3> QED BY <3>1, <3>2, <3>3, HoldersSame
    <2> QED BY <2>1, <2>2
  <1>7. CASE ForceCleanup(h)
    <2>1. CASE g = h
      <3>1. gpc'[g] = "cleanup"
        BY <1>7, <1>a, <2>1 DEF ForceCleanup
      <3> QED BY <3>1 DEF Balanced
    <2>2. CASE g # h
      <3>1. gpc'[g] = gpc[g] /\ ops'[g] = ops[g] /\ UNCHANGED <<rpc, rgw>>
        BY <1>7, <1>a, <2>2 DEF ForceCleanup
      <3>2. ForgetTasks(h, {"reap"})
        BY <1>7 DEF ForceCleanup
      <3>3. \A v \in Workers : v[1] = g => pc'[v] = pc[v]
        BY <2>2, <3>2 DEF ForgetTasks
      <3> QED BY <3>1, <3>3, HoldersSame
    <2> QED BY <2>1, <2>2
  <1>8. CASE Shutdown(h)
    <2>1. CASE ~GoDown(h)
      <3>1. gpc'[g] # "cleanup" => gpc[g] # "cleanup"
        BY <1>8, <1>a, <2>1 DEF Shutdown
      <3> QED BY <1>1, <1>8, <2>1, <3>1 DEF Shutdown
    <2> QED BY <1>6, <2>1
  <1>9. CASE Crash(h) \/ DrainDone(h) \/ CleanupDone(h)
    BY <1>6, <1>9 DEF Crash, DrainDone, CleanupDone
  <1>10. ASSUME NEW j \in Jobs, RecoverJob(h, j) PROVE Balanced(g)'
    <2>1. UNCHANGED <<gpc, rpc, rgw>> /\ gpc[h] = "recover" /\ j \in todo[h]
      BY <1>10 DEF RecoverJob
    <2>2. CASE UNCHANGED <<pc, ops>>
      BY <1>1, <2>1, <2>2
    <2>3. CASE NewRecord(<<h, j>>, TRUE) /\ Pin(h)
      <3> DEFINE w == <<h, j>>
      <3>1. pc' = [pc EXCEPT ![w] = "sched"] /\ w \in Workers /\ w[1] = h /\ pc[w] = "none"
        BY <2>1, <2>3, WorkerParts DEF NewRecord, Goto, IInv, Replay, Fences, TodoIdle
      <3> HIDE DEF w
      <3>2. CASE g # h
        <4>1. ops'[g] = ops[g]
          BY <1>a, <2>3, <3>2 DEF Pin
        <4>2. \A v \in Workers : v[1] = g => pc'[v] = pc[v]
          BY <1>a, <3>1, <3>2
        <4> QED BY <2>1, <4>1, <4>2, HoldersSame
      <3>3. CASE g = h
        <4>1. /\ Provisional(g)' = Provisional(g) /\ Streams(g)' = Streams(g)
              /\ Tasks(g)' = Tasks(g) \cup {w} /\ w \notin Tasks(g)
          BY <1>a, <2>1, <3>1, <3>3 DEF Provisional, Tasks, Streams
        <4>2. ops'[g] = ops[g] + 1
          BY <1>a, <2>3, <3>3 DEF Pin
        <4>3. gpc[g] # "cleanup"
          BY <2>1, <3>3
        <4>4. /\ IsFiniteSet(Tasks(g) \cup {w}) /\ Cardinality(Tasks(g)) \in Nat
              /\ Cardinality(Tasks(g) \cup {w}) = Cardinality(Tasks(g)) + 1
          BY <4>1, <4>3, OneMore DEF Balanced
        <4>5. Cardinality(Provisional(g)) \in Nat /\ Cardinality(Streams(g)) \in Nat
          BY <4>3, FS_CardinalityType DEF Balanced
        <4> QED BY <4>1, <4>2, <4>3, <4>4, <4>5 DEF Balanced
      <3> QED BY <3>2, <3>3
    <2> QED BY <1>10, <2>2, <2>3 DEF RecoverJob
  <1> QED BY <1>2, <1>3, <1>4, <1>5, <1>7, <1>8, <1>9, <1>10, <1>6 DEF StartupStep

\* So every step keeps the balance.
LEMMA BalanceStep ==
    ASSUME IInv, Balances, [Next]_vars
    PROVE  Balances'
  <1> SUFFICES ASSUME NEW g \in Gateways PROVE Balanced(g)'
    BY DEF Balances
  <1>a. Balanced(g)
    BY DEF Balances
  <1>1. CASE Tick \/ UNCHANGED vars
    BY <1>1, <1>a, HoldersSame DEF Tick, vars
  <1> QED BY <1>1, <1>a, RequestBalance, TaskBalance, ProcessBalance DEF Next, WorkerAct

\* Initially nobody holds a lease.
LEMMA InitBalance == Init => Balances
  <1> SUFFICES ASSUME Init, NEW g \in Gateways PROVE Balanced(g)
    BY DEF Balances
  <1>1. Provisional(g) = {} /\ Tasks(g) = {} /\ Streams(g) = {} /\ ops[g] = 0
    BY DEF Init, Provisional, Tasks, Streams, Reserving
  <1> QED BY <1>1, FS_EmptySet DEF Balanced

\* The balance is an invariant.
LEMMA BalanceInvariant == Spec => [](IInv /\ Balances)
  <1>1. Spec => []IInv
    BY ReplayInvariant
  <1> QED BY <1>1, InitBalance, BalanceStep, PTL DEF Spec

\* Operation leases are neither leaked nor released twice, outside the forced
\* cleanup: active_operations counts the create_job calls that are reserving, the
\* tasks, and the streams (acquire_operation_lease and release_operation_lease as
\* create_job, recover_job, _run_job and execute_stream call them).
THEOREM LeasesBalance == Spec => []OpsBalanced
  <1>1. Balances => OpsBalanced
    BY DEF Balances, Balanced, OpsBalanced, Provisional, Tasks, Streams
  <1> QED BY <1>1, BalanceInvariant, PTL

----------------------------------------------------------------------------
(* The session of an accepted job *)

\* While no client closes it, the session is there for whoever holds a lease.
Pinned ==
    "disconnect" \notin May =>
        /\ \A w \in Workers : pc[w] # "none" /\ gpc[w[1]] # "cleanup" => w[1] \in sess
        /\ \A r \in Requests : rpc[r] \in Reserving => rgw[r] \in sess

\* A session loses its place only when its process ends, or when nobody holds a
\* lease of it.
LEMMA SessionStays ==
    ASSUME IInv, Balances, [Next]_vars, "disconnect" \notin May, NEW g \in sess,
           g \notin sess'
    PROVE  \/ GoDown(g)
           \/ /\ UNCHANGED <<pc, rpc, rgw, gpc>>
              /\ gpc[g] # "cleanup" => Provisional(g) = {} /\ Tasks(g) = {}
  <1>a. g \in Gateways
    BY DEF IInv, TypeOK, GatewayTypeOK
  <1>1. ASSUME NEW r \in Requests,
               \/ RequestStep(r) \/ RequestFails(r) \/ \E h \in Gateways : Submit(r, h)
        PROVE  UNCHANGED sess
    BY <1>1 DEF RequestStep, RequestFails, Submit, FindSubmission, Refuse, Reserve,
       ReserveReply, Admit
  <1>2. ASSUME NEW w \in Workers, WorkerAct(w) PROVE UNCHANGED sess
    BY <1>2, WorkerUnserved DEF WorkerAct
  <1>3. CASE Tick \/ UNCHANGED vars
    BY <1>3 DEF Tick, vars
  <1>4. ASSUME NEW h \in Gateways,
               \/ Boot(h) \/ StartupStep(h) \/ ForceCleanup(h)
               \/ \E j \in Jobs : PersistCleaned(h, j)
        PROVE  g \in sess'
    BY <1>4 DEF Boot, StartupStep, Reconcile, ListRecoverable, Serve, RecoverJob,
       ForceCleanup, PersistCleaned
  <1>5. ASSUME NEW h \in Gateways, Crash(h) \/ Shutdown(h) \/ DrainDone(h) \/ CleanupDone(h)
        PROVE  GoDown(g)
    <2>1. GoDown(h) \/ UNCHANGED sess
      BY <1>5 DEF Crash, Shutdown, DrainDone, CleanupDone
    <2>2. GoDown(h) /\ g # h => g \in sess'
      BY DEF GoDown
    <2> QED BY <2>1, <2>2
  <1>6. ASSUME NEW h \in Gateways, CloseSession(h)
        PROVE  /\ UNCHANGED <<pc, rpc, rgw, gpc>>
               /\ gpc[g] # "cleanup" => Provisional(g) = {} /\ Tasks(g) = {}
    <2>1. /\ UNCHANGED <<pc, rpc, rgw, gpc>> /\ ops[h] = 0 /\ h = g
      BY <1>6 DEF CloseSession
    <2>2. ASSUME gpc[g] # "cleanup" PROVE Provisional(g) = {} /\ Tasks(g) = {}
      <3>1. /\ IsFiniteSet(Provisional(g)) /\ IsFiniteSet(Tasks(g)) /\ IsFiniteSet(Streams(g))
            /\ 0 = Cardinality(Provisional(g)) + Cardinality(Tasks(g))
                   + Cardinality(Streams(g))
        BY <1>a, <2>1, <2>2 DEF Balances, Balanced
      <3>2. /\ Cardinality(Provisional(g)) \in Nat /\ Cardinality(Tasks(g)) \in Nat
            /\ Cardinality(Streams(g)) \in Nat
        BY <3>1, FS_CardinalityType
      <3>3. Cardinality(Provisional(g)) = 0 /\ Cardinality(Tasks(g)) = 0
        BY <3>1, <3>2
      <3> QED BY <3>1, <3>3, FS_EmptySet
    <2> QED BY <2>1, <2>2
  <1> QED BY <1>1, <1>2, <1>3, <1>4, <1>5, <1>6 DEF Next, WorkerAct

\* A worker without a task does not get one by a step of its own.
LEMMA IdleStays ==
    ASSUME IInv, NEW w \in Workers, WorkerAct(w), pc[w] = "none"
    PROVE  pc'[w] = "none"
  <1>1. CASE \/ EnterRunJob(w) \/ LoseClaim(w) \/ CheckIntent(w) \/ CheckIntentFails(w)
             \/ HonourIntent(w) \/ Begin(w) \/ FailBeforeStart(w) \/ StartRemote(w)
             \/ (\E x \in Exits : StreamEnds(w, x))
             \/ Classify(w) \/ Reaped(w) \/ Complete(w) \/ EndTask(w)
    BY <1>1 DEF EnterRunJob, LoseClaim, CheckIntent, CheckIntentFails, HonourIntent, Begin,
       FailBeforeStart, StartRemote, StreamEnds, Classify, Reaped, Complete, EndTask
  <1>2. CASE Claim(w) \/ ClaimFails(w) \/ Finish(w) \/ FinishFails(w) \/ Persist(w)
    BY <1>2 DEF Claim, ClaimFails, Finish, FinishFails, Persist
  <1>3. CASE \/ Renew(w) \/ RequestCancellation(w) \/ CancellationFails(w)
             \/ PollIntent(w) \/ CancelJob(w) \/ CancelReply(w) \/ CleanupOldJob(w)
    BY <1>3 DEF Renew, RequestCancellation, CancellationFails, PollIntent, CancelJob,
       CancelReply, CleanupOldJob
  <1> QED BY <1>1, <1>2, <1>3 DEF WorkerAct, TaskStep, CancelStep, WorkerFault

\* A forced cleanup ends with the process.
LEMMA CleanupEnds ==
    ASSUME IInv, [Next]_vars, NEW g \in Gateways, gpc[g] = "cleanup", gpc'[g] # "cleanup"
    PROVE  GoDown(g)
  <1> USE DEF IInv, TypeOK, GatewayTypeOK
  <1>1. ~UNCHANGED gpc
    OBVIOUS
  <1>2. ASSUME NEW r \in Requests,
               \/ RequestStep(r) \/ RequestFails(r) \/ \E h \in Gateways : Submit(r, h)
        PROVE  UNCHANGED gpc
    BY <1>2 DEF RequestStep, RequestFails, Submit, FindSubmission, Refuse, Reserve,
       ReserveReply, Admit
  <1>3. ASSUME NEW w \in Workers, WorkerAct(w) PROVE UNCHANGED gpc
    BY <1>3, WorkerUnserved DEF WorkerAct
  <1>4. CASE Tick \/ UNCHANGED vars
    BY <1>1, <1>4 DEF Tick, vars
  <1>5. ASSUME NEW h \in Gateways, CloseSession(h) \/ \E j \in Jobs : PersistCleaned(h, j)
        PROVE  FALSE
    BY <1>1, <1>5 DEF CloseSession, PersistCleaned
  <1>6. ASSUME NEW h \in Gateways, Boot(h) \/ StartupStep(h) \/ ForceCleanup(h)
        PROVE  FALSE
    BY <1>6 DEF Boot, StartupStep, Reconcile, ListRecoverable, Serve, RecoverJob,
       ForceCleanup
  <1>7. ASSUME NEW h \in Gateways, Crash(h) \/ Shutdown(h) \/ DrainDone(h) \/ CleanupDone(h)
        PROVE  GoDown(g)
    <2>1. GoDown(h) \/ (gpc[h] = "serving" /\ gpc' = [gpc EXCEPT ![h] = "draining"])
      BY <1>7 DEF Crash, Shutdown, DrainDone, CleanupDone
    <2>2. GoDown(h) => gpc' = [gpc EXCEPT ![h] = "down"]
      BY DEF GoDown
    <2>3. h = g /\ GoDown(h)
      BY <2>1, <2>2
    <2> QED BY <2>3
  <1> QED BY <1>1, <1>2, <1>3, <1>4, <1>5, <1>6, <1>7 DEF Next, WorkerAct

\* Whoever takes a lease has looked for the session.
LEMMA PinnedStep ==
    ASSUME IInv, Balances, Pinned, [Next]_vars
    PROVE  Pinned'
  <1> SUFFICES ASSUME "disconnect" \notin May PROVE Pinned'
    BY DEF Pinned
  <1>1. ASSUME NEW w \in Workers, pc'[w] # "none", gpc'[w[1]] # "cleanup"
        PROVE  w[1] \in sess'
    <2>a. w[1] \in Gateways
      BY WorkerParts
    <2>b. ~GoDown(w[1]) /\ ~ForceCleanup(w[1])
      <3>1. GoDown(w[1]) => pc'[w] = "none"
        BY DEF GoDown, ForgetTasks
      <3>2. ForceCleanup(w[1]) => gpc'[w[1]] = "cleanup"
        BY <2>a DEF ForceCleanup, IInv, TypeOK, GatewayTypeOK
      <3> QED BY <1>1, <3>1, <3>2
    <2>1. CASE pc[w] # "none" /\ gpc[w[1]] # "cleanup"
      <3>1. w[1] \in sess /\ w \in Tasks(w[1])
        BY <2>1 DEF Pinned, Tasks
      <3> QED BY <2>1, <2>b, <3>1, SessionStays
    <2>2. CASE Scheduled(w)
      <3>1. CASE Created(w)
        <4>1. PICK r \in Requests : ReserveReply(r) /\ rpc[r] = "created" /\ w[1] = rgw[r]
          BY <3>1 DEF Created
        <4> QED BY <4>1 DEF Pinned, Reserving, ReserveReply
      <3>2. CASE CreatedUnkeyed(w)
        BY <3>2 DEF CreatedUnkeyed, Admit
      <3>3. CASE Recovered(w)
        BY <3>3 DEF Recovered, RecoverJob, Recoverable
      <3> QED BY <2>2, <3>1, <3>2, <3>3 DEF Scheduled
    <2>3. CASE pc[w] = "none" /\ ~Scheduled(w)
      <3>1. WorkerAct(w)
        BY <1>1, <2>3, <2>b, Locality DEF Same
      <3> QED BY <1>1, <2>3, <3>1, IdleStays
    <2>4. CASE pc[w] # "none" /\ gpc[w[1]] = "cleanup" /\ ~Scheduled(w)
      <3>1. GoDown(w[1])
        BY <1>1, <2>4, <2>a, CleanupEnds
      <3> QED BY <2>b, <3>1
    <2> QED BY <2>1, <2>2, <2>3, <2>4
  <1>2. ASSUME NEW r \in Requests, rpc'[r] \in Reserving
        PROVE  rgw'[r] \in sess'
    <2>1. CASE rpc[r] \in Reserving /\ rgw'[r] = rgw[r]
      <3>1. rgw[r] \in sess /\ r \in Provisional(rgw[r]) /\ gpc[rgw[r]] # "cleanup"
        BY <2>1 DEF Pinned, Provisional, IInv, Shape, RequestShape, RequestOK, InFlight
      <3>2. GoDown(rgw[r]) => rpc'[r] = "dead"
        BY <2>1 DEF GoDown, InFlight
      <3> QED BY <1>2, <2>1, <3>1, <3>2, SessionStays DEF Reserving
    <2>2. CASE \E j \in Jobs : Admit(r, j)
      BY <2>2 DEF Admit
    <2>3. CASE Unserved(r)
      BY <1>2, <2>1, <2>3 DEF Unserved, Reserving
    <2>4. CASE RequestStep(r) \/ RequestFails(r) \/ \E h \in Gateways : Submit(r, h)
      <3>1. CASE FindSubmission(r) \/ Refuse(r) \/ Reserve(r) \/ ReserveReply(r)
        BY <1>2, <2>1, <3>1 DEF FindSubmission, Refuse, Reserve, ReserveReply, Answer,
           Reserving, IInv, TypeOK, RequestTypeOK
      <3>2. CASE RequestFails(r) \/ \E h \in Gateways : Submit(r, h)
        BY <1>2, <3>2 DEF RequestFails, Submit, Answer, Reserving, IInv, TypeOK, RequestTypeOK
      <3> QED BY <2>2, <2>4, <3>1, <3>2 DEF RequestStep
    <2> QED BY <2>3, <2>4, RequestFrame
  <1> QED BY <1>1, <1>2 DEF Pinned

\* While clients do not close it, the session of an accepted job is there until
\* the job's task is over or force_cleanup takes the job's lease away: the idle
\* reaper (cleanup_expired_sessions) sees the lease from the ACK on.
THEOREM SessionsPinned == Spec => []SessionPinned
  <1>1. Init => Pinned
    BY DEF Init, Pinned, Reserving
  <1>2. Pinned => SessionPinned
    BY DEF Pinned, SessionPinned
  <1> QED BY <1>1, <1>2, BalanceInvariant, PinnedStep, PTL DEF Spec
============================================================================
