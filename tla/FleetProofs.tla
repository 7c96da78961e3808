----------------------------- MODULE FleetProofs -----------------------------
(***************************************************************************)
(* Proofs about FleetRuntime, for any tasks, coordinators, capacities and  *)
(* gate sizes and any finite number of calls under way.                    *)
(***************************************************************************)
EXTENDS FleetRuntime, FiniteSetTheorems, TLAPS

\* A call whose next request needs no mark: the lease is marked already.
Committed(i) ==
    call[i] # NoCall /\ (call[i].pc = "send" \/ (call[i].pc = "thread" /\ call[i].retry))

\* A lease token is drawn once, belongs to one lease at most, and a token with a
\* tombstone to none.
TokensUnique ==
    /\ \A t \in Tasks : lease[t] # NoRow =>
          lease[t].token <= drawn /\ tombs[lease[t].token] = "none"
    /\ \A t, u \in Tasks : lease[t] # NoRow /\ lease[u] # NoRow
                           /\ lease[t].token = lease[u].token => t = u
    /\ \A k \in LeaseTokens : tombs[k] # "none" => k <= drawn
    /\ \A k \in dispatched : k <= drawn
    /\ \A i \in Calls : call[i] # NoCall => call[i].k <= drawn

\* The token k is past its mark, or belongs to a lease of an older schema.
Marked(k) ==
    /\ tombs[k] # "never_dispatched"
    /\ \A t \in Tasks : Holds(t, k) => lease[t].submit_state # "never_attempted"

\* No request goes out under a token that is not marked.
DispatchMarked ==
    /\ \A k \in dispatched : Marked(k)
    /\ \A i \in Calls : Committed(i) => Marked(call[i].k)

\* The task has ended, or holds a lease that only an end can take away.
Occupied(t) ==
    outcome[t] # NoRow
    \/ (lease[t] # NoRow /\ lease[t].submit_state # "never_attempted")

\* A task with a request or a job anywhere is occupied.
WorkOccupies ==
    /\ \A i \in Calls : Committed(i) => Occupied(call[i].t)
    /\ \A j \in wire : Occupied(j[1])
    /\ \A j \in KeyedJobs : job[j] # "none" => Occupied(j[1])

\* The attempt that the file of a task names.
Names(t, a) == attempt[t] # NoRow /\ attempt[t].id = a

\* Every request and every job of a task carry the attempt of its file.
OneAttempt ==
    /\ \A i \in Calls : call[i] # NoCall /\ call[i].pc \in {"mark", "send", "wait", "record", "await", "bind"}
                          => Names(call[i].t, call[i].a)
    /\ \A j \in wire : Names(j[1], j[2])
    /\ \A j \in KeyedJobs : job[j] # "none" => Names(j[1], j[2])

\* What an observer of this process was told was heard; and so was the end of a
\* job that a watcher or a call takes for accounted.
ToldHeard ==
    /\ \A c \in Coordinators : told[c] \subseteq heard
    /\ \A c \in Coordinators, j \in KeyedJobs : watch[c][j] = "accounted" => j \in heard
    /\ \A i \in Calls : call[i] # NoCall /\ call[i].how = "accounted"
                          => call[i].pc = "bind" /\ JobOf(i) \in heard

IInv ==
    /\ TypeOK /\ WithinCapacity /\ TokensUnique /\ DispatchMarked
    /\ WorkOccupies /\ OneAttempt /\ ToldHeard /\ ReleasedWhenEnded

----------------------------------------------------------------------------
(* Types *)

CallsTypeOK == call \in [Calls -> CallStates \cup {NoCall}]

PermitsOK ==
    /\ permits \in [Coordinators -> 0 .. GateSize]
    /\ \A c \in Coordinators : permits[c] + Cardinality(Threads(c)) = GateSize

PCs == {"thread", "mark", "send", "wait", "record", "await", "bind", "undo", "local"}
ThreadPCs == {"thread", "mark", "send", "wait", "record", "await"}

\* A call that is somewhere is a call record.
LEMMA CallAt ==
  ASSUME CallsTypeOK, NEW i \in Calls
  PROVE  /\ call[i] # NoCall <=> call[i].pc \in PCs
         /\ call[i] # NoCall => /\ call[i] \in CallStates
                                /\ call[i].c \in Coordinators /\ call[i].t \in Tasks
                                /\ call[i].k \in LeaseTokens
                                /\ call[i].a \in Attempts \cup {NoRow}
                                /\ call[i].retry \in BOOLEAN
                                /\ call[i].how \in Callers \cup {"accounted"}
BY DEF CallsTypeOK, CallStates, NoCall, PCs

\* A call that moves keeps what it holds, and the other calls stay where they are.
LEMMA GotoCall ==
  ASSUME CallsTypeOK, NEW i \in Calls, call[i] # NoCall, NEW pc \in PCs, Goto(i, pc)
  PROVE  /\ CallsTypeOK'
         /\ call'[i] # NoCall /\ call'[i].pc = pc
         /\ call'[i].c = call[i].c /\ call'[i].t = call[i].t /\ call'[i].k = call[i].k
         /\ call'[i].a = call[i].a /\ call'[i].retry = call[i].retry
         /\ call'[i].how = call[i].how
         /\ \A n \in Calls : n # i => call'[n] = call[n]
BY DEF CallsTypeOK, CallStates, NoCall, PCs, Goto

\* A call that returns is gone, and the other calls stay where they are.
LEMMA ReturnCall ==
  ASSUME CallsTypeOK, NEW i \in Calls, Return(i)
  PROVE  /\ CallsTypeOK' /\ call'[i] = NoCall
         /\ \A n \in Calls : n # i => call'[n] = call[n]
BY DEF CallsTypeOK, Return

\* The threads of a coordinator are finitely many.
LEMMA ThreadsFinite ==
  ASSUME NEW c
  PROVE  IsFiniteSet(Threads(c)) /\ Cardinality(Threads(c)) \in Nat
<1>1. Threads(c) \in SUBSET Calls
  BY DEF Threads
<1>2. IsFiniteSet(Threads(c))
  BY <1>1, FleetRuntimeAssumption, FS_Subset
<1> QED BY <1>2, FS_CardinalityType

\* A thread that ends gives its permit back.
LEMMA ThreadEnds ==
  ASSUME CallsTypeOK, PermitsOK, NEW i \in Calls,
         call[i] # NoCall, call[i].pc \in ThreadPCs,
         call'[i] = NoCall \/ call'[i].pc \notin ThreadPCs,
         \A n \in Calls : n # i => call'[n] = call[n],
         permits' = [permits EXCEPT ![call[i].c] = @ + 1]
  PROVE  PermitsOK'
<1>0. PICK d \in Coordinators : d = call[i].c
  BY CallAt
<1>1. i \in Threads(d) /\ Threads(d)' = Threads(d) \ {i}
  BY <1>0 DEF Threads, ThreadPCs
<1>2. \A c \in Coordinators : c # d => Threads(c)' = Threads(c)
  BY <1>0 DEF Threads, ThreadPCs
<1>3. IsFiniteSet(Threads(d)) /\ Cardinality(Threads(d)) \in Nat
  BY ThreadsFinite
<1>4. Cardinality(Threads(d)') = Cardinality(Threads(d)) - 1 /\ Cardinality(Threads(d)') \in Nat
  <2>1. Cardinality(Threads(d) \ {i}) = Cardinality(Threads(d)) - 1
    BY <1>1, <1>3, FS_RemoveElement
  <2>2. IsFiniteSet(Threads(d) \ {i})
    BY <1>3, FS_Subset
  <2>3. Cardinality(Threads(d) \ {i}) \in Nat
    BY <2>2, FS_CardinalityType
  <2> QED BY <1>1, <2>1, <2>3
<1>5. permits'[d] = permits[d] + 1 /\ \A c \in Coordinators : c # d => permits'[c] = permits[c]
  BY <1>0 DEF PermitsOK
<1>6. permits[d] + Cardinality(Threads(d)) = GateSize /\ permits[d] \in Nat
  BY <1>0 DEF PermitsOK
<1>7. permits'[d] \in 0 .. GateSize /\ permits'[d] + Cardinality(Threads(d)') = GateSize
  BY <1>3, <1>4, <1>5, <1>6, FleetRuntimeAssumption
<1>8. permits' \in [Coordinators -> 0 .. GateSize]
  BY <1>0, <1>5, <1>7 DEF PermitsOK
<1> QED BY <1>2, <1>5, <1>7, <1>8 DEF PermitsOK

\* A step that starts and ends no thread keeps the permits.
LEMMA ThreadsKept ==
  ASSUME PermitsOK, UNCHANGED permits,
         \A n \in Calls :
            /\ (call'[n] # NoCall /\ call'[n].pc \in ThreadPCs) <=> (call[n] # NoCall /\ call[n].pc \in ThreadPCs)
            /\ call[n] # NoCall /\ call[n].pc \in ThreadPCs => call'[n].c = call[n].c
  PROVE  PermitsOK'
<1>1. \A c \in Coordinators : Threads(c)' = Threads(c)
  BY DEF Threads, ThreadPCs
<1> QED BY <1>1 DEF PermitsOK

\* The types of what is neither a table, a call nor a permit.
RestTypeOK ==
    /\ mode \in [Coordinators -> {"up", "closing", "down"}]
    /\ watch \in [Coordinators -> [KeyedJobs -> Watchers]]
    /\ told \in [Coordinators -> SUBSET KeyedJobs]
    /\ attempt \in [Tasks -> AttemptFiles \cup {NoRow}]
    /\ wire \subseteq KeyedJobs
    /\ job \in [KeyedJobs -> JobStates]
    /\ dispatched \subseteq LeaseTokens /\ heard \cup unheard \subseteq KeyedJobs

\* The type invariant, in the parts that the proofs use.
LEMMA TypeParts == TypeOK <=> TablesTypeOK /\ CallsTypeOK /\ PermitsOK /\ RestTypeOK
BY DEF TypeOK, CallsTypeOK, PermitsOK, RestTypeOK

\* The same in the next state.
LEMMA TypePartsNext == (TablesTypeOK /\ CallsTypeOK /\ PermitsOK /\ RestTypeOK)' => TypeOK'
BY DEF TypeOK, CallsTypeOK, PermitsOK, RestTypeOK

\* A task has no lease, or one with all its columns.
LEMMA LeaseRow ==
  ASSUME TablesTypeOK, NEW t \in Tasks
  PROVE  lease[t] # NoRow =>
           /\ lease[t] \in Leases /\ lease[t].token \in LeaseTokens
           /\ lease[t].submit_state \in SubmitStates
           /\ lease[t].job \in JobIds \cup {NoJob} /\ lease[t].seen \in SUBSET Parts
BY DEF TablesTypeOK, Leases

\* A row is written and the others stay.
LEMMA LeasePut ==
  ASSUME TablesTypeOK, NEW t \in Tasks, NEW x \in Leases \cup {NoRow},
         lease' = [lease EXCEPT ![t] = x]
  PROVE  /\ lease' \in [Tasks -> Leases \cup {NoRow}] /\ lease'[t] = x
         /\ \A u \in Tasks : u # t => lease'[u] = lease[u]
BY DEF TablesTypeOK

\* The transaction of bind_job.
LEMMA BindTables ==
  ASSUME TablesTypeOK, NEW t \in Tasks, NEW k, NEW j \in JobIds, lease[t] # NoRow, bind_job(t, k, j)
  PROVE  /\ TablesTypeOK'
         /\ lease'[t] # NoRow /\ lease'[t].token = lease[t].token
         /\ lease'[t].submit_state = lease[t].submit_state /\ lease'[t].job = j
         /\ \A u \in Tasks : u # t => lease'[u] = lease[u]
<1> DEFINE x == [lease[t] EXCEPT !.job = j, !.seen = Parts]
<1>1. lease[t] # NoRow /\ lease[t] \in Leases
  BY LeaseRow DEF bind_job, Holds
<1>2. lease' = [lease EXCEPT ![t] = x]
  BY DEF bind_job, TablesTypeOK
<1>3. x \in Leases /\ x.token = lease[t].token /\ x.submit_state = lease[t].submit_state /\ x.job = j
  BY <1>1 DEF Leases, SubmitStates
<1> HIDE DEF x
<1>4. x # NoRow
  BY <1>3, FleetStateAssumption
<1>5. /\ lease' \in [Tasks -> Leases \cup {NoRow}] /\ lease'[t] = x
      /\ \A u \in Tasks : u # t => lease'[u] = lease[u]
  BY <1>2, <1>3, LeasePut
<1> QED BY <1>3, <1>4, <1>5 DEF TablesTypeOK, bind_job

\* The transaction of mark_submit_attempted.
LEMMA MarkTables ==
  ASSUME TablesTypeOK, NEW t \in Tasks, NEW k, lease[t] # NoRow, mark_submit_attempted(t, k)
  PROVE  /\ TablesTypeOK'
         /\ lease'[t] # NoRow /\ lease'[t].token = lease[t].token
         /\ lease'[t].submit_state = "attempted" /\ lease'[t].job = lease[t].job
         /\ \A u \in Tasks : u # t => lease'[u] = lease[u]
<1> DEFINE x == [lease[t] EXCEPT !.submit_state = "attempted", !.seen = Parts]
<1>1. lease[t] # NoRow /\ lease[t] \in Leases
  BY LeaseRow DEF mark_submit_attempted, Holds
<1>2. lease' = [lease EXCEPT ![t] = x]
  BY DEF mark_submit_attempted, TablesTypeOK
<1>3. x \in Leases /\ x.token = lease[t].token /\ x.submit_state = "attempted" /\ x.job = lease[t].job
  BY <1>1 DEF Leases, SubmitStates
<1> HIDE DEF x
<1>4. x # NoRow
  BY <1>3, FleetStateAssumption
<1>5. /\ lease' \in [Tasks -> Leases \cup {NoRow}] /\ lease'[t] = x
      /\ \A u \in Tasks : u # t => lease'[u] = lease[u]
  BY <1>2, <1>3, LeasePut
<1> QED BY <1>3, <1>4, <1>5 DEF TablesTypeOK, mark_submit_attempted

\* The transaction of heartbeat.
LEMMA HeartbeatTables ==
  ASSUME TablesTypeOK, NEW t \in Tasks, NEW k, heartbeat(t, k)
  PROVE  /\ TablesTypeOK'
         /\ lease'[t] # NoRow /\ lease'[t].token = lease[t].token
         /\ lease'[t].submit_state = lease[t].submit_state /\ lease'[t].job = lease[t].job
         /\ \A u \in Tasks : u # t => lease'[u] = lease[u]
<1> DEFINE x == [lease[t] EXCEPT !.seen = Parts]
<1>1. lease[t] # NoRow /\ lease[t] \in Leases
  BY LeaseRow DEF heartbeat, Holds
<1>2. lease' = [lease EXCEPT ![t] = x]
  BY DEF heartbeat, TablesTypeOK
<1>3. x \in Leases /\ x.token = lease[t].token /\ x.submit_state = lease[t].submit_state /\ x.job = lease[t].job
  BY <1>1 DEF Leases, SubmitStates
<1> HIDE DEF x
<1>4. x # NoRow
  BY <1>3, FleetStateAssumption
<1>5. /\ lease' \in [Tasks -> Leases \cup {NoRow}] /\ lease'[t] = x
      /\ \A u \in Tasks : u # t => lease'[u] = lease[u]
  BY <1>2, <1>3, LeasePut
<1> QED BY <1>3, <1>4, <1>5 DEF TablesTypeOK, heartbeat

\* A process is replaced: only what the leases have seen changes.
LEMMA ReplacedTables ==
  ASSUME TablesTypeOK, NEW p, lease' = Replaced(p), UNCHANGED <<capacity, outcome, tombs, drawn>>
  PROVE  /\ TablesTypeOK'
         /\ \A t \in Tasks :
              /\ lease'[t] = NoRow <=> lease[t] = NoRow
              /\ lease[t] # NoRow => /\ lease'[t].token = lease[t].token
                                     /\ lease'[t].submit_state = lease[t].submit_state
                                     /\ lease'[t].job = lease[t].job
<1>1. ASSUME NEW t \in Tasks
      PROVE  /\ lease'[t] \in Leases \cup {NoRow}
             /\ lease'[t] = NoRow <=> lease[t] = NoRow
             /\ lease[t] # NoRow => /\ lease'[t].token = lease[t].token
                                    /\ lease'[t].submit_state = lease[t].submit_state
                                    /\ lease'[t].job = lease[t].job
  <2>1. CASE lease'[t] = lease[t]
    BY <2>1 DEF TablesTypeOK
  <2>2. CASE lease[t] # NoRow /\ lease'[t] = [lease[t] EXCEPT !.seen = @ \ {p}]
    <3>1. lease[t] \in Leases
      BY <2>2, LeaseRow
    <3>2. lease'[t] \in Leases
      BY <2>2, <3>1 DEF Leases
    <3> QED BY <2>2, <3>1, <3>2, FleetStateAssumption DEF Leases
  <2> QED BY <2>1, <2>2 DEF Replaced
<1>2. lease' \in [Tasks -> Leases \cup {NoRow}]
  BY <1>1 DEF Replaced
<1> QED BY <1>1, <1>2 DEF TablesTypeOK

\* The transaction of acquire_slot: a lease with a fresh token in a free slot, or
\* no lease at all.
LEMMA AcquireTables ==
  ASSUME TablesTypeOK, NEW t \in Tasks, NEW asked \in Capacities, acquire_slot(t, asked)
  PROVE  /\ TablesTypeOK' /\ UNCHANGED <<outcome, tombs>>
         /\ \/ /\ Admission(t, asked) = "admitted"
               /\ lease[t] = NoRow /\ outcome[t] = NoRow /\ ~(Cardinality(Active) >= asked)
               /\ drawn' = drawn + 1 /\ lease'[t] # NoRow /\ lease'[t].token = drawn + 1
               /\ lease'[t].submit_state = "never_attempted"
               /\ \A u \in Tasks : u # t => lease'[u] = lease[u]
            \/ /\ Admission(t, asked) # "admitted"
               /\ Admission(t, asked) = "existing" => lease[t] # NoRow
               /\ UNCHANGED <<lease, drawn>>
<1>0. PoolCapacity(asked) \in Capacities
  BY DEF PoolCapacity, TablesTypeOK
<1>1. capacity' \in Capacities \cup {0} /\ UNCHANGED <<outcome, tombs>>
  BY <1>0 DEF acquire_slot, TablesTypeOK
<1>2. CASE Admission(t, asked) = "admitted"
  <2>1. /\ lease[t] = NoRow /\ outcome[t] = NoRow
        /\ PoolCapacity(asked) = asked /\ ~PoolFull(asked)
    BY <1>2 DEF Admission
  <2>2. /\ drawn < MaxTokens /\ lease' = [lease EXCEPT ![t] = NewLease] /\ drawn' = drawn + 1
    BY <1>2 DEF acquire_slot
  <2>3. drawn + 1 \in LeaseTokens /\ drawn' \in 0 .. MaxTokens
    BY <2>2, FleetStateAssumption DEF TablesTypeOK, LeaseTokens
  <2>4. /\ NewLease \in Leases /\ NewLease.token = drawn + 1
        /\ NewLease.submit_state = "never_attempted"
    BY <2>3 DEF NewLease, Leases, SubmitStates
  <2>5. NewLease # NoRow
    BY <2>4, FleetStateAssumption
  <2>6. /\ lease' \in [Tasks -> Leases \cup {NoRow}] /\ lease'[t] = NewLease
        /\ \A u \in Tasks : u # t => lease'[u] = lease[u]
    BY <2>2, <2>4, LeasePut
  <2> QED BY <1>1, <1>2, <2>1, <2>2, <2>3, <2>4, <2>5, <2>6 DEF TablesTypeOK, PoolFull
<1>3. CASE Admission(t, asked) # "admitted"
  <2>1. UNCHANGED <<lease, drawn>>
    BY <1>3 DEF acquire_slot
  <2>2. Admission(t, asked) = "existing" => lease[t] # NoRow
    BY DEF Admission
  <2> QED BY <1>1, <1>3, <2>1, <2>2 DEF TablesTypeOK
<1> QED BY <1>2, <1>3

\* The lease of a task is given back, with or without an outcome or a tombstone.
LEMMA FreedTables ==
  ASSUME TablesTypeOK, NEW t \in Tasks, lease' = [lease EXCEPT ![t] = NoRow],
         UNCHANGED <<capacity, drawn>>,
         outcome' = outcome \/ \E x \in Outcomes : outcome' = [outcome EXCEPT ![t] = x],
         tombs' = tombs \/ \E k \in LeaseTokens, r \in TombReasons : tombs' = [tombs EXCEPT ![k] = r]
  PROVE  /\ TablesTypeOK' /\ lease'[t] = NoRow /\ \A u \in Tasks : u # t => lease'[u] = lease[u]
<1>1. /\ lease' \in [Tasks -> Leases \cup {NoRow}] /\ lease'[t] = NoRow
      /\ \A u \in Tasks : u # t => lease'[u] = lease[u]
  BY LeasePut
<1>2. outcome' \in [Tasks -> Outcomes \cup {NoRow}]
  BY DEF TablesTypeOK
<1>3. tombs' \in [LeaseTokens -> TombReasons]
  BY DEF TablesTypeOK
<1> QED BY <1>1, <1>2, <1>3 DEF TablesTypeOK

----------------------------------------------------------------------------
(* What the kinds of steps do to the invariant *)

\* The leases are finitely many.
LEMMA ActiveFinite == IsFiniteSet(Active) /\ Cardinality(Active) \in Nat
<1>1. Active \in SUBSET Tasks
  BY DEF Active
<1>2. IsFiniteSet(Active)
  BY <1>1, FleetStateAssumption, FS_Subset
<1> QED BY <1>2, FS_CardinalityType

\* A step that admits nothing stays within the capacity.
LEMMA NoAdmission ==
  ASSUME WithinCapacity, \A t \in Tasks : lease[t] = NoRow => lease'[t] = NoRow
  PROVE  WithinCapacity'
<1>1. Active' \subseteq Active
  BY DEF Active
<1>2. IsFiniteSet(Active) /\ Cardinality(Active) \in Nat
  BY ActiveFinite
<1>3. IsFiniteSet(Active') /\ Cardinality(Active') <= Cardinality(Active)
  BY <1>1, <1>2, FS_Subset
<1>4. Cardinality(Active') \in Nat
  BY <1>3, FS_CardinalityType
<1>5. PICK c \in Coordinators : Cardinality(Active) <= Capacity[c]
  BY DEF WithinCapacity
<1>6. Capacity[c] \in Nat
  BY FleetStateAssumption, FleetRuntimeAssumption
<1>7. Cardinality(Active') <= Capacity[c]
  BY <1>2, <1>3, <1>4, <1>5, <1>6
<1> QED BY <1>7 DEF WithinCapacity

\* Rows keep their tokens and are never unmarked.
RowsKept ==
    \A t \in Tasks :
       /\ lease'[t] = NoRow <=> lease[t] = NoRow
       /\ lease[t] # NoRow =>
            /\ lease'[t].token = lease[t].token
            /\ lease'[t].submit_state = "never_attempted" => lease[t].submit_state = "never_attempted"

\* No call starts; one that moves keeps its task and token, and is committed only
\* when it was or its row is marked; past the thread it carries the attempt of
\* the file.
CallsGoOn ==
    \A n \in Calls : call'[n] # NoCall =>
       /\ call[n] # NoCall /\ call'[n].t = call[n].t /\ call'[n].k = call[n].k
       /\ Committed(n)' =>
            \/ Committed(n)
            \/ /\ lease'[call[n].t] # NoRow /\ lease'[call[n].t].token = call[n].k
               /\ lease'[call[n].t].submit_state # "never_attempted"
       /\ call'[n].pc \in {"mark", "send", "wait", "record", "await", "bind"} => Names(call[n].t, call[n].a)'
       /\ call'[n].how = "accounted" => call'[n].pc = "bind" /\ JobOf(n)' \in heard'

\* A file keeps the attempt it names.
FilesKept == \A t \in Tasks : attempt[t] # NoRow => attempt'[t] # NoRow /\ attempt'[t].id = attempt[t].id

\* A job comes from a request, and does not come back from its end.
JobsGoOn ==
    \A j \in KeyedJobs : /\ job'[j] # "none" => job[j] # "none" \/ j \in wire
                         /\ Ended(j) => Ended(j)'

\* A watcher is accounted only when the end of its job was heard.
WatchKept ==
    \A c \in Coordinators, j \in KeyedJobs : watch'[c][j] = "accounted" => j \in heard'

\* Observers forget nothing that was heard.
HeardKept ==
    /\ heard \subseteq heard' /\ unheard \subseteq unheard' /\ WatchKept
    /\ \A c \in Coordinators : told'[c] \subseteq heard'

\* Watchers that stay as they are.
LEMMA WatchSame == IInv /\ UNCHANGED <<watch, heard>> => WatchKept
BY DEF IInv, ToldHeard, WatchKept

\* A step of which all that is true, and that neither frees a slot nor sends a
\* request, keeps the invariant.
LEMMA QuietStep ==
  ASSUME IInv, TypeOK', UNCHANGED <<outcome, tombs, drawn, dispatched>>, wire' \subseteq wire,
         RowsKept, CallsGoOn, FilesKept, JobsGoOn, HeardKept
  PROVE  IInv'
<1>1. WithinCapacity'
  BY NoAdmission DEF IInv, RowsKept
<1>2. TokensUnique'
  BY DEF IInv, TokensUnique, RowsKept, CallsGoOn
<1>3. DispatchMarked'
  <2>1. ASSUME NEW k, Marked(k) PROVE Marked(k)'
    BY <2>1 DEF Marked, Holds, RowsKept
  <2>2. ASSUME NEW n \in Calls, Committed(n)', NEW k, k = call'[n].k PROVE Marked(k)'
    <3>1. call'[n] # NoCall /\ call[n] # NoCall /\ k = call[n].k
      BY <2>2 DEF Committed, CallsGoOn
    <3>2. CASE Committed(n)
      <4>1. Marked(k)
        BY <3>1, <3>2 DEF IInv, DispatchMarked
      <4> QED BY <2>1, <4>1
    <3>3. CASE ~Committed(n)
      <4>1. PICK t \in Tasks : t = call[n].t
        BY <3>1, CallAt, TypeParts DEF IInv
      <4>2. /\ lease'[t] # NoRow /\ lease'[t].token = k
            /\ lease'[t].submit_state # "never_attempted"
        BY <2>2, <3>1, <3>3, <4>1 DEF CallsGoOn
      <4>3. \A u \in Tasks : lease'[u] # NoRow /\ lease'[u].token = k => u = t
        BY <1>2, <4>2 DEF TokensUnique
      <4>4. tombs'[k] = "none"
        BY <1>2, <4>2 DEF TokensUnique
      <4> QED BY <4>2, <4>3, <4>4 DEF Marked, Holds
    <3> QED BY <3>2, <3>3
  <2>3. \A k \in dispatched' : Marked(k)'
    BY <2>1 DEF IInv, DispatchMarked
  <2>4. \A n \in Calls : Committed(n)' => Marked(call[n].k)'
    BY <2>2 DEF Marked, Holds
  <2> QED BY <2>3, <2>4 DEF DispatchMarked
<1>4. WorkOccupies'
  <2>1. ASSUME NEW t \in Tasks, Occupied(t) PROVE Occupied(t)'
    BY <2>1 DEF Occupied, RowsKept
  <2>2. \A j \in KeyedJobs : j[1] \in Tasks
    BY DEF KeyedJobs
  <2>3. ASSUME NEW n \in Calls, Committed(n)', NEW t, t = call'[n].t PROVE Occupied(t)'
    <3>1. call'[n] # NoCall /\ call[n] # NoCall /\ t = call[n].t
      BY <2>3 DEF Committed, CallsGoOn
    <3>2. t \in Tasks
      BY <3>1, CallAt, TypeParts DEF IInv
    <3>3. CASE Committed(n)
      <4>1. Occupied(t)
        BY <3>1, <3>3 DEF IInv, WorkOccupies
      <4> QED BY <2>1, <3>2, <4>1
    <3>4. CASE ~Committed(n)
      BY <2>3, <3>1, <3>4 DEF CallsGoOn, Occupied
    <3> QED BY <3>3, <3>4
  <2>4. \A n \in Calls : Committed(n)' => Occupied(call[n].t)'
    BY <2>3 DEF Occupied
  <2>5. wire \subseteq KeyedJobs
    BY DEF IInv, TypeOK
  <2>6. \A j \in wire' : Occupied(j[1])'
    BY <2>1, <2>2, <2>5 DEF IInv, WorkOccupies
  <2>7. \A j \in KeyedJobs : job'[j] # "none" => Occupied(j[1])'
    BY <2>1, <2>2 DEF IInv, WorkOccupies, JobsGoOn
  <2> QED BY <2>4, <2>6, <2>7 DEF WorkOccupies
<1>5. OneAttempt'
  <2>1. \A j \in KeyedJobs : j[1] \in Tasks
    BY DEF KeyedJobs
  <2>2. \A j \in KeyedJobs : Names(j[1], j[2]) => Names(j[1], j[2])'
    BY <2>1 DEF Names, FilesKept
  <2>3. \A j \in wire : j \in KeyedJobs
    BY DEF IInv, TypeOK
  <2> QED BY <2>2, <2>3 DEF IInv, OneAttempt, CallsGoOn, JobsGoOn
<1>6. ToldHeard'
  BY DEF ToldHeard, HeardKept, WatchKept, CallsGoOn
<1>7. ReleasedWhenEnded'
  <2>1. \A t \in Tasks : outcome[t] # NoRow => outcome[t].job \in JobIds \cup {NoJob}
    BY DEF IInv, TypeOK, TablesTypeOK, Outcomes
  <2> QED BY <2>1, FleetRuntimeAssumption DEF IInv, ReleasedWhenEnded, JobsGoOn, HeardKept
<1> QED BY <1>1, <1>2, <1>3, <1>4, <1>5, <1>6, <1>7 DEF IInv

\* A slot is freed because its lease was never marked, or with an outcome.
FreesUnmarked(t) ==
    /\ lease[t].submit_state = "never_attempted" /\ UNCHANGED outcome
    /\ tombs' = [tombs EXCEPT ![lease[t].token] = "never_dispatched"]

FreesEnded(t) ==
    /\ tombs' = tombs \/ tombs' = [tombs EXCEPT ![lease[t].token] = "plane_replaced"]
    /\ outcome'[t] # NoRow /\ \A u \in Tasks : u # t => outcome'[u] = outcome[u]
    /\ outcome'[t].status # "error" /\ outcome'[t].job # NoJob =>
         Ended(outcome'[t].job) /\ outcome'[t].job \in heard \cup unheard'

\* A step that frees a slot in one of the two ways keeps the invariant.
LEMMA FreeStep ==
  ASSUME IInv, TypeOK', NEW t \in Tasks, lease[t] # NoRow, lease'[t] = NoRow,
         \A u \in Tasks : u # t => lease'[u] = lease[u],
         FreesUnmarked(t) \/ FreesEnded(t),
         \A n \in Calls : call'[n] = NoCall \/ call'[n] = call[n],
         UNCHANGED <<drawn, dispatched, wire, job, attempt, heard, told>>,
         unheard \subseteq unheard', WatchKept
  PROVE  IInv'
<1>0. PICK k \in LeaseTokens : k = lease[t].token
  BY LeaseRow, TypeParts DEF IInv
<1>a. tombs \in [LeaseTokens -> TombReasons] /\ tombs' \in [LeaseTokens -> TombReasons]
  BY DEF IInv, TypeOK, TablesTypeOK
<1>b. \A x \in LeaseTokens : x # k => tombs'[x] = tombs[x]
  BY <1>0, <1>a DEF FreesUnmarked, FreesEnded
<1>c. \A n \in Calls : call'[n] # NoCall => call'[n] = call[n] /\ call[n] # NoCall
  OBVIOUS
<1>1. WithinCapacity'
  BY NoAdmission DEF IInv
<1>2. TokensUnique'
  <2>1. \A u \in Tasks : lease'[u] # NoRow => u # t /\ lease[u] # NoRow /\ lease'[u] = lease[u]
    OBVIOUS
  <2>2. \A u \in Tasks : lease'[u] # NoRow =>
          lease'[u].token # k /\ lease'[u].token \in LeaseTokens
    BY <1>0, <2>1, LeaseRow, TypeParts DEF IInv, TokensUnique
  <2>3. k <= drawn
    BY <1>0 DEF IInv, TokensUnique
  <2> QED BY <1>b, <1>c, <2>1, <2>2, <2>3 DEF IInv, TokensUnique
<1>3. DispatchMarked'
  <2>1. ASSUME NEW x \in LeaseTokens, Marked(x) PROVE Marked(x)'
    <3>1. \A u \in Tasks : Holds(u, x)' => Holds(u, x) /\ lease'[u] = lease[u]
      BY DEF Holds
    <3>2. tombs'[x] # "never_dispatched"
      <4>1. CASE x # k
        BY <2>1, <4>1, <1>b DEF Marked
      <4>2. CASE x = k /\ FreesEnded(t)
        BY <2>1, <4>2, <1>0, <1>a DEF FreesEnded, Marked
      <4>3. ~(x = k /\ FreesUnmarked(t))
        BY <2>1, <1>0 DEF FreesUnmarked, Marked, Holds
      <4> QED BY <4>1, <4>2, <4>3
    <3> QED BY <2>1, <3>1, <3>2 DEF Marked
  <2>2. \A x \in dispatched : x \in LeaseTokens
    BY DEF IInv, TypeOK
  <2>3. \A x \in dispatched' : Marked(x)'
    BY <2>1, <2>2 DEF IInv, DispatchMarked
  <2>4. ASSUME NEW n \in Calls, Committed(n)', NEW x, x = call'[n].k PROVE Marked(x)'
    <3>1. Committed(n) /\ call'[n] = call[n]
      BY <2>4, <1>c DEF Committed
    <3>2. Marked(x)
      BY <2>4, <3>1 DEF IInv, DispatchMarked
    <3>3. x \in LeaseTokens
      BY <2>4, <3>1, CallAt, TypeParts DEF IInv, Committed
    <3> QED BY <2>1, <3>2, <3>3
  <2>5. \A n \in Calls : Committed(n)' => Marked(call[n].k)'
    BY <2>4 DEF Marked, Holds
  <2> QED BY <2>3, <2>5 DEF DispatchMarked
<1>4. WorkOccupies'
  <2>1. ASSUME NEW u \in Tasks, Occupied(u), FreesUnmarked(t) => u # t \/ outcome[u] # NoRow
        PROVE Occupied(u)'
    BY <2>1 DEF Occupied, FreesUnmarked, FreesEnded
  <2>2. FreesUnmarked(t) /\ Occupied(t) => outcome[t] # NoRow
    BY DEF FreesUnmarked, Occupied
  <2>3. \A u \in Tasks : Occupied(u) => Occupied(u)'
    BY <2>1, <2>2
  <2>4. \A j \in KeyedJobs : j[1] \in Tasks
    BY DEF KeyedJobs
  <2>5. ASSUME NEW n \in Calls, Committed(n)', NEW u, u = call'[n].t PROVE Occupied(u)'
    <3>1. Committed(n) /\ call'[n] = call[n]
      BY <2>5, <1>c DEF Committed
    <3>2. Occupied(u)
      BY <2>5, <3>1 DEF IInv, WorkOccupies
    <3>3. u \in Tasks
      BY <2>5, <3>1, CallAt, TypeParts DEF IInv, Committed
    <3> QED BY <2>3, <3>2, <3>3
  <2>6. \A n \in Calls : Committed(n)' => Occupied(call[n].t)'
    BY <2>5 DEF Occupied
  <2>7. wire \subseteq KeyedJobs
    BY DEF IInv, TypeOK
  <2>8. \A j \in wire' : Occupied(j[1])'
    BY <2>3, <2>4, <2>7 DEF IInv, WorkOccupies
  <2>9. \A j \in KeyedJobs : job'[j] # "none" => Occupied(j[1])'
    BY <2>3, <2>4 DEF IInv, WorkOccupies
  <2> QED BY <2>6, <2>8, <2>9 DEF WorkOccupies
<1>5. OneAttempt'
  BY <1>c DEF IInv, OneAttempt, Names
<1>6. ToldHeard'
  BY <1>c DEF IInv, ToldHeard, WatchKept, JobOf
<1>7. ReleasedWhenEnded'
  BY DEF IInv, ReleasedWhenEnded, FreesUnmarked, FreesEnded, Ended
<1> QED BY <1>1, <1>2, <1>3, <1>4, <1>5, <1>6, <1>7 DEF IInv

----------------------------------------------------------------------------
(* The actions *)

\* A fresh pool, or one with a lease of an older schema.
LEMMA InitInv == Init => IInv
<1> SUFFICES ASSUME Init PROVE IInv
  OBVIOUS
<1>a. 1 \in LeaseTokens
  BY FleetStateAssumption DEF LeaseTokens
<1>b. /\ LegacyLease \in Leases /\ LegacyLease.token = 1
      /\ LegacyLease.submit_state = "legacy_unknown"
  BY <1>a DEF LegacyLease, Leases, SubmitStates
<1>c. \A i \in Calls : call[i] = NoCall
  BY DEF Init
<1>1. TablesTypeOK
  BY <1>b, FleetStateAssumption DEF Init, TablesInit, TablesTypeOK, TombReasons
<1>2. CallsTypeOK
  BY DEF Init, CallsTypeOK
<1>3. PermitsOK
  <2>1. \A c \in Coordinators : Threads(c) = {}
    BY <1>c DEF Threads
  <2>2. Cardinality({}) = 0
    BY FS_EmptySet
  <2>3. \A c \in Coordinators : Cardinality(Threads(c)) = 0
    BY <2>1, <2>2
  <2>4. permits \in [Coordinators -> 0 .. GateSize] /\ \A c \in Coordinators : permits[c] = GateSize
    BY FleetRuntimeAssumption DEF Init
  <2> QED BY <2>3, <2>4, FleetRuntimeAssumption DEF PermitsOK
<1>4. RestTypeOK
  BY DEF Init, RestTypeOK, JobStates, NoWatchers, Watchers
<1>5. TypeOK
  BY <1>1, <1>2, <1>3, <1>4, TypeParts
<1>6. WithinCapacity
  <2>1. PICK c \in Coordinators : TRUE
    BY FleetRuntimeAssumption
  <2>2. Capacity[c] \in Nat /\ Capacity[c] # 0
    BY FleetRuntimeAssumption, FleetStateAssumption
  <2>3. Active = {} \/ \E old \in Tasks : Active = {old}
    BY <1>b, FleetStateAssumption DEF Init, TablesInit, Active
  <2>4. Cardinality(Active) = 0 \/ Cardinality(Active) = 1
    BY <2>3, FS_EmptySet, FS_Singleton
  <2> QED BY <2>2, <2>4 DEF WithinCapacity
<1>7. TokensUnique
  BY <1>a, <1>b, <1>c DEF Init, TablesInit, TokensUnique
<1>8. DispatchMarked /\ WorkOccupies /\ OneAttempt
  BY <1>c DEF Init, DispatchMarked, WorkOccupies, OneAttempt, Committed
<1>9. ToldHeard /\ ReleasedWhenEnded
  BY DEF Init, TablesInit, ToldHeard, ReleasedWhenEnded, NoWatchers
<1> QED BY <1>5, <1>6, <1>7, <1>8, <1>9 DEF IInv

\* A thread that starts takes a permit.
LEMMA ThreadStarts ==
  ASSUME PermitsOK, NEW i \in Calls, NEW c \in Coordinators, permits[c] > 0,
         call[i] = NoCall, call'[i] # NoCall, call'[i].pc \in ThreadPCs, call'[i].c = c,
         \A n \in Calls : n # i => call'[n] = call[n],
         permits' = [permits EXCEPT ![c] = @ - 1]
  PROVE  PermitsOK'
<1>1. i \notin Threads(c) /\ Threads(c)' = Threads(c) \cup {i}
  BY DEF Threads, ThreadPCs
<1>2. \A d \in Coordinators : d # c => Threads(d)' = Threads(d)
  BY DEF Threads, ThreadPCs
<1>3. IsFiniteSet(Threads(c)) /\ Cardinality(Threads(c)) \in Nat
  BY ThreadsFinite
<1>4. Cardinality(Threads(c)') = Cardinality(Threads(c)) + 1
  BY <1>1, <1>3, FS_AddElement
<1>5. permits'[c] = permits[c] - 1 /\ \A d \in Coordinators : d # c => permits'[d] = permits[d]
  BY DEF PermitsOK
<1>6. permits[c] + Cardinality(Threads(c)) = GateSize /\ permits[c] \in 0 .. GateSize
  BY DEF PermitsOK
<1>7. permits'[c] \in 0 .. GateSize /\ permits'[c] + Cardinality(Threads(c)') = GateSize
  BY <1>3, <1>4, <1>5, <1>6, FleetRuntimeAssumption
<1>8. permits' \in [Coordinators -> 0 .. GateSize]
  BY <1>5, <1>7 DEF PermitsOK
<1> QED BY <1>2, <1>5, <1>7, <1>8 DEF PermitsOK

\* The jobs that a watcher may be started for.
LEMMA TrackedType ==
  ASSUME RestTypeOK, NEW c \in Coordinators, NEW j \in KeyedJobs,
         NEW w \in Watchers \ {"none"}
  PROVE  /\ Tracked(c, j, w) \in [Coordinators -> [KeyedJobs -> Watchers]]
         /\ \A d \in Coordinators, x \in KeyedJobs :
              Tracked(c, j, w)[d][x] = watch[d][x] \/ (x = j /\ Tracked(c, j, w)[d][x] = w)
BY DEF RestTypeOK, Tracked

\* A watcher that is started as accounted watches a job that was heard of.
LEMMA TrackedKept ==
  ASSUME RestTypeOK, ToldHeard, NEW c \in Coordinators, NEW j \in KeyedJobs,
         NEW w \in Watchers \ {"none"}, watch' = Tracked(c, j, w), UNCHANGED heard,
         w = "accounted" => j \in heard
  PROVE  watch' \in [Coordinators -> [KeyedJobs -> Watchers]] /\ WatchKept
<1>1. /\ watch' \in [Coordinators -> [KeyedJobs -> Watchers]]
      /\ \A d \in Coordinators, x \in KeyedJobs :
           watch'[d][x] = watch[d][x] \/ (x = j /\ watch'[d][x] = w)
  BY TrackedType
<1> QED BY <1>1 DEF WatchKept, ToldHeard

\* No watcher is one of the things that a job may have.
LEMMA NoWatcher ==
  /\ NoWatchers \in [KeyedJobs -> Watchers]
  /\ \A j \in KeyedJobs : NoWatchers[j] # "accounted"
BY DEF NoWatchers, Watchers

\* A caller asks for a watcher with or without an observer.
LEMMA WatcherOfType ==
  ASSUME NEW how \in Callers \cup {"accounted"}
  PROVE  /\ WatcherOf(how) \in Watchers \ {"none"}
         /\ WatcherOf(how) = "accounted" => how = "accounted"
BY FleetRuntimeAssumption DEF WatcherOf, Watchers

\* A call that goes on to the thread holds the token of the task's lease, and
\* needs no mark exactly when that lease is marked.
Starts(i, c, t, how) ==
    /\ call' = [call EXCEPT ![i] =
         [pc |-> "thread", c |-> c, t |-> t, k |-> lease'[t].token,
          a |-> NoRow, retry |-> lease'[t].submit_state = "attempted", how |-> how]]
    /\ permits' = [permits EXCEPT ![c] = @ - 1]
    /\ lease'[t] # NoRow /\ UNCHANGED watch

\* The two ways in which the admission of a submit ends.
LEMMA AdmitCases ==
  ASSUME TypeOK, ToldHeard, NEW i \in Calls, NEW c \in Coordinators, NEW t \in Tasks,
         NEW how \in Callers, SubmitAdmit(i, c, t, how)
  PROVE  /\ acquire_slot(t, Capacity[c]) /\ Capacity[c] \in Capacities
         /\ \/ Starts(i, c, t, how)
            \/ /\ Admission(t, Capacity[c]) # "admitted"
               /\ UNCHANGED <<call, permits>>
               /\ watch' \in [Coordinators -> [KeyedJobs -> Watchers]] /\ WatchKept
<1>1. acquire_slot(t, Capacity[c]) /\ Capacity[c] \in Capacities /\ UNCHANGED heard
  BY FleetRuntimeAssumption DEF SubmitAdmit, ghosts
<1>2. TablesTypeOK /\ RestTypeOK
  BY TypeParts
<1>3. Admission(t, Capacity[c]) \in {"admitted", "existing"} => lease'[t] # NoRow
  BY <1>1, <1>2, AcquireTables
<1>4. CASE Admission(t, Capacity[c]) = "existing" /\ lease[t].job # NoJob
  <2>1. lease[t] # NoRow
    BY <1>4 DEF Admission
  <2>2. PICK j \in KeyedJobs : j = lease[t].job
    BY <1>2, <1>4, <2>1, LeaseRow, FleetRuntimeAssumption
  <2>3. PICK w \in Watchers \ {"none"} : w = WatcherOf(how) /\ w # "accounted"
    BY WatcherOfType, FleetRuntimeAssumption
  <2>4. watch' = Tracked(c, j, w) /\ UNCHANGED <<call, permits>>
    BY <1>4, <2>2, <2>3 DEF SubmitAdmit
  <2>5. watch' \in [Coordinators -> [KeyedJobs -> Watchers]] /\ WatchKept
    BY <1>1, <1>2, <2>3, <2>4, TrackedKept
  <2> QED BY <1>1, <1>4, <2>4, <2>5
<1>5. CASE ~(Admission(t, Capacity[c]) = "existing" /\ lease[t].job # NoJob)
  <2>1. \/ Starts(i, c, t, how)
        \/ Admission(t, Capacity[c]) # "admitted" /\ UNCHANGED <<call, permits, watch>>
    BY <1>3, <1>5 DEF SubmitAdmit, Starts
  <2> QED BY <1>1, <1>2, <2>1 DEF RestTypeOK, WatchKept, ToldHeard
<1> QED BY <1>4, <1>5

\* The new call, as it starts.
LEMMA StartedCall ==
  ASSUME TypeOK, TablesTypeOK', NEW i \in Calls, NEW c \in Coordinators, NEW t \in Tasks,
         NEW how \in Callers, Starts(i, c, t, how)
  PROVE  /\ CallsTypeOK' /\ call'[i] # NoCall /\ call'[i].pc = "thread"
         /\ call'[i].c = c /\ call'[i].t = t /\ call'[i].k = lease'[t].token
         /\ call'[i].retry = (lease'[t].submit_state = "attempted") /\ call'[i].how = how
         /\ \A n \in Calls : n # i => call'[n] = call[n]
<1> DEFINE new == [pc |-> "thread", c |-> c, t |-> t, k |-> lease'[t].token,
                   a |-> NoRow, retry |-> lease'[t].submit_state = "attempted", how |-> how]
<1>2. lease'[t].token \in LeaseTokens
  BY DEF TablesTypeOK, Leases, Starts
<1>3. new \in CallStates /\ new # NoCall
  BY <1>2 DEF CallStates, NoCall
<1>4. CallsTypeOK
  BY TypeParts
<1>5. call' = [call EXCEPT ![i] = new]
  BY DEF Starts
<1>6. /\ new.pc = "thread" /\ new.c = c /\ new.t = t /\ new.k = lease'[t].token
      /\ new.retry = (lease'[t].submit_state = "attempted") /\ new.how = how
  OBVIOUS
<1> HIDE DEF new
<1>7. call'[i] = new /\ CallsTypeOK' /\ \A n \in Calls : n # i => call'[n] = call[n]
  BY <1>3, <1>4, <1>5 DEF CallsTypeOK
<1> QED BY <1>3, <1>6, <1>7

\* An admission counts the leases under the lock of the pool and draws a fresh
\* token; a call that shares a lease holds its token (submit, acquire_slot).
LEMMA SubmitAdmitInv ==
  ASSUME IInv, NEW i \in Calls, NEW c \in Coordinators, NEW t \in Tasks,
         NEW how \in Callers, SubmitAdmit(i, c, t, how)
  PROVE  IInv'
<1>0. TypeOK /\ TablesTypeOK /\ CallsTypeOK /\ PermitsOK /\ RestTypeOK
  BY TypeParts DEF IInv
<1>1. /\ acquire_slot(t, Capacity[c]) /\ Capacity[c] \in Capacities
      /\ \/ Starts(i, c, t, how)
         \/ /\ Admission(t, Capacity[c]) # "admitted"
            /\ UNCHANGED <<call, permits>>
            /\ watch' \in [Coordinators -> [KeyedJobs -> Watchers]] /\ WatchKept
  BY <1>0, AdmitCases DEF IInv
<1>2. PICK cap \in Capacities : cap = Capacity[c]
  BY <1>1
<1>3. /\ TablesTypeOK' /\ UNCHANGED <<outcome, tombs>>
      /\ \/ /\ Admission(t, cap) = "admitted"
            /\ lease[t] = NoRow /\ outcome[t] = NoRow /\ ~(Cardinality(Active) >= cap)
            /\ drawn' = drawn + 1 /\ lease'[t] # NoRow /\ lease'[t].token = drawn + 1
            /\ lease'[t].submit_state = "never_attempted"
            /\ \A u \in Tasks : u # t => lease'[u] = lease[u]
         \/ /\ Admission(t, cap) # "admitted"
            /\ Admission(t, cap) = "existing" => lease[t] # NoRow
            /\ UNCHANGED <<lease, drawn>>
  BY <1>0, <1>1, <1>2, AcquireTables
<1>4. UNCHANGED <<mode, told, attempt, wire, job, dispatched, heard, unheard>>
  BY DEF SubmitAdmit, gatewayVars, ghosts
<1>5. mode[c] = "up" /\ call[i] = NoCall /\ permits[c] > 0
  BY DEF SubmitAdmit
<1>6. CASE Admission(t, cap) # "admitted" /\ UNCHANGED <<call, permits>>
                                         /\ watch' \in [Coordinators -> [KeyedJobs -> Watchers]] /\ WatchKept
  <2>1. CallsTypeOK' /\ PermitsOK' /\ RestTypeOK'
    BY <1>0, <1>4, <1>6, ThreadsKept DEF CallsTypeOK, RestTypeOK
  <2>2. TypeOK'
    BY <1>3, <2>1, TypePartsNext
  <2>3. UNCHANGED <<outcome, tombs, drawn, dispatched, lease>>
    BY <1>3, <1>4, <1>6
  <2>4. RowsKept /\ FilesKept /\ JobsGoOn
    BY <1>4, <2>3 DEF RowsKept, FilesKept, JobsGoOn, Ended
  <2>6. HeardKept
    BY <1>4, <1>6 DEF IInv, HeardKept, ToldHeard
  <2>5. CallsGoOn
    BY <1>4, <1>6, <2>3 DEF IInv, CallsGoOn, Committed, OneAttempt, Names, ToldHeard, JobOf
  <2> QED BY <1>4, <2>2, <2>3, <2>4, <2>5, <2>6, QuietStep
<1>7. CASE Starts(i, c, t, how)
  <2>1. /\ CallsTypeOK' /\ call'[i] # NoCall /\ call'[i].pc = "thread"
        /\ call'[i].c = c /\ call'[i].t = t /\ call'[i].k = lease'[t].token
        /\ call'[i].retry = (lease'[t].submit_state = "attempted") /\ call'[i].how = how
        /\ \A n \in Calls : n # i => call'[n] = call[n]
    BY <1>0, <1>3, <1>7, StartedCall
  <2>2. PermitsOK'
    BY <1>0, <1>5, <1>7, <2>1, ThreadStarts DEF Starts, ThreadPCs
  <2>3. RestTypeOK'
    BY <1>0, <1>4, <1>7 DEF RestTypeOK, Starts
  <2>4. TypeOK'
    BY <1>3, <2>1, <2>2, <2>3, TypePartsNext
  <2>5. /\ lease'[t] # NoRow /\ lease'[t].token \in LeaseTokens
        /\ \A u \in Tasks : lease[u] # NoRow => lease'[u] = lease[u]
        /\ \A u \in Tasks : u # t => lease'[u] = lease[u]
        /\ drawn' = drawn \/ (drawn' = drawn + 1 /\ lease[t] = NoRow /\ lease'[t].token = drawn')
        /\ lease[t] = NoRow => drawn' = drawn + 1 /\ lease'[t].token = drawn'
                               /\ Cardinality(Active) < cap
        /\ drawn \in Nat /\ drawn <= drawn'
    <3>1. drawn \in Nat
      BY <1>0 DEF TablesTypeOK
    <3>2. lease'[t] # NoRow /\ lease'[t].token \in LeaseTokens
      BY <1>3, <1>7 DEF Starts, TablesTypeOK, Leases
    <3>3. cap \in Nat /\ Cardinality(Active) \in Nat
      BY ActiveFinite, FleetStateAssumption
    <3> QED BY <1>3, <3>1, <3>2, <3>3
  <2>6. WithinCapacity'
    <3>1. CASE lease[t] # NoRow
      BY <2>5, <3>1, NoAdmission DEF IInv
    <3>2. CASE lease[t] = NoRow
      <4>1. Active' = Active \cup {t} /\ t \notin Active
        BY <2>5, <3>2 DEF Active
      <4>2. IsFiniteSet(Active) /\ Cardinality(Active) \in Nat
        BY ActiveFinite
      <4>3. Cardinality(Active') = Cardinality(Active) + 1
        BY <4>1, <4>2, FS_AddElement
      <4>4. cap \in Nat /\ Cardinality(Active) < cap
        BY <2>5, <3>2, FleetStateAssumption
      <4> QED BY <1>2, <4>2, <4>3, <4>4 DEF WithinCapacity
    <3> QED BY <3>1, <3>2
  <2>7. TokensUnique'
    <3>1. \A k \in LeaseTokens : k \in Nat
      BY DEF LeaseTokens
    <3>2. \A u \in Tasks : lease[u] # NoRow => lease[u].token \in LeaseTokens
      BY <1>0, LeaseRow
    <3>3. \A n \in Calls : call[n] # NoCall => call[n].k \in LeaseTokens
      BY <1>0, CallAt
    <3>4. \A k \in dispatched : k \in LeaseTokens
      BY <1>0 DEF RestTypeOK
    <3>5. lease[t] = NoRow => tombs[lease'[t].token] = "none"
      BY <2>5, <3>1 DEF IInv, TokensUnique
    <3>6. \A u \in Tasks : lease'[u] # NoRow =>
            lease'[u].token <= drawn' /\ tombs'[lease'[u].token] = "none"
      BY <1>3, <2>5, <3>1, <3>2, <3>5 DEF IInv, TokensUnique
    <3>7. \A u, w \in Tasks : lease'[u] # NoRow /\ lease'[w] # NoRow
                              /\ lease'[u].token = lease'[w].token => u = w
      BY <2>5, <3>1, <3>2 DEF IInv, TokensUnique
    <3>8. \A n \in Calls : call'[n] # NoCall => call'[n].k <= drawn'
      BY <2>1, <2>5, <3>1, <3>3, <3>6 DEF IInv, TokensUnique
    <3>9. /\ \A k \in LeaseTokens : tombs'[k] # "none" => k <= drawn'
          /\ \A k \in dispatched' : k <= drawn'
      BY <1>3, <1>4, <2>5, <3>1, <3>4 DEF IInv, TokensUnique
    <3> QED BY <3>6, <3>7, <3>8, <3>9 DEF TokensUnique
  <2>8. ASSUME NEW k \in LeaseTokens, k <= drawn, Marked(k) PROVE Marked(k)'
    BY <1>3, <2>5, <2>8 DEF Marked, Holds, LeaseTokens
  <2>9. DispatchMarked'
    <3>1. \A k \in dispatched' : Marked(k)'
      BY <1>0, <1>4, <2>8 DEF IInv, DispatchMarked, TokensUnique, RestTypeOK
    <3>2. ASSUME NEW n \in Calls, Committed(n)', NEW k, k = call'[n].k PROVE Marked(k)'
      <4>1. CASE n # i
        <5>1. Committed(n) /\ k = call[n].k
          BY <2>1, <3>2, <4>1 DEF Committed
        <5>2. k \in LeaseTokens /\ k <= drawn /\ Marked(k)
          BY <1>0, <5>1, CallAt DEF IInv, Committed, TokensUnique, DispatchMarked
        <5> QED BY <2>8, <5>2
      <4>2. CASE n = i
        <5>1. lease'[t].submit_state = "attempted" /\ k = lease'[t].token
          BY <2>1, <3>2, <4>2 DEF Committed
        <5>2. tombs'[k] = "none" /\ \A u \in Tasks : lease'[u] # NoRow /\ lease'[u].token = k => u = t
          BY <2>5, <2>7, <5>1 DEF TokensUnique
        <5> QED BY <5>1, <5>2 DEF Marked, Holds
      <4> QED BY <4>1, <4>2
    <3>3. \A n \in Calls : Committed(n)' => Marked(call[n].k)'
      BY <3>2 DEF Marked, Holds
    <3> QED BY <3>1, <3>3 DEF DispatchMarked
  <2>10. WorkOccupies'
    <3>1. \A u \in Tasks : Occupied(u) => Occupied(u)'
      BY <1>3, <2>5 DEF Occupied
    <3>2. \A j \in KeyedJobs : j[1] \in Tasks
      BY DEF KeyedJobs
    <3>3. ASSUME NEW n \in Calls, Committed(n)', NEW u, u = call'[n].t PROVE Occupied(u)'
      <4>1. CASE n # i
        <5>1. Committed(n) /\ u = call[n].t /\ u \in Tasks
          BY <1>0, <2>1, <3>3, <4>1, CallAt DEF Committed
        <5> QED BY <3>1, <5>1 DEF IInv, WorkOccupies
      <4>2. CASE n = i
        BY <2>1, <2>5, <3>3, <4>2 DEF Committed, Occupied
      <4> QED BY <4>1, <4>2
    <3>4. \A n \in Calls : Committed(n)' => Occupied(call[n].t)'
      BY <3>3 DEF Occupied
    <3>5. wire \subseteq KeyedJobs
      BY <1>0 DEF RestTypeOK
    <3>6. \A j \in wire' : Occupied(j[1])'
      BY <1>4, <3>1, <3>2, <3>5 DEF IInv, WorkOccupies
    <3>7. \A j \in KeyedJobs : job'[j] # "none" => Occupied(j[1])'
      BY <1>4, <3>1, <3>2 DEF IInv, WorkOccupies
    <3> QED BY <3>4, <3>6, <3>7 DEF WorkOccupies
  <2>11. OneAttempt'
    BY <1>4, <2>1 DEF IInv, OneAttempt, Names
  <2>12. ToldHeard' /\ ReleasedWhenEnded'
    <3>1. how # "accounted"
      BY FleetRuntimeAssumption
    <3>2. ToldHeard'
      BY <1>4, <1>7, <2>1, <3>1 DEF IInv, ToldHeard, Starts, JobOf
    <3> QED BY <1>3, <1>4, <3>2 DEF IInv, ReleasedWhenEnded, Ended
  <2> QED BY <2>4, <2>6, <2>7, <2>9, <2>10, <2>11, <2>12 DEF IInv
<1> QED BY <1>1, <1>2, <1>6, <1>7

\* Steps that touch no table, request or job (resolve, local end, raise, answer,
\* refusal, record).
LEMMA CallOnly ==
  ASSUME IInv, CallsTypeOK', PermitsOK', RestTypeOK', UNCHANGED tables, CallsGoOn, FilesKept,
         wire' \subseteq wire, JobsGoOn, HeardKept, UNCHANGED dispatched
  PROVE  IInv'
<1>1. UNCHANGED <<capacity, lease, outcome, tombs, drawn>>
  BY DEF tables
<1>2. TablesTypeOK'
  BY <1>1, TypeParts DEF IInv, TablesTypeOK
<1>3. TypeOK'
  BY <1>2, TypePartsNext
<1>4. RowsKept
  BY <1>1 DEF RowsKept
<1> QED BY <1>1, <1>3, <1>4, QuietStep

\* A file that was there is used as it is (resolve_task_attempt_identity).
LEMMA ResolvedFile ==
  ASSUME RestTypeOK, NEW t \in Tasks, NEW f \in ResolvedAttempt(t)
  PROVE  f \in AttemptFiles /\ (attempt[t] # NoRow => f = attempt[t])
<1>1. CASE attempt[t] # NoRow
  BY <1>1 DEF ResolvedAttempt, RestTypeOK
<1>2. CASE attempt[t] = NoRow
  <2>1. PICK a \in Attempts : f = [id |-> a, bound |-> FALSE]
    BY <1>2 DEF ResolvedAttempt
  <2> QED BY <1>2, <2>1 DEF AttemptFiles
<1> QED BY <1>1, <1>2

\* What stays true when the rest of the process and the gateway stay as they are.
LEMMA RestKept ==
  ASSUME IInv, UNCHANGED <<told, attempt, wire, job, heard>>, unheard \subseteq unheard',
         UNCHANGED watch \/ WatchKept
  PROVE  FilesKept /\ JobsGoOn /\ HeardKept /\ wire' \subseteq wire
BY DEF IInv, FilesKept, JobsGoOn, HeardKept, WatchKept, ToldHeard, Ended

\* resolve_task_attempt_identity creates the attempt once.
LEMMA SubmitResolveInv ==
  ASSUME IInv, NEW i \in Calls, SubmitResolve(i)
  PROVE  IInv'
<1>0. TypeOK /\ TablesTypeOK /\ CallsTypeOK /\ PermitsOK /\ RestTypeOK
  BY TypeParts DEF IInv
<1>1. call[i].pc = "thread" /\ call[i] # NoCall
  BY DEF SubmitResolve, At, NoCall
<1>2. PICK t \in Tasks : t = call[i].t
  BY <1>0, <1>1, CallAt
<1>3. PICK f \in AttemptFiles :
        /\ attempt[t] # NoRow => f = attempt[t]
        /\ attempt' = [attempt EXCEPT ![t] = f]
        /\ call' = [call EXCEPT ![i].a = f.id, ![i].retry = FALSE,
                                ![i].pc = CASE f.bound -> "record"
                                            [] call[i].retry -> "send"
                                            [] OTHER -> "mark"]
  <2>1. \A f \in ResolvedAttempt(t) : f \in AttemptFiles /\ (attempt[t] # NoRow => f = attempt[t])
    BY <1>0, ResolvedFile
  <2> QED BY <1>2, <2>1 DEF SubmitResolve
<1>4. attempt' = [attempt EXCEPT ![t] = f]
  BY <1>3
<1>5. /\ attempt'[t] = f /\ f # NoRow /\ \A u \in Tasks : u # t => attempt'[u] = attempt[u]
      /\ attempt' \in [Tasks -> AttemptFiles \cup {NoRow}]
  BY <1>0, <1>4, FleetRuntimeAssumption DEF RestTypeOK
<1>6. PICK pc \in {"record", "send", "mark"} :
        /\ call' = [call EXCEPT ![i].a = f.id, ![i].retry = FALSE, ![i].pc = pc]
        /\ pc = "send" => call[i].retry
  <2>1. f.bound \in BOOLEAN /\ call[i].retry \in BOOLEAN
    BY <1>0, <1>1, CallAt DEF AttemptFiles
  <2> DEFINE pc == CASE f.bound -> "record" [] call[i].retry -> "send" [] OTHER -> "mark"
  <2>2. pc \in {"record", "send", "mark"} /\ (pc = "send" => call[i].retry)
    BY <2>1
  <2>3. call' = [call EXCEPT ![i].a = f.id, ![i].retry = FALSE, ![i].pc = pc]
    BY <1>3
  <2> QED BY <2>2, <2>3
<1>7. /\ CallsTypeOK' /\ call'[i] # NoCall /\ call'[i].pc = pc /\ call'[i].c = call[i].c
      /\ call'[i].t = call[i].t /\ call'[i].k = call[i].k /\ call'[i].a = f.id
      /\ call'[i].how = call[i].how
      /\ \A n \in Calls : n # i => call'[n] = call[n]
  <2> DEFINE x == [call[i] EXCEPT !.a = f.id, !.retry = FALSE, !.pc = pc]
  <2>1. call' = [call EXCEPT ![i] = x]
    BY <1>0, <1>6 DEF CallsTypeOK
  <2>2. call[i] \in CallStates /\ f.id \in Attempts
    BY <1>0, <1>1, CallAt DEF AttemptFiles
  <2>3. /\ x \in CallStates /\ x.pc = pc /\ x.c = call[i].c /\ x.t = call[i].t
        /\ x.k = call[i].k /\ x.a = f.id /\ x.how = call[i].how
    BY <2>2 DEF CallStates
  <2>4. x # NoCall
    BY <2>3 DEF NoCall
  <2> HIDE DEF x
  <2>5. call'[i] = x /\ CallsTypeOK' /\ \A n \in Calls : n # i => call'[n] = call[n]
    BY <1>0, <2>1, <2>3 DEF CallsTypeOK
  <2> QED BY <2>3, <2>4, <2>5
<1>8. PermitsOK'
  BY <1>0, <1>1, <1>6, <1>7, ThreadsKept DEF SubmitResolve, ThreadPCs
<1>9. RestTypeOK' /\ UNCHANGED <<tables, dispatched, told, wire, job, heard>>
  BY <1>0, <1>5 DEF SubmitResolve, RestTypeOK, gatewayVars, ghosts
<1>10. FilesKept
  BY <1>3, <1>5 DEF FilesKept
<1>11. CallsGoOn
  <2>1. \A n \in Calls : n # i => (Committed(n)' => Committed(n))
    BY <1>7 DEF Committed
  <2>2. Committed(i)' => Committed(i)
    BY <1>1, <1>6, <1>7 DEF Committed
  <2>3. ASSUME NEW n \in Calls, call'[n] # NoCall,
               call'[n].pc \in {"mark", "send", "wait", "record", "await", "bind"}
        PROVE  Names(call[n].t, call[n].a)'
    <3>1. CASE n = i
      BY <1>2, <1>5, <1>7, <3>1 DEF Names
    <3>2. CASE n # i
      <4>1. call[n].t \in Tasks /\ call'[n] = call[n] /\ Names(call[n].t, call[n].a)
        BY <1>0, <1>7, <2>3, <3>2, CallAt DEF IInv, OneAttempt
      <4> QED BY <1>10, <4>1 DEF FilesKept, Names
    <3> QED BY <3>1, <3>2
  <2>4. \A n \in Calls : call'[n] # NoCall /\ call'[n].how = "accounted" =>
          call'[n].pc = "bind" /\ JobOf(n)' \in heard'
    BY <1>1, <1>7, <1>9 DEF IInv, ToldHeard, JobOf
  <2> QED BY <1>1, <1>7, <2>1, <2>2, <2>3, <2>4 DEF CallsGoOn
<1>12. JobsGoOn /\ HeardKept
  BY <1>9, RestKept DEF SubmitResolve, ghosts, JobsGoOn, HeardKept, WatchKept, IInv, ToldHeard, Ended
<1> QED BY <1>7, <1>8, <1>9, <1>10, <1>11, <1>12, CallOnly

\* A call that moves along its path goes on as the invariant asks.
LEMMA MovedCall ==
  ASSUME IInv, FilesKept, heard \subseteq heard', NEW i \in Calls, call[i] # NoCall,
         call[i].pc # "bind", NEW pc \in PCs \ {"thread"}, Goto(i, pc),
         pc = "send" => /\ lease'[call[i].t] # NoRow /\ lease'[call[i].t].token = call[i].k
                        /\ lease'[call[i].t].submit_state # "never_attempted",
         pc \in {"mark", "send", "wait", "record", "await", "bind"} =>
            call[i].pc \in {"mark", "send", "wait", "record", "await", "bind"}
  PROVE  CallsGoOn
<1>0. CallsTypeOK
  BY TypeParts DEF IInv
<1>1. /\ call'[i] # NoCall /\ call'[i].pc = pc
      /\ call'[i].t = call[i].t /\ call'[i].k = call[i].k
      /\ call'[i].a = call[i].a /\ call'[i].retry = call[i].retry /\ call'[i].how = call[i].how
      /\ \A n \in Calls : n # i => call'[n] = call[n]
  BY <1>0, GotoCall
<1> SUFFICES ASSUME NEW n \in Calls, call'[n] # NoCall
             PROVE  /\ call[n] # NoCall /\ call'[n].t = call[n].t /\ call'[n].k = call[n].k
                    /\ Committed(n)' =>
                         \/ Committed(n)
                         \/ /\ lease'[call[n].t] # NoRow /\ lease'[call[n].t].token = call[n].k
                            /\ lease'[call[n].t].submit_state # "never_attempted"
                    /\ call'[n].pc \in {"mark", "send", "wait", "record", "await", "bind"} =>
                         Names(call[n].t, call[n].a)'
                    /\ call'[n].how = "accounted" => call'[n].pc = "bind" /\ JobOf(n)' \in heard'
  BY DEF CallsGoOn
<1>2. call[n] # NoCall /\ call'[n].t = call[n].t /\ call'[n].k = call[n].k /\ call'[n].a = call[n].a
  BY <1>1
<1>3. Committed(n)' => \/ Committed(n)
                       \/ /\ lease'[call[n].t] # NoRow /\ lease'[call[n].t].token = call[n].k
                          /\ lease'[call[n].t].submit_state # "never_attempted"
  BY <1>1 DEF Committed
<1>4. ASSUME call'[n].pc \in {"mark", "send", "wait", "record", "await", "bind"}
      PROVE  Names(call[n].t, call[n].a)'
  <2>1. call[n].pc \in {"mark", "send", "wait", "record", "await", "bind"}
    BY <1>1, <1>4
  <2>2. Names(call[n].t, call[n].a) /\ call[n].t \in Tasks
    BY <1>0, <1>2, <2>1, CallAt DEF IInv, OneAttempt
  <2> QED BY <1>2, <2>2 DEF Names, FilesKept
<1>5. call'[n].how = "accounted" => call'[n].pc = "bind" /\ JobOf(n)' \in heard'
  BY <1>1, <1>2 DEF IInv, ToldHeard, JobOf
<1> QED BY <1>2, <1>3, <1>4, <1>5

\* So does a call that returns, or none.
LEMMA ReturnedCall ==
  ASSUME IInv, FilesKept, heard \subseteq heard',
         \A n \in Calls : call'[n] = NoCall \/ call'[n] = call[n]
  PROVE  CallsGoOn
<1>0. CallsTypeOK
  BY TypeParts DEF IInv
<1> SUFFICES ASSUME NEW n \in Calls, call'[n] # NoCall
             PROVE  /\ call'[n] = call[n]
                    /\ Committed(n)' => Committed(n)
                    /\ call'[n].pc \in {"mark", "send", "wait", "record", "await", "bind"} =>
                         Names(call[n].t, call[n].a)'
                    /\ call'[n].how = "accounted" => call'[n].pc = "bind" /\ JobOf(n)' \in heard'
  BY DEF CallsGoOn
<1>1. call'[n] = call[n] /\ call[n] # NoCall
  OBVIOUS
<1>2. call[n].t \in Tasks
  BY <1>0, <1>1, CallAt
<1>3. call'[n].how = "accounted" => call'[n].pc = "bind" /\ JobOf(n)' \in heard'
  BY <1>1 DEF IInv, ToldHeard, JobOf
<1> QED BY <1>1, <1>2, <1>3 DEF IInv, OneAttempt, Names, FilesKept, Committed

\* The thread ends with a local result, or raises before the mark.
LEMMA SubmitEndsInv ==
  ASSUME IInv, NEW i \in Calls, SubmitLocalEnd(i) \/ SubmitRaise(i) \/ SubmitNotAccepted(i)
  PROVE  IInv'
<1>0. CallsTypeOK /\ PermitsOK /\ RestTypeOK
  BY TypeParts DEF IInv
<1>1. call[i] # NoCall /\ call[i].pc \in ThreadPCs
  BY DEF SubmitLocalEnd, SubmitRaise, SubmitNotAccepted, At, NoCall, ThreadPCs
<1>2. /\ UNCHANGED <<tables, mode, watch, told, wire, job, dispatched, heard, unheard>>
      /\ permits' = [permits EXCEPT ![call[i].c] = @ + 1]
  BY DEF SubmitLocalEnd, SubmitRaise, SubmitNotAccepted, gatewayVars, ghosts
<1>a. FilesKept /\ attempt' \in [Tasks -> AttemptFiles \cup {NoRow}]
  <2>1. PICK t \in Tasks : t = call[i].t
    BY <1>0, <1>1, CallAt
  <2>2. UNCHANGED attempt \/ \E f \in ResolvedAttempt(t) : attempt' = [attempt EXCEPT ![t] = f]
    BY <2>1 DEF SubmitLocalEnd, SubmitRaise, SubmitNotAccepted
  <2>3. \A f \in ResolvedAttempt(t) : f \in AttemptFiles /\ (attempt[t] # NoRow => f = attempt[t])
    BY <1>0, ResolvedFile
  <2> QED BY <1>0, <2>2, <2>3 DEF FilesKept, RestTypeOK
<1>3. JobsGoOn /\ HeardKept /\ wire' \subseteq wire /\ RestTypeOK'
  BY <1>0, <1>2, <1>a DEF RestTypeOK, JobsGoOn, HeardKept, WatchKept, IInv, ToldHeard, Ended
<1>4. CASE Return(i)
  <2>1. /\ CallsTypeOK' /\ call'[i] = NoCall
        /\ \A n \in Calls : n # i => call'[n] = call[n]
    BY <1>0, <1>4, ReturnCall
  <2>2. PermitsOK'
    BY <1>0, <1>1, <1>2, <2>1, ThreadEnds
  <2>3. CallsGoOn
    BY <1>3, <1>a, <2>1, ReturnedCall DEF HeardKept
  <2> QED BY <1>2, <1>3, <1>a, <2>1, <2>2, <2>3, CallOnly
<1>5. CASE \E pc \in {"local", "undo"} : Goto(i, pc)
  <2>0. PICK pc \in {"local", "undo"} : Goto(i, pc)
    BY <1>5
  <2>1. /\ CallsTypeOK' /\ call'[i].pc = pc
        /\ \A n \in Calls : n # i => call'[n] = call[n]
    BY <1>0, <1>1, <2>0, GotoCall DEF PCs
  <2>2. PermitsOK'
    BY <1>0, <1>1, <1>2, <2>1, ThreadEnds DEF ThreadPCs
  <2>3. CallsGoOn
    BY <1>1, <1>3, <1>a, <2>0, MovedCall DEF PCs, ThreadPCs, HeardKept
  <2> QED BY <1>2, <1>3, <1>a, <2>1, <2>2, <2>3, CallOnly
<1> QED BY <1>4, <1>5 DEF SubmitLocalEnd, SubmitRaise, SubmitNotAccepted

\* The gateway answers.
LEMMA SubmitAnsweredInv ==
  ASSUME IInv, NEW i \in Calls, SubmitAnswered(i)
  PROVE  IInv'
<1>0. CallsTypeOK /\ PermitsOK /\ RestTypeOK
  BY TypeParts DEF IInv
<1>1. call[i] # NoCall /\ call[i].pc = "wait"
  BY DEF SubmitAnswered, At, NoCall
<1>2. UNCHANGED <<tables, mode, permits, watch, told, attempt, wire, job, dispatched, heard, unheard>> /\ Goto(i, "record")
  BY DEF SubmitAnswered, gatewayVars, ghosts
<1>3. FilesKept /\ JobsGoOn /\ HeardKept /\ wire' \subseteq wire /\ RestTypeOK'
  BY <1>0, <1>2, RestKept DEF RestTypeOK
<1>4. /\ CallsTypeOK' /\ call'[i] # NoCall /\ call'[i].pc = "record" /\ call'[i].c = call[i].c
      /\ \A n \in Calls : n # i => call'[n] = call[n]
  BY <1>0, <1>1, <1>2, GotoCall DEF PCs
<1>5. PermitsOK'
  BY <1>0, <1>1, <1>2, <1>4, ThreadsKept DEF ThreadPCs
<1>6. CallsGoOn
  BY <1>1, <1>2, <1>3, MovedCall DEF PCs
<1> QED BY <1>2, <1>3, <1>4, <1>5, <1>6, CallOnly

\* bind_task_attempt_job records the job in the file of its attempt.
LEMMA SubmitRecordInv ==
  ASSUME IInv, NEW i \in Calls, SubmitRecord(i)
  PROVE  IInv'
<1>0. CallsTypeOK /\ PermitsOK /\ RestTypeOK
  BY TypeParts DEF IInv
<1>1. call[i] # NoCall /\ call[i].pc = "record"
  BY DEF SubmitRecord, At, NoCall
<1>2. PICK t \in Tasks : t = call[i].t
  BY <1>0, <1>1, CallAt
<1> DEFINE x == [attempt[t] EXCEPT !.bound = TRUE]
<1>3. /\ UNCHANGED <<tables, mode, watch, told, wire, job, dispatched, heard, unheard>>
      /\ attempt' = [attempt EXCEPT ![t] = x] \/ attempt' = attempt
      /\ \/ Goto(i, "await") /\ UNCHANGED permits
         \/ Goto(i, "bind") /\ permits' = [permits EXCEPT ![call[i].c] = @ + 1]
  BY <1>0, <1>2 DEF SubmitRecord, gatewayVars, ghosts, RestTypeOK
<1>4. FilesKept /\ attempt' \in [Tasks -> AttemptFiles \cup {NoRow}]
  <2>2. attempt[t] # NoRow /\ attempt[t] \in AttemptFiles
    BY <1>0, <1>1, <1>2 DEF IInv, OneAttempt, Names, RestTypeOK
  <2>3. x \in AttemptFiles /\ x.id = attempt[t].id
    BY <2>2 DEF AttemptFiles
  <2>5. x # NoRow
    BY <2>3, FleetRuntimeAssumption
  <2> HIDE DEF x
  <2> QED BY <1>0, <1>3, <2>3, <2>5 DEF FilesKept, RestTypeOK
<1>5. RestTypeOK' /\ JobsGoOn /\ HeardKept
  BY <1>0, <1>3, <1>4 DEF RestTypeOK, JobsGoOn, HeardKept, WatchKept, IInv, ToldHeard, Ended
<1>6. ASSUME NEW pc \in {"await", "bind"}, Goto(i, pc), PermitsOK'
      PROVE  IInv'
  <2>1. CallsTypeOK'
    BY <1>0, <1>1, <1>6, GotoCall DEF PCs
  <2>2. CallsGoOn
    BY <1>1, <1>4, <1>5, <1>6, MovedCall DEF PCs, HeardKept
  <2> QED BY <1>3, <1>4, <1>5, <1>6, <2>1, <2>2, CallOnly
<1>7. CASE Goto(i, "await") /\ UNCHANGED permits
  <2>1. /\ call'[i] # NoCall /\ call'[i].pc = "await" /\ call'[i].c = call[i].c
        /\ \A n \in Calls : n # i => call'[n] = call[n]
    BY <1>0, <1>1, <1>7, GotoCall DEF PCs
  <2>2. PermitsOK'
    BY <1>0, <1>1, <1>7, <2>1, ThreadsKept DEF ThreadPCs
  <2> QED BY <1>6, <1>7, <2>2
<1>8. CASE Goto(i, "bind") /\ permits' = [permits EXCEPT ![call[i].c] = @ + 1]
  <2>1. call'[i].pc = "bind" /\ \A n \in Calls : n # i => call'[n] = call[n]
    BY <1>0, <1>1, <1>8, GotoCall DEF PCs
  <2>2. PermitsOK'
    BY <1>0, <1>1, <1>8, <2>1, ThreadEnds DEF ThreadPCs
  <2> QED BY <1>6, <1>8, <2>2
<1> QED BY <1>3, <1>7, <1>8

\* A call past the thread's first step has the attempt of its task's file.
LEMMA AttemptAt ==
  ASSUME IInv, NEW i \in Calls,
         call[i].pc \in {"mark", "send", "wait", "record", "await", "bind"}
  PROVE  /\ call[i] # NoCall /\ call[i].t \in Tasks /\ call[i].a \in Attempts
         /\ Names(call[i].t, call[i].a) /\ JobOf(i) \in KeyedJobs
<1>1. CallsTypeOK /\ RestTypeOK
  BY TypeParts DEF IInv
<1>2. call[i] # NoCall
  BY DEF NoCall
<1>3. call[i].t \in Tasks
  BY <1>1, <1>2, CallAt
<1>4. Names(call[i].t, call[i].a)
  BY <1>2 DEF IInv, OneAttempt
<1>5. call[i].a \in Attempts
  BY <1>1, <1>3, <1>4 DEF Names, RestTypeOK, AttemptFiles
<1> QED BY <1>2, <1>3, <1>4, <1>5 DEF JobOf, KeyedJobs

\* A call is accounted only after its caller told the router of the job's end
\* (router.record_result in project_run_agent).
LEMMA SubmitAwaitInv ==
  ASSUME IInv, NEW i \in Calls, SubmitAwait(i)
  PROVE  IInv'
<1>0. CallsTypeOK /\ PermitsOK /\ RestTypeOK
  BY TypeParts DEF IInv
<1>1. call[i] # NoCall /\ call[i].pc = "await" /\ JobOf(i) \in KeyedJobs
  BY AttemptAt DEF SubmitAwait, At
<1>2. /\ UNCHANGED <<tables, mode, watch, told, attempt, wire, job, dispatched, unheard>>
      /\ permits' = [permits EXCEPT ![call[i].c] = @ + 1]
  BY DEF SubmitAwait, gatewayVars
<1>3. PICK how \in Callers \cup {"accounted"} :
        /\ call' = [call EXCEPT ![i].pc = "bind", ![i].how = how]
        /\ \/ how = "accounted" /\ heard' = heard \cup {JobOf(i)}
           \/ how = call[i].how /\ how # "accounted" /\ heard' = heard \cup {JobOf(i)}
           \/ how = call[i].how /\ how # "accounted" /\ UNCHANGED heard
  <2>1. call[i].how \in Callers /\ call[i].how # "accounted"
    <3>1. call[i].how \in Callers \cup {"accounted"} /\ call[i].how # "accounted"
      BY <1>0, <1>1, CallAt DEF IInv, ToldHeard
    <3> QED BY <3>1
  <2>2. CASE Unfinished(i)
    <3>1. call' = [call EXCEPT ![i].pc = "bind", ![i].how = call[i].how] /\ UNCHANGED heard
      BY <1>0, <1>1, <2>2, CallAt DEF Unfinished, Goto, CallsTypeOK, CallStates
    <3> QED BY <2>1, <3>1
  <2>3. CASE ~Unfinished(i)
    BY <2>1, <2>3 DEF SubmitAwait
  <2> QED BY <2>2, <2>3
<1>4. /\ CallsTypeOK' /\ call'[i] # NoCall /\ call'[i].pc = "bind" /\ call'[i].c = call[i].c
      /\ call'[i].t = call[i].t /\ call'[i].k = call[i].k /\ call'[i].a = call[i].a
      /\ call'[i].how = how
      /\ \A n \in Calls : n # i => call'[n] = call[n]
  <2> DEFINE x == [call[i] EXCEPT !.pc = "bind", !.how = how]
  <2>1. call' = [call EXCEPT ![i] = x]
    BY <1>0, <1>3 DEF CallsTypeOK
  <2>2. call[i] \in CallStates
    BY <1>0, <1>1, CallAt
  <2>3. /\ x \in CallStates /\ x.pc = "bind" /\ x.c = call[i].c /\ x.t = call[i].t
        /\ x.k = call[i].k /\ x.a = call[i].a /\ x.how = how
    BY <2>2 DEF CallStates
  <2>4. x # NoCall
    BY <2>3 DEF NoCall
  <2> HIDE DEF x
  <2>5. call'[i] = x /\ CallsTypeOK' /\ \A n \in Calls : n # i => call'[n] = call[n]
    BY <1>0, <2>1, <2>3 DEF CallsTypeOK
  <2> QED BY <2>3, <2>4, <2>5
<1>5. PermitsOK'
  BY <1>0, <1>1, <1>2, <1>4, ThreadEnds DEF ThreadPCs
<1>6. FilesKept /\ JobsGoOn /\ HeardKept /\ RestTypeOK'
  BY <1>0, <1>1, <1>2, <1>3
     DEF RestTypeOK, FilesKept, JobsGoOn, HeardKept, WatchKept, IInv, ToldHeard, Ended
<1>7. CallsGoOn
  <2>1. \A n \in Calls : Committed(n)' => Committed(n)
    BY <1>4 DEF Committed
  <2>2. ASSUME NEW n \in Calls, call'[n] # NoCall,
               call'[n].pc \in {"mark", "send", "wait", "record", "await", "bind"}
        PROVE  Names(call[n].t, call[n].a)'
    <3>1. Names(call[n].t, call[n].a)
      BY <1>1, <1>4, <2>2, AttemptAt
    <3> QED BY <1>2, <1>4, <2>2, <3>1 DEF Names
  <2>3. \A n \in Calls : call'[n] # NoCall /\ call'[n].how = "accounted" =>
          call'[n].pc = "bind" /\ JobOf(n)' \in heard'
    BY <1>1, <1>3, <1>4 DEF IInv, ToldHeard, JobOf
  <2> QED BY <1>1, <1>4, <2>1, <2>2, <2>3 DEF CallsGoOn
<1> QED BY <1>2, <1>4, <1>5, <1>6, <1>7, CallOnly

\* The mark: the request may go out only after the row was marked under the
\* token of the call (_before_gateway_dispatch, mark_submit_attempted).
LEMMA SubmitMarkInv ==
  ASSUME IInv, NEW i \in Calls, SubmitMark(i)
  PROVE  IInv'
<1>0. TablesTypeOK /\ CallsTypeOK /\ PermitsOK /\ RestTypeOK
  BY TypeParts DEF IInv
<1>1. call[i] # NoCall /\ call[i].pc = "mark"
  BY DEF SubmitMark, At, NoCall
<1>2. UNCHANGED <<mode, watch, told, attempt, wire, job, dispatched, heard, unheard>>
  BY DEF SubmitMark, gatewayVars, ghosts
<1>3. FilesKept /\ JobsGoOn /\ HeardKept /\ wire' \subseteq wire /\ RestTypeOK'
  BY <1>0, <1>2, RestKept DEF RestTypeOK
<1>4. PICK t \in Tasks : t = call[i].t
  BY <1>0, <1>1, CallAt
<1>5. CASE Markable(t, call[i].k) /\ mark_submit_attempted(t, call[i].k)
  <2>1. lease[t] # NoRow /\ lease[t].token = call[i].k
    BY <1>5 DEF Markable, Holds
  <2>2. /\ TablesTypeOK'
        /\ lease'[t] # NoRow /\ lease'[t].token = lease[t].token
        /\ lease'[t].submit_state = "attempted" /\ lease'[t].job = lease[t].job
        /\ \A u \in Tasks : u # t => lease'[u] = lease[u]
    BY <1>0, <1>5, <2>1, MarkTables
  <2>3. RowsKept /\ UNCHANGED <<outcome, tombs, drawn, dispatched>>
    BY <1>2, <1>5, <2>1, <2>2 DEF RowsKept, mark_submit_attempted
  <2>4. CASE Goto(i, "send") /\ UNCHANGED permits
    <3>1. /\ CallsTypeOK' /\ call'[i] # NoCall /\ call'[i].pc = "send" /\ call'[i].c = call[i].c
          /\ \A n \in Calls : n # i => call'[n] = call[n]
      BY <1>0, <1>1, <2>4, GotoCall DEF PCs
    <3>2. PermitsOK'
      BY <1>0, <1>1, <2>4, <3>1, ThreadsKept DEF ThreadPCs
    <3>3. CallsGoOn
      BY <1>1, <1>2, <1>3, <1>4, <2>1, <2>2, <2>4, MovedCall DEF PCs
    <3>4. TypeOK'
      BY <1>3, <2>2, <3>1, <3>2, TypePartsNext
    <3> QED BY <1>3, <2>3, <3>3, <3>4, QuietStep
  <2>5. CASE Goto(i, "undo") /\ permits' = [permits EXCEPT ![call[i].c] = @ + 1]
    <3>1. /\ CallsTypeOK' /\ call'[i].pc = "undo"
          /\ \A n \in Calls : n # i => call'[n] = call[n]
      BY <1>0, <1>1, <2>5, GotoCall DEF PCs
    <3>2. PermitsOK'
      BY <1>0, <1>1, <2>5, <3>1, ThreadEnds DEF ThreadPCs
    <3>3. CallsGoOn
      BY <1>1, <1>2, <1>3, <2>5, MovedCall DEF PCs
    <3>4. TypeOK'
      BY <1>3, <2>2, <3>1, <3>2, TypePartsNext
    <3> QED BY <1>3, <2>3, <3>3, <3>4, QuietStep
  <2> QED BY <1>5, <2>4, <2>5, <1>4 DEF SubmitMark, mark_submit_attempted
<1>6. CASE UNCHANGED tables /\ Goto(i, "undo") /\ permits' = [permits EXCEPT ![call[i].c] = @ + 1]
  <2>1. /\ CallsTypeOK' /\ call'[i].pc = "undo"
        /\ \A n \in Calls : n # i => call'[n] = call[n]
    BY <1>0, <1>1, <1>6, GotoCall DEF PCs
  <2>2. PermitsOK'
    BY <1>0, <1>1, <1>6, <2>1, ThreadEnds DEF ThreadPCs
  <2>3. CallsGoOn
    BY <1>1, <1>2, <1>3, <1>6, MovedCall DEF PCs
  <2> QED BY <1>2, <1>3, <1>6, <2>1, <2>2, <2>3, CallOnly
<1> QED BY <1>4, <1>5, <1>6 DEF SubmitMark

\* A call that holds no permit returns.
LEMMA LastReturn ==
  ASSUME CallsTypeOK, PermitsOK, NEW i \in Calls, Return(i), UNCHANGED permits,
         call[i].pc \notin ThreadPCs
  PROVE  /\ CallsTypeOK' /\ PermitsOK'
         /\ \A n \in Calls : call'[n] = NoCall \/ call'[n] = call[n]
<1>1. CallsTypeOK' /\ call'[i] = NoCall /\ \A n \in Calls : n # i => call'[n] = call[n]
  BY ReturnCall
<1>2. PermitsOK'
  BY <1>1, ThreadsKept
<1> QED BY <1>1, <1>2

\* release_never_dispatched frees a slot only when the row was never marked.
LEMMA ReclaimedInv ==
  ASSUME IInv, NEW t \in Tasks, NEW k, release_never_dispatched(t, k),
         CallsTypeOK', PermitsOK', RestTypeOK',
         \A n \in Calls : call'[n] = NoCall \/ call'[n] = call[n],
         UNCHANGED <<told, watch, attempt, wire, job, dispatched, heard, unheard>>
  PROVE  IInv'
<1>0. TablesTypeOK
  BY TypeParts DEF IInv
<1>1. CASE Reclaimable(t, k)
  <2>1. lease[t] # NoRow /\ lease[t].token = k /\ lease[t].submit_state = "never_attempted"
    BY <1>1 DEF Reclaimable, Holds
  <2>2. /\ lease' = [lease EXCEPT ![t] = NoRow] /\ UNCHANGED <<capacity, outcome, drawn>>
        /\ tombs' = [tombs EXCEPT ![k] = "never_dispatched"]
    BY <1>1 DEF release_never_dispatched
  <2>3. k \in LeaseTokens /\ "never_dispatched" \in TombReasons
    BY <1>0, <2>1, LeaseRow DEF TombReasons
  <2>4. TablesTypeOK' /\ lease'[t] = NoRow /\ \A u \in Tasks : u # t => lease'[u] = lease[u]
    BY <1>0, <2>2, <2>3, FreedTables
  <2>5. TypeOK'
    BY <2>4, TypePartsNext
  <2>6. FreesUnmarked(t)
    BY <2>1, <2>2 DEF FreesUnmarked
  <2> QED BY <2>1, <2>2, <2>4, <2>5, <2>6, WatchSame, FreeStep
<1>2. CASE UNCHANGED tables
  <2>1. FilesKept /\ JobsGoOn /\ HeardKept /\ wire' \subseteq wire
    BY RestKept
  <2>2. CallsGoOn
    BY <2>1, ReturnedCall
  <2> QED BY <1>2, <2>1, <2>2, CallOnly
<1> QED BY <1>1, <1>2 DEF release_never_dispatched

\* A call that raised gives its lease back if the row proves it.
LEMMA SubmitUndoInv ==
  ASSUME IInv, NEW i \in Calls, SubmitUndo(i)
  PROVE  IInv'
<1>0. CallsTypeOK /\ PermitsOK /\ RestTypeOK
  BY TypeParts DEF IInv
<1>1. call[i].pc = "undo" /\ Return(i)
  BY DEF SubmitUndo, At
<1>2. UNCHANGED <<mode, permits, watch, told, attempt, wire, job, dispatched, heard, unheard>>
  BY DEF SubmitUndo, gatewayVars, ghosts
<1>3. /\ CallsTypeOK' /\ PermitsOK' /\ RestTypeOK'
      /\ \A n \in Calls : call'[n] = NoCall \/ call'[n] = call[n]
  BY <1>0, <1>1, <1>2, LastReturn DEF ThreadPCs, RestTypeOK
<1>4. PICK t \in Tasks : t = call[i].t
  BY <1>0, <1>1, CallAt DEF PCs
<1>5. CASE release_never_dispatched(t, call[i].k)
  BY <1>2, <1>3, <1>5, ReclaimedInv
<1>6. CASE UNCHANGED tables
  <2>1. FilesKept /\ JobsGoOn /\ HeardKept /\ wire' \subseteq wire
    BY <1>2, RestKept
  <2>2. CallsGoOn
    BY <1>2, <1>3, <2>1, ReturnedCall
  <2> QED BY <1>2, <1>3, <1>6, <2>1, <2>2, CallOnly
<1> QED BY <1>4, <1>5, <1>6 DEF SubmitUndo

\* The sweep gives back a lease that was never marked.
LEMMA SweepReclaimInv ==
  ASSUME IInv, NEW c \in Coordinators, NEW t \in Tasks, SweepReclaim(c, t)
  PROVE  IInv'
<1>0. CallsTypeOK /\ PermitsOK /\ RestTypeOK
  BY TypeParts DEF IInv
<1>1. UNCHANGED <<mode, permits, watch, told, call, attempt, wire, job, dispatched, heard, unheard>>
  BY DEF SweepReclaim, procVars, gatewayVars, ghosts
<1>2. CallsTypeOK' /\ RestTypeOK'
  BY <1>0, <1>1 DEF CallsTypeOK, RestTypeOK
<1>3. PermitsOK'
  BY <1>0, <1>1, ThreadsKept
<1>4. release_never_dispatched(t, lease[t].token)
  BY DEF SweepReclaim
<1> QED BY <1>1, <1>2, <1>3, <1>4, ReclaimedInv

\* complete_task frees a slot with the outcome of the task.
LEMMA CompletedInv ==
  ASSUME IInv, NEW t \in Tasks, NEW k, NEW status \in Statuses, NEW e, complete_task(t, k, status, e),
         CallsTypeOK', PermitsOK', RestTypeOK',
         \A n \in Calls : call'[n] = NoCall \/ call'[n] = call[n],
         status # "error" /\ lease[t].job # NoJob => Ended(lease[t].job) /\ lease[t].job \in heard \cup unheard',
         UNCHANGED <<told, attempt, wire, job, dispatched, heard>>, unheard \subseteq unheard', WatchKept
  PROVE  IInv'
<1>0. TablesTypeOK
  BY TypeParts DEF IInv
<1>1. CASE Completable(t, k, e)
  <2> DEFINE x == [status |-> status, job |-> lease[t].job]
  <2>1. lease[t] # NoRow
    BY <1>1 DEF Completable, Holds
  <2>2. /\ lease' = [lease EXCEPT ![t] = NoRow] /\ UNCHANGED <<capacity, tombs, drawn>>
        /\ outcome' = [outcome EXCEPT ![t] = x]
    BY <1>1 DEF complete_task
  <2>3. x \in Outcomes /\ x.status = status /\ x.job = lease[t].job
    BY <1>0, <2>1, LeaseRow DEF Outcomes
  <2> HIDE DEF x
  <2>4. TablesTypeOK' /\ lease'[t] = NoRow /\ \A u \in Tasks : u # t => lease'[u] = lease[u]
    BY <1>0, <2>2, <2>3, FreedTables
  <2>5. TypeOK'
    BY <2>4, TypePartsNext
  <2>6. x # NoRow
    BY <2>3, FleetStateAssumption
  <2>7. outcome'[t] = x /\ \A u \in Tasks : u # t => outcome'[u] = outcome[u]
    BY <1>0, <2>2 DEF TablesTypeOK
  <2>8. FreesEnded(t)
    BY <2>2, <2>3, <2>6, <2>7 DEF FreesEnded
  <2> QED BY <2>1, <2>2, <2>4, <2>5, <2>8, FreeStep
<1>2. CASE UNCHANGED tables
  <2>1. FilesKept /\ JobsGoOn /\ HeardKept /\ wire' \subseteq wire
    BY RestKept
  <2>2. CallsGoOn
    BY <2>1, ReturnedCall
  <2> QED BY <1>2, <2>1, <2>2, CallOnly
<1> QED BY <1>1, <1>2 DEF complete_task

\* A local terminal result is the outcome of its task.
LEMMA SubmitLocalCompleteInv ==
  ASSUME IInv, NEW i \in Calls, SubmitLocalComplete(i)
  PROVE  IInv'
<1>0. CallsTypeOK /\ PermitsOK /\ RestTypeOK
  BY TypeParts DEF IInv
<1>1. call[i].pc = "local" /\ Return(i) /\ "error" \in Statuses
  BY DEF SubmitLocalComplete, At, Statuses
<1>2. UNCHANGED <<mode, permits, watch, told, attempt, wire, job, dispatched, heard, unheard>>
  BY DEF SubmitLocalComplete, gatewayVars, ghosts
<1>3. /\ CallsTypeOK' /\ PermitsOK' /\ RestTypeOK'
      /\ \A n \in Calls : call'[n] = NoCall \/ call'[n] = call[n]
  BY <1>0, <1>1, <1>2, LastReturn DEF ThreadPCs, RestTypeOK
<1>4. PICK t \in Tasks : t = call[i].t
  BY <1>0, <1>1, CallAt DEF PCs
<1>5. complete_task(t, call[i].k, "error", NoJob)
  BY <1>4 DEF SubmitLocalComplete
<1> QED BY <1>1, <1>2, <1>3, <1>5, WatchSame, CompletedInv

\* What a watcher that may release knows: the router was told of the job, unless
\* the watcher has no observer and its caller had none.
LEMMA ReleaseHeard ==
  ASSUME ToldHeard, NEW c \in Coordinators, NEW j \in KeyedJobs, NEW w \in Watchers, w # "none",
         MayRelease(c, j, w), w = "accounted" => watch[c][j] = "accounted"
  PROVE  Ended(j) /\ (w = "unrouted" \/ j \in heard)
BY DEF MayRelease, ToldHeard, Watchers

\* The end of a job frees its slot: the job is over, and was heard of unless who
\* releases has no observer.
LEMMA ReleasedInv ==
  ASSUME IInv, NEW c \in Coordinators, NEW j \in KeyedJobs, Ended(j), Released(c, j), WatchKept,
         Bound(j) => j \in heard \cup unheard',
         CallsTypeOK', PermitsOK', RestTypeOK', unheard \subseteq unheard',
         UNCHANGED <<told, call, attempt, wire, job, dispatched, heard>>
  PROVE  IInv'
<1>5. CASE Bound(j)
  <2>1. j[1] \in Tasks
    BY DEF KeyedJobs
  <2>2. TerminalStatus(j) \in Statuses
    BY DEF TerminalStatus, Ended, Statuses
  <2>3. complete_task(j[1], lease[j[1]].token, TerminalStatus(j), j)
    BY <1>5 DEF Released
  <2>4. lease[j[1]].job = j
    BY <1>5 DEF Bound, BoundTo
  <2> QED BY <1>5, <2>1, <2>2, <2>3, <2>4, CompletedInv
<1>6. CASE ~Bound(j)
  <2>1. UNCHANGED tables
    BY <1>6 DEF Released
  <2>2. FilesKept /\ JobsGoOn /\ HeardKept /\ wire' \subseteq wire
    BY RestKept
  <2>3. CallsGoOn
    BY <2>2, ReturnedCall
  <2> QED BY <2>1, <2>2, <2>3, CallOnly
<1> QED BY <1>5, <1>6

\* The end of a watcher.
LEMMA WatcherSettlesInv ==
  ASSUME IInv, NEW c \in Coordinators, NEW j \in KeyedJobs, WatcherSettles(c, j)
  PROVE  IInv'
<1>0. CallsTypeOK /\ PermitsOK /\ RestTypeOK
  BY TypeParts DEF IInv
<1>1. /\ UNCHANGED <<mode, permits, told, call, attempt, wire, job, dispatched, heard>>
      /\ watch' = [watch EXCEPT ![c][j] = "none"] /\ Released(c, j)
  BY DEF WatcherSettles, gatewayVars
<1>2. PICK w \in Watchers :
        /\ w = watch[c][j] /\ w # "none" /\ MayRelease(c, j, w)
        /\ unheard' = IF Bound(j) /\ w = "unrouted" THEN unheard \cup {j} ELSE unheard
  BY <1>0 DEF WatcherSettles, RestTypeOK
<1>3. Ended(j) /\ (w = "unrouted" \/ j \in heard)
  BY <1>2, ReleaseHeard DEF IInv
<1>4. /\ watch' \in [Coordinators -> [KeyedJobs -> Watchers]]
      /\ \A d \in Coordinators, x \in KeyedJobs : watch'[d][x] \in {"none", watch[d][x]}
  BY <1>0, <1>1 DEF RestTypeOK, Watchers
<1>5. CallsTypeOK' /\ RestTypeOK' /\ WatchKept
  BY <1>0, <1>1, <1>2, <1>4 DEF CallsTypeOK, RestTypeOK, WatchKept, IInv, ToldHeard
<1>6. PermitsOK'
  BY <1>0, <1>1, ThreadsKept
<1> QED BY <1>1, <1>2, <1>3, <1>5, <1>6, ReleasedInv

\* The end of a sweep's work on one lease.
LEMMA SweepSettlesInv ==
  ASSUME IInv, NEW c \in Coordinators, NEW j \in KeyedJobs, SweepSettles(c, j)
  PROVE  IInv'
<1>0. CallsTypeOK /\ PermitsOK /\ RestTypeOK
  BY TypeParts DEF IInv
<1>1. UNCHANGED <<mode, permits, watch, told, call, attempt, wire, job, dispatched, heard>>
  BY DEF SweepSettles, procVars, gatewayVars
<1>2. PICK how \in Callers :
        /\ MayRelease(c, j, WatcherOf(how)) /\ Released(c, j)
        /\ unheard' = IF WatcherOf(how) = "unrouted" THEN unheard \cup {j} ELSE unheard
  BY DEF SweepSettles, Sweepers
<1>3. WatcherOf(how) \in Watchers /\ WatcherOf(how) \notin {"none", "accounted"}
  BY WatcherOfType, FleetRuntimeAssumption
<1>4. Ended(j) /\ (WatcherOf(how) = "unrouted" \/ j \in heard)
  BY <1>2, <1>3, ReleaseHeard DEF IInv
<1>5. CallsTypeOK' /\ RestTypeOK' /\ WatchKept
  BY <1>0, <1>1, <1>2 DEF CallsTypeOK, RestTypeOK, WatchKept, IInv, ToldHeard
<1>6. PermitsOK'
  BY <1>0, <1>1, ThreadsKept
<1> QED BY <1>1, <1>2, <1>4, <1>5, <1>6, ReleasedInv

\* A superseded lease ends without a job.
LEMMA OperatorReconcileInv ==
  ASSUME IInv, NEW c \in Coordinators, NEW t \in Tasks, OperatorReconcile(c, t)
  PROVE  IInv'
<1>0. TablesTypeOK /\ CallsTypeOK /\ PermitsOK /\ RestTypeOK
  BY TypeParts DEF IInv
<1>1. UNCHANGED <<mode, permits, watch, told, call, attempt, wire, job, dispatched, heard, unheard>>
  BY DEF OperatorReconcile, procVars, gatewayVars, ghosts
<1>2. CallsTypeOK' /\ RestTypeOK'
  BY <1>0, <1>1 DEF CallsTypeOK, RestTypeOK
<1>3. PermitsOK'
  BY <1>0, <1>1, ThreadsKept
<1> DEFINE x == [status |-> "ambiguous", job |-> NoJob]
<1>4. /\ lease[t] # NoRow
      /\ tombs' = [tombs EXCEPT ![lease[t].token] = "plane_replaced"]
      /\ outcome' = [outcome EXCEPT ![t] = x]
      /\ lease' = [lease EXCEPT ![t] = NoRow] /\ UNCHANGED <<capacity, drawn>>
  BY DEF OperatorReconcile, terminalize_superseded
<1>5. x \in Outcomes /\ x.job = NoJob
  BY DEF Outcomes, Statuses
<1> HIDE DEF x
<1>6. lease[t].token \in LeaseTokens /\ "plane_replaced" \in TombReasons
  BY <1>0, <1>4, LeaseRow DEF TombReasons
<1>7. TablesTypeOK' /\ lease'[t] = NoRow /\ \A u \in Tasks : u # t => lease'[u] = lease[u]
  BY <1>0, <1>4, <1>5, <1>6, FreedTables
<1>8. TypeOK'
  BY <1>2, <1>3, <1>7, TypePartsNext
<1>9. x # NoRow /\ outcome'[t] = x /\ \A u \in Tasks : u # t => outcome'[u] = outcome[u]
  BY <1>0, <1>4, <1>5, FleetStateAssumption DEF TablesTypeOK
<1>10. FreesEnded(t)
  BY <1>4, <1>5, <1>9 DEF FreesEnded
<1> QED BY <1>1, <1>4, <1>7, <1>8, <1>10, WatchSame, FreeStep

\* The request goes out under a marked token, for the attempt of the task's file.
LEMMA SubmitSendInv ==
  ASSUME IInv, NEW i \in Calls, SubmitSend(i)
  PROVE  IInv'
<1>0. TypeOK /\ TablesTypeOK /\ CallsTypeOK /\ PermitsOK /\ RestTypeOK
  BY TypeParts DEF IInv
<1>1. call[i] # NoCall /\ call[i].pc = "send" /\ Committed(i) /\ Goto(i, "wait")
  BY DEF SubmitSend, At, NoCall, Committed
<1>2. UNCHANGED <<capacity, lease, outcome, tombs, drawn, mode, permits, watch, told, attempt, job, heard, unheard>>
  BY DEF SubmitSend, tables
<1>3. PICK t \in Tasks, k \in LeaseTokens, a \in Attempts : t = call[i].t /\ k = call[i].k /\ a = call[i].a
  BY <1>0, <1>1, CallAt, AttemptAt
<1>4. wire' = wire \cup {<<t, a>>} /\ dispatched' = dispatched \cup {k} /\ <<t, a>> \in KeyedJobs
  BY <1>3 DEF SubmitSend, JobOf, KeyedJobs
<1>5. /\ CallsTypeOK' /\ call'[i] # NoCall /\ call'[i].pc = "wait" /\ call'[i].c = call[i].c
      /\ call'[i].t = t /\ call'[i].k = k /\ call'[i].a = a /\ call'[i].how = call[i].how
      /\ \A n \in Calls : n # i => call'[n] = call[n]
  BY <1>0, <1>1, <1>3, GotoCall DEF PCs
<1>6. PermitsOK'
  BY <1>0, <1>1, <1>2, <1>5, ThreadsKept DEF ThreadPCs
<1>7. TablesTypeOK' /\ RestTypeOK'
  BY <1>0, <1>2, <1>4 DEF TablesTypeOK, RestTypeOK
<1>8. TypeOK'
  BY <1>5, <1>6, <1>7, TypePartsNext
<1>9. k <= drawn /\ Marked(k) /\ Occupied(t) /\ Names(t, a)
  BY <1>1, <1>3 DEF IInv, TokensUnique, DispatchMarked, WorkOccupies, OneAttempt
<1>10. WithinCapacity'
  BY <1>2, NoAdmission DEF IInv
<1>11. TokensUnique'
  BY <1>2, <1>4, <1>5, <1>9 DEF IInv, TokensUnique
<1>12. \A x : Marked(x)' <=> Marked(x)
  BY <1>2 DEF Marked, Holds
<1>13. \A u : /\ Occupied(u)' <=> Occupied(u)
              /\ \A b : Names(u, b)' <=> Names(u, b)
  BY <1>2 DEF Occupied, Names
<1>14. \A n \in Calls : Committed(n)' => n # i /\ Committed(n) /\ call'[n] = call[n]
  BY <1>5 DEF Committed
<1>15. DispatchMarked'
  <2>1. \A x \in dispatched' : Marked(x)'
    BY <1>4, <1>9, <1>12 DEF IInv, DispatchMarked
  <2>2. \A n \in Calls : Committed(n)' => Marked(call[n].k)'
    BY <1>2, <1>14 DEF IInv, DispatchMarked, Marked, Holds
  <2> QED BY <2>1, <2>2 DEF DispatchMarked
<1>16. WorkOccupies'
  <2>1. \A n \in Calls : Committed(n)' => Occupied(call[n].t)'
    BY <1>2, <1>14 DEF IInv, WorkOccupies, Occupied
  <2>2. \A j \in wire' : Occupied(j[1])'
    BY <1>4, <1>9, <1>13 DEF IInv, WorkOccupies
  <2>3. \A j \in KeyedJobs : job'[j] # "none" => Occupied(j[1])'
    BY <1>2, <1>13 DEF IInv, WorkOccupies
  <2> QED BY <2>1, <2>2, <2>3 DEF WorkOccupies
<1>17. OneAttempt'
  <2>1. \A n \in Calls : call'[n] # NoCall /\ call'[n].pc \in {"mark", "send", "wait", "record", "await", "bind"}
                           => Names(call[n].t, call[n].a)'
    BY <1>2, <1>5, <1>9 DEF IInv, OneAttempt, Names
  <2>2. \A j \in wire' : Names(j[1], j[2])'
    BY <1>4, <1>9, <1>13 DEF IInv, OneAttempt
  <2>3. \A j \in KeyedJobs : job'[j] # "none" => Names(j[1], j[2])'
    BY <1>2, <1>13 DEF IInv, OneAttempt
  <2> QED BY <2>1, <2>2, <2>3 DEF OneAttempt
<1>18. ToldHeard' /\ ReleasedWhenEnded'
  <2>1. ToldHeard'
    BY <1>1, <1>2, <1>5 DEF IInv, ToldHeard, JobOf
  <2> QED BY <1>2, <2>1 DEF IInv, ReleasedWhenEnded, Ended
<1> QED BY <1>8, <1>10, <1>11, <1>15, <1>16, <1>17, <1>18 DEF IInv

\* A bind keeps the token and the mark of its row.
LEMMA BoundInv ==
  ASSUME IInv, NEW t \in Tasks, NEW k, NEW j \in KeyedJobs, lease[t] # NoRow, bind_job(t, k, j),
         CallsTypeOK', PermitsOK', RestTypeOK',
         \A n \in Calls : call'[n] = NoCall \/ call'[n] = call[n],
         UNCHANGED <<told, attempt, wire, job, dispatched, heard, unheard>>, WatchKept
  PROVE  IInv'
<1>1. TablesTypeOK /\ j \in JobIds
  BY TypeParts, FleetRuntimeAssumption DEF IInv
<1>2. /\ TablesTypeOK'
      /\ lease'[t] # NoRow /\ lease'[t].token = lease[t].token
      /\ lease'[t].submit_state = lease[t].submit_state
      /\ \A u \in Tasks : u # t => lease'[u] = lease[u]
  BY <1>1, BindTables
<1>3. RowsKept /\ UNCHANGED <<outcome, tombs, drawn>>
  BY <1>2 DEF RowsKept, bind_job
<1>4. TypeOK'
  BY <1>2, TypePartsNext
<1>5. FilesKept /\ JobsGoOn /\ HeardKept /\ wire' \subseteq wire
  BY RestKept
<1>6. CallsGoOn
  BY <1>5, ReturnedCall
<1> QED BY <1>3, <1>4, <1>5, <1>6, QuietStep

\* The thread is back with the job of its key.
LEMMA SubmitBindInv ==
  ASSUME IInv, NEW i \in Calls, SubmitBind(i)
  PROVE  IInv'
<1>0. CallsTypeOK /\ PermitsOK /\ RestTypeOK
  BY TypeParts DEF IInv
<1>1. call[i].pc = "bind" /\ Return(i)
  BY DEF SubmitBind, At
<1>2. UNCHANGED <<mode, permits, told, attempt, wire, job, dispatched, heard, unheard>>
  BY DEF SubmitBind, gatewayVars, ghosts
<1>3. PICK t \in Tasks, c \in Coordinators, j \in KeyedJobs :
        t = call[i].t /\ c = call[i].c /\ j = JobOf(i)
  BY <1>0, <1>1, CallAt, AttemptAt
<1>4. /\ CallsTypeOK' /\ PermitsOK'
      /\ \A n \in Calls : call'[n] = NoCall \/ call'[n] = call[n]
  BY <1>0, <1>1, <1>2, LastReturn DEF ThreadPCs
<1>5. CASE Bindable(t, call[i].k, j) /\ bind_job(t, call[i].k, j)
           /\ watch' \in {watch, Tracked(c, j, WatcherOf(call[i].how))}
  <2>1. lease[t] # NoRow
    BY <1>5 DEF Bindable, Holds
  <2>2. PICK w \in Watchers \ {"none"} :
          w = WatcherOf(call[i].how) /\ (w = "accounted" => call[i].how = "accounted")
    BY <1>0, <1>1, AttemptAt, CallAt, WatcherOfType
  <2>3. w = "accounted" => j \in heard
    BY <1>1, <1>3, <2>2, AttemptAt DEF IInv, ToldHeard
  <2>4. RestTypeOK' /\ WatchKept
    <3>1. watch' = watch \/ watch' = Tracked(c, j, w)
      BY <1>5, <2>2
    <3>2. watch' \in [Coordinators -> [KeyedJobs -> Watchers]] /\ WatchKept
      <4>1. CASE watch' = watch
        BY <1>0, <1>2, <4>1, WatchSame DEF RestTypeOK
      <4>2. CASE watch' = Tracked(c, j, w)
        BY <1>0, <1>2, <2>2, <2>3, <4>2, TrackedKept DEF IInv
      <4> QED BY <3>1, <4>1, <4>2
    <3> QED BY <1>0, <1>2, <3>2 DEF RestTypeOK
  <2> QED BY <1>2, <1>4, <1>5, <2>1, <2>4, BoundInv
<1>6. CASE UNCHANGED <<tables, watch>>
  <2>2. RestTypeOK'
    BY <1>0, <1>2, <1>6 DEF RestTypeOK
  <2>3. FilesKept /\ JobsGoOn /\ HeardKept /\ wire' \subseteq wire
    BY <1>2, <1>6, RestKept
  <2>4. CallsGoOn
    BY <1>2, <1>4, <2>3, ReturnedCall
  <2> QED BY <1>2, <1>4, <1>6, <2>2, <2>3, <2>4, CallOnly
<1> QED BY <1>3, <1>5, <1>6 DEF SubmitBind

\* The sweep binds the job that the resolver finds.
LEMMA SweepBindInv ==
  ASSUME IInv, NEW c \in Coordinators, NEW t \in Tasks, SweepBind(c, t)
  PROVE  IInv'
<1>0. CallsTypeOK /\ PermitsOK /\ RestTypeOK
  BY TypeParts DEF IInv
<1>1. UNCHANGED <<mode, permits, watch, told, call, attempt, wire, job, dispatched, heard, unheard>>
  BY DEF SweepBind, procVars, gatewayVars, ghosts
<1>2. CallsTypeOK' /\ RestTypeOK'
  BY <1>0, <1>1 DEF CallsTypeOK, RestTypeOK
<1>3. PermitsOK'
  BY <1>0, <1>1, ThreadsKept
<1>4. PICK j \in KeyedJobs : lease[t] # NoRow /\ bind_job(t, lease[t].token, j)
  BY DEF SweepBind
<1>5. WatchKept
  BY <1>1 DEF WatchKept, IInv, ToldHeard
<1> QED BY <1>1, <1>2, <1>3, <1>4, <1>5, BoundInv

\* Steps of a coordinator that touch neither tables nor calls.
LEMMA ObserverInv ==
  ASSUME IInv, NEW c \in Coordinators, NEW j \in KeyedJobs, SweepTrack(c, j) \/ NotifyObserver(c, j)
  PROVE  IInv'
<1>0. CallsTypeOK /\ PermitsOK /\ RestTypeOK
  BY TypeParts DEF IInv
<1>1. UNCHANGED <<tables, mode, permits, call, attempt, wire, job, dispatched>>
  BY DEF SweepTrack, NotifyObserver, gatewayVars, ghosts
<1>2. RestTypeOK' /\ HeardKept
  <2>1. CASE SweepTrack(c, j)
    <3>1. UNCHANGED <<told, heard, unheard>>
      BY <2>1 DEF SweepTrack, ghosts
    <3>2. PICK how \in Callers : watch' = Tracked(c, j, WatcherOf(how))
      BY <2>1 DEF SweepTrack, Sweepers
    <3>3. WatcherOf(how) \in Watchers \ {"none", "accounted"}
      BY WatcherOfType, FleetRuntimeAssumption
    <3>4. /\ watch' \in [Coordinators -> [KeyedJobs -> Watchers]]
          /\ \A d \in Coordinators, x \in KeyedJobs :
               watch'[d][x] = "accounted" => watch[d][x] = "accounted"
      BY <1>0, <3>2, <3>3, TrackedType
    <3> QED BY <1>0, <1>1, <3>1, <3>4 DEF RestTypeOK, HeardKept, WatchKept, IInv, ToldHeard
  <2>2. CASE NotifyObserver(c, j)
    BY <1>0, <1>1, <2>2 DEF NotifyObserver, RestTypeOK, HeardKept, WatchKept, IInv, ToldHeard
  <2> QED BY <2>1, <2>2
<1>3. CallsTypeOK' /\ PermitsOK'
  BY <1>0, <1>1, ThreadsKept DEF CallsTypeOK
<1>4. FilesKept /\ JobsGoOn
  BY <1>1 DEF FilesKept, JobsGoOn, Ended
<1>5. CallsGoOn
  BY <1>1, <1>2, <1>4, ReturnedCall DEF HeardKept
<1> QED BY <1>1, <1>2, <1>3, <1>4, <1>5, CallOnly

\* A heartbeat is an activity of the lease and changes nothing else.
LEMMA HeartbeatInv ==
  ASSUME IInv, NEW t \in Tasks, Heartbeat(t)
  PROVE  IInv'
<1>0. TablesTypeOK /\ CallsTypeOK /\ PermitsOK /\ RestTypeOK
  BY TypeParts DEF IInv
<1>1. UNCHANGED <<mode, permits, watch, told, call, attempt, wire, job, dispatched, heard, unheard>>
  BY DEF Heartbeat, procVars, gatewayVars, ghosts
<1>2. heartbeat(t, lease[t].token)
  BY DEF Heartbeat
<1>3. /\ TablesTypeOK'
      /\ lease'[t] # NoRow /\ lease'[t].token = lease[t].token
      /\ lease'[t].submit_state = lease[t].submit_state
      /\ \A u \in Tasks : u # t => lease'[u] = lease[u]
  BY <1>0, <1>2, HeartbeatTables
<1>4. RowsKept /\ UNCHANGED <<outcome, tombs, drawn>>
  BY <1>2, <1>3 DEF RowsKept, heartbeat, Holds
<1>5. CallsTypeOK' /\ PermitsOK' /\ RestTypeOK'
  BY <1>0, <1>1, ThreadsKept DEF CallsTypeOK, RestTypeOK
<1>6. TypeOK'
  BY <1>3, <1>5, TypePartsNext
<1>7. FilesKept /\ JobsGoOn /\ HeardKept /\ wire' \subseteq wire
  BY <1>1, RestKept
<1>8. CallsGoOn
  BY <1>1, <1>7, ReturnedCall
<1> QED BY <1>1, <1>4, <1>6, <1>7, <1>8, QuietStep

\* The configured capacity of the pool changes; no lease does.
LEMMA ConfigurePoolInv ==
  ASSUME IInv, NEW new \in Capacities, NEW expected \in Capacities, ConfigurePool(new, expected)
  PROVE  IInv'
<1>0. TablesTypeOK /\ CallsTypeOK /\ PermitsOK /\ RestTypeOK
  BY TypeParts DEF IInv
<1>1. UNCHANGED <<mode, permits, watch, told, call, attempt, wire, job, dispatched, heard, unheard>>
  BY DEF ConfigurePool, procVars, gatewayVars, ghosts
<1>2. capacity' = new /\ UNCHANGED <<lease, outcome, tombs, drawn>>
  BY DEF ConfigurePool, configure_pool
<1>3. TablesTypeOK' /\ RowsKept
  BY <1>0, <1>2 DEF TablesTypeOK, RowsKept
<1>4. CallsTypeOK' /\ PermitsOK' /\ RestTypeOK'
  BY <1>0, <1>1, ThreadsKept DEF CallsTypeOK, RestTypeOK
<1>5. TypeOK'
  BY <1>3, <1>4, TypePartsNext
<1>6. FilesKept /\ JobsGoOn /\ HeardKept /\ wire' \subseteq wire
  BY <1>1, RestKept
<1>7. CallsGoOn
  BY <1>1, <1>6, ReturnedCall
<1> QED BY <1>1, <1>2, <1>3, <1>5, <1>6, <1>7, QuietStep

\* A process closes, ends or starts.
LEMMA CloseInv ==
  ASSUME IInv, NEW c \in Coordinators, Close(c)
  PROVE  IInv'
<1>0. CallsTypeOK /\ PermitsOK /\ RestTypeOK
  BY TypeParts DEF IInv
<1>1. UNCHANGED <<tables, permits, told, call, attempt, wire, job, dispatched, heard, unheard>>
  BY DEF Close, gatewayVars, ghosts
<1>2. CallsTypeOK' /\ PermitsOK'
  BY <1>0, <1>1, ThreadsKept DEF CallsTypeOK
<1>3. RestTypeOK'
  BY <1>0, <1>1, NoWatcher DEF RestTypeOK, Close
<1>6. WatchKept
  <2>1. /\ watch'[c] = NoWatchers /\ UNCHANGED heard
        /\ \A d \in Coordinators : d # c => watch'[d] = watch[d]
    BY <1>0 DEF Close, RestTypeOK, ghosts
  <2> QED BY <2>1, NoWatcher DEF WatchKept, IInv, ToldHeard
<1>4. FilesKept /\ JobsGoOn /\ HeardKept /\ wire' \subseteq wire
  BY <1>1, <1>6, RestKept
<1>5. CallsGoOn
  BY <1>1, <1>4, ReturnedCall
<1> QED BY <1>1, <1>2, <1>3, <1>4, <1>5, CallOnly

\* The calls of a process end with it, and its permits are new.
LEMMA StopInv ==
  ASSUME IInv, NEW c \in Coordinators, Stop(c)
  PROVE  IInv'
<1>0. CallsTypeOK /\ PermitsOK /\ RestTypeOK
  BY TypeParts DEF IInv
<1>1. UNCHANGED <<tables, attempt, wire, job, dispatched, heard, unheard>>
  BY DEF Stop, gatewayVars, ghosts
<1>2. \A n \in Calls : call'[n] = IF call[n] # NoCall /\ call[n].c = c THEN NoCall ELSE call[n]
  BY DEF Stop
<1>3. CallsTypeOK'
  BY <1>0 DEF Stop, CallsTypeOK
<1>4. PermitsOK'
  <2>1. Threads(c)' = {} /\ Cardinality({}) = 0
    BY <1>2, FS_EmptySet DEF Threads
  <2>2. \A d \in Coordinators : d # c => Threads(d)' = Threads(d)
    BY <1>2 DEF Threads
  <2>3. /\ permits' \in [Coordinators -> 0 .. GateSize] /\ permits'[c] = GateSize
        /\ \A d \in Coordinators : d # c => permits'[d] = permits[d]
    BY <1>0, FleetRuntimeAssumption DEF Stop, PermitsOK
  <2>4. permits'[c] + Cardinality(Threads(c)') = GateSize
    BY <2>1, <2>3, FleetRuntimeAssumption
  <2> QED BY <1>0, <2>2, <2>3, <2>4 DEF PermitsOK
<1>5. RestTypeOK'
  BY <1>0, <1>1, NoWatcher DEF RestTypeOK, Stop
<1>6. FilesKept /\ JobsGoOn /\ wire' \subseteq wire
  BY <1>1 DEF FilesKept, JobsGoOn, Ended
<1>9. WatchKept
  BY <1>0, <1>1, NoWatcher DEF Stop, WatchKept, RestTypeOK, IInv, ToldHeard
<1>7. HeardKept
  BY <1>0, <1>1, <1>9 DEF HeardKept, Stop, IInv, ToldHeard, RestTypeOK
<1>8. CallsGoOn
  BY <1>1, <1>2, <1>6, ReturnedCall
<1> QED BY <1>1, <1>3, <1>4, <1>5, <1>6, <1>7, <1>8, CallOnly

\* A replaced process was seen by no lease; the gateway and the executor take
\* requests and workers with them.
LEMMA ReplacedInv ==
  ASSUME IInv, NEW p, lease' = Replaced(p), UNCHANGED <<capacity, outcome, tombs, drawn>>,
         RestTypeOK', wire' \subseteq wire, JobsGoOn,
         UNCHANGED <<permits, watch, told, call, attempt, dispatched, heard, unheard>>
  PROVE  IInv'
<1>0. TablesTypeOK /\ CallsTypeOK /\ PermitsOK
  BY TypeParts DEF IInv
<1>1. TablesTypeOK' /\ RowsKept
  BY <1>0, ReplacedTables DEF RowsKept
<1>2. CallsTypeOK' /\ PermitsOK'
  BY <1>0, ThreadsKept DEF CallsTypeOK
<1>3. TypeOK'
  BY <1>1, <1>2, TypePartsNext
<1>4. FilesKept /\ HeardKept
  BY WatchSame DEF FilesKept, HeardKept, IInv, ToldHeard
<1>5. CallsGoOn
  BY <1>4, ReturnedCall
<1> QED BY <1>1, <1>3, <1>4, <1>5, QuietStep

\* A coordinator starts again.
LEMMA StartInv ==
  ASSUME IInv, NEW c \in Coordinators, Start(c)
  PROVE  IInv'
<1>0. RestTypeOK
  BY TypeParts DEF IInv
<1>1. /\ UNCHANGED <<capacity, outcome, tombs, drawn, permits, watch, told, call, attempt, wire, job,
                     dispatched, heard, unheard>>
      /\ lease' = Replaced(c)
  BY DEF Start, gatewayVars, ghosts
<1>2. RestTypeOK'
  BY <1>0, <1>1 DEF RestTypeOK, Start
<1>3. JobsGoOn
  BY <1>1 DEF JobsGoOn, Ended
<1> QED BY <1>1, <1>2, <1>3, ReplacedInv

\* The steps of the gateway and of the execution plane.
LEMMA GatewayInv ==
  ASSUME IInv, Gateway
  PROVE  IInv'
<1>0. TablesTypeOK /\ CallsTypeOK /\ PermitsOK /\ RestTypeOK
  BY TypeParts DEF IInv
<1>1. ASSUME NEW j \in KeyedJobs,
             GatewayAccept(j) \/ GatewayLose(j) \/ JobEnds(j) \/ GatewayForgets(j)
      PROVE  IInv'
  <2>1. UNCHANGED <<tables, mode, permits, watch, told, call, attempt, dispatched, heard, unheard>>
    BY <1>1 DEF GatewayAccept, GatewayLose, JobEnds, GatewayForgets, procVars, ghosts
  <2>2. /\ wire' \subseteq wire /\ job' \in [KeyedJobs -> JobStates] /\ JobsGoOn
    BY <1>0, <1>1 DEF GatewayAccept, GatewayLose, JobEnds, GatewayForgets, RestTypeOK, JobStates,
                      JobsGoOn, Ended
  <2>3. CallsTypeOK' /\ PermitsOK'
    BY <1>0, <2>1, ThreadsKept DEF CallsTypeOK
  <2>4. RestTypeOK' /\ FilesKept /\ HeardKept
    BY <1>0, <2>1, <2>2 DEF RestTypeOK, FilesKept, HeardKept, WatchKept, IInv, ToldHeard
  <2>5. CallsGoOn
    BY <2>1, <2>4, ReturnedCall
  <2> QED BY <2>1, <2>2, <2>3, <2>4, <2>5, CallOnly
<1>2. ASSUME NEW p \in Plane, Replace(p)
      PROVE  IInv'
  <2>1. /\ UNCHANGED <<capacity, outcome, tombs, drawn, mode, permits, watch, told, call, attempt,
                       dispatched, heard, unheard>>
        /\ lease' = Replaced(p)
    BY <1>2 DEF Replace, procVars, ghosts
  <2>2. wire' \subseteq wire /\ job' \in [KeyedJobs -> JobStates] /\ JobsGoOn
    BY <1>0, <1>2 DEF Replace, RestTypeOK, JobStates, JobsGoOn, Ended
  <2>3. RestTypeOK'
    BY <1>0, <2>1, <2>2 DEF RestTypeOK
  <2> QED BY <2>1, <2>2, <2>3, ReplacedInv
<1> QED BY <1>1, <1>2 DEF Gateway

\* A step that changes nothing.
LEMMA StutterInv ==
  ASSUME IInv, UNCHANGED vars
  PROVE  IInv'
<1>0. CallsTypeOK /\ PermitsOK /\ RestTypeOK
  BY TypeParts DEF IInv
<1>1. UNCHANGED <<tables, mode, permits, watch, told, call, attempt, wire, job, dispatched, heard, unheard>>
  BY DEF vars, procVars, gatewayVars, ghosts
<1>2. CallsTypeOK' /\ PermitsOK' /\ RestTypeOK'
  BY <1>0, <1>1, ThreadsKept DEF CallsTypeOK, RestTypeOK
<1>3. FilesKept /\ JobsGoOn /\ HeardKept /\ wire' \subseteq wire
  BY <1>1, RestKept
<1>4. CallsGoOn
  BY <1>1, <1>3, ReturnedCall
<1> QED BY <1>1, <1>2, <1>3, <1>4, CallOnly

\* Every step keeps the invariant.
LEMMA NextInv ==
  ASSUME IInv, [Next]_vars
  PROVE  IInv'
<1>1. ASSUME NEW c \in Coordinators, Coordinator(c) PROVE IInv'
  BY <1>1, SubmitAdmitInv, SweepReclaimInv, SweepBindInv, OperatorReconcileInv, ObserverInv,
     WatcherSettlesInv, SweepSettlesInv, CloseInv, StopInv, StartInv DEF Coordinator
<1>2. ASSUME NEW i \in Calls, CallStep(i) PROVE IInv'
  BY <1>2, SubmitResolveInv, SubmitEndsInv, SubmitMarkInv, SubmitUndoInv, SubmitSendInv,
     SubmitAnsweredInv, SubmitRecordInv, SubmitAwaitInv, SubmitBindInv, SubmitLocalCompleteInv DEF CallStep
<1> QED BY <1>1, <1>2, GatewayInv, HeartbeatInv, ConfigurePoolInv, StutterInv DEF Next

----------------------------------------------------------------------------
(* The theorems *)

\* The invariant holds of every execution.
THEOREM FleetInvariant == Spec => []IInv
<1>1. IInv /\ [Next]_vars => IInv'
  BY NextInv
<1> QED BY <1>1, InitInv, PTL DEF Spec

\* The tables, the calls and the permits keep their types; a coordinator has as
\* many permits out as threads under way (_gateway_io_gate).
THEOREM FleetTypes == Spec => []TypeOK
<1>1. IInv => TypeOK
  BY DEF IInv
<1> QED BY <1>1, FleetInvariant, PTL

\* Admissions, reclaims and releases never leave more leases than the largest
\* configured capacity (acquire_slot).
THEOREM FleetCapacity == Spec => []WithinCapacity
<1>1. IInv => WithinCapacity
  BY DEF IInv
<1> QED BY <1>1, FleetInvariant, PTL

\* The gateway never starts a second worker for a task
\* (resolve_task_attempt_identity).
THEOREM FleetOneWorker == Spec => []OneWorkerPerTask
<1>1. IInv => OneWorkerPerTask
  <2> SUFFICES ASSUME IInv, NEW t \in Tasks, NEW a \in Attempts, NEW b \in Attempts,
                      job[<<t, a>>] # "none", job[<<t, b>>] # "none"
               PROVE  a = b
    BY DEF OneWorkerPerTask
  <2>1. <<t, a>> \in KeyedJobs /\ <<t, b>> \in KeyedJobs
    BY DEF KeyedJobs
  <2> QED BY <2>1 DEF IInv, OneAttempt, Names
<1> QED BY <1>1, FleetInvariant, PTL

\* A lease that was given back as never dispatched was not dispatched and will
\* not be (release_never_dispatched, mark_submit_attempted).
THEOREM FleetReclaims == Spec => []ReclaimedNeverDispatched
<1>1. IInv => ReclaimedNeverDispatched
  <2> SUFFICES ASSUME IInv, NEW k \in LeaseTokens, tombs[k] = "never_dispatched"
               PROVE  /\ k \notin dispatched
                      /\ \A i \in Calls : call[i] # NoCall /\ call[i].k = k => ~At(i, "send")
    BY DEF ReclaimedNeverDispatched
  <2>1. ~Marked(k)
    BY DEF Marked
  <2> QED BY <2>1 DEF IInv, DispatchMarked, Committed, At
<1> QED BY <1>1, FleetInvariant, PTL

\* A running worker has a lease or its task an outcome (submit,
\* sweep_unbound_leases).
THEOREM FleetWorkers == Spec => []WorkerLeasedOrTerminal
<1>1. IInv => WorkerLeasedOrTerminal
  BY DEF IInv, WorkOccupies, Occupied, WorkerLeasedOrTerminal
<1> QED BY <1>1, FleetInvariant, PTL

\* The job of an outcome is over and the router has heard of it, from an observer
\* or from a synchronous caller, unless a watcher or a sweep without an observer
\* released it (reconcile_gateway_result, _notify_terminal_observer).
THEOREM FleetReleases == Spec => []ReleasedWhenEnded
<1>1. IInv => ReleasedWhenEnded
  BY DEF IInv
<1> QED BY <1>1, FleetInvariant, PTL
=============================================================================
