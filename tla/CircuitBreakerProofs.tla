------------------------ MODULE CircuitBreakerProofs ------------------------
(***************************************************************************)
(* Proofs about CircuitBreaker, for any hosts, any finite number of        *)
(* concurrent connects, any thresholds and any registry size.              *)
(***************************************************************************)
EXTENDS CircuitBreaker, FiniteSetTheorems, TLAPS

\* What is true of the counters of a half-open breaker: every trial connect
\* under way has a slot, and every slot whose connect is over, and was not
\* lost, has been counted as a success.
SlotsAccounted(h) ==
    /\ Cardinality(Probing(h)) <= calls[h]
    /\ h \notin lost => calls[h] <= successes[h] + Cardinality(Probing(h))

\* The inductive invariant.
BreakerInv ==
    /\ CountersTypeOK /\ DialsTypeOK
    /\ \A h \in Hosts : calls[h] <= HalfOpenMaxCalls /\ successes[h] < HalfOpenMaxCalls
    /\ probes \cap stale = {}
    /\ \A h \in Hosts : state[h] = "half_open" => SlotsAccounted(h)

\* The trial connects of a host are finitely many.
LEMMA ProbingFinite ==
  ASSUME DialsTypeOK, NEW h
  PROVE  IsFiniteSet(Probing(h)) /\ Cardinality(Probing(h)) \in Nat
<1>1. Probing(h) \in SUBSET Attempts
  BY DEF DialsTypeOK, Probing
<1>2. IsFiniteSet(Probing(h))
  BY <1>1, BreakerAssumption, FS_Subset
<1> QED BY <1>2, FS_CardinalityType

\* No breaker starts half-open.
LEMMA BreakerInit == Init => BreakerInv
BY BreakerAssumption DEF Init, BreakerInv, CountersTypeOK, DialsTypeOK

\* The invariant bounds the trial connects (can_execute).
LEMMA InvBounds == BreakerInv => ProbesBounded
<1> SUFFICES ASSUME BreakerInv, NEW h \in Hosts, state[h] = "half_open"
             PROVE  Cardinality(Probing(h)) <= HalfOpenMaxCalls
  BY DEF ProbesBounded
<1>1. Cardinality(Probing(h)) \in Nat
  BY ProbingFinite DEF BreakerInv
<1> QED BY <1>1, BreakerAssumption DEF BreakerInv, SlotsAccounted, CountersTypeOK

\* The invariant leaves a reporting connect to every full half-open breaker.
LEMMA InvWaits == BreakerInv => FullWaitsForReport
<1> SUFFICES ASSUME BreakerInv, NEW h \in Hosts \ lost, state[h] = "half_open",
                    calls[h] >= HalfOpenMaxCalls
             PROVE  \E a \in dials \ stale : target[a] = h
  BY DEF FullWaitsForReport
<1>1. IsFiniteSet(Probing(h)) /\ Cardinality(Probing(h)) \in Nat
  BY ProbingFinite DEF BreakerInv
<1>2. Cardinality(Probing(h)) # 0
  BY <1>1, BreakerAssumption DEF BreakerInv, SlotsAccounted, CountersTypeOK
<1>3. Probing(h) # {}
  BY <1>2, FS_EmptySet
<1> QED BY <1>3 DEF BreakerInv, DialsTypeOK, Probing

\* A connect that ends takes at most itself out of the trial connects.
LEMMA EndsProbing ==
  ASSUME DialsTypeOK, NEW a, Ends(a), NEW h
  PROVE  /\ Probing(h)' = Probing(h) \ {a}
         /\ Cardinality(Probing(h))' =
              IF a \in Probing(h) THEN Cardinality(Probing(h)) - 1
              ELSE Cardinality(Probing(h))
<1>1. Probing(h)' = Probing(h) \ {a}
  BY DEF Ends, Probing
<1>2. IsFiniteSet(Probing(h))
  BY ProbingFinite
<1>3. Cardinality(Probing(h) \ {a}) = IF a \in Probing(h) THEN Cardinality(Probing(h)) - 1
                                        ELSE Cardinality(Probing(h))
  BY <1>2, FS_RemoveElement
<1> QED BY <1>1, <1>3

\* Asking for a connect keeps the invariant: it opens a new period with no
\* slot taken, takes a slot, or leaves the slots as they are.
LEMMA ConnectInv ==
  ASSUME BreakerInv, NEW a \in Attempts, NEW h \in Hosts, Connect(a, h)
  PROVE  BreakerInv'
<1> USE DEF BreakerInv
<1>1. CountersTypeOK'
  BY BreakerAssumption DEF Connect, CountersTypeOK, AskedState, SlotsTaken
<1>2. DialsTypeOK'
  BY DEF Connect, DialsTypeOK, can_execute, TakesSlot
<1>3. \A x \in Hosts : calls'[x] <= HalfOpenMaxCalls /\ successes'[x] < HalfOpenMaxCalls
  BY BreakerAssumption DEF Connect, CountersTypeOK, SlotsTaken, TakesSlot
<1>4. (probes \cap stale)' = {}
  BY DEF Connect, DialsTypeOK
<1>5. ASSUME NEW x \in Hosts, state'[x] = "half_open"
      PROVE  SlotsAccounted(x)'
  <2>0. x \notin Evicted(h)
    BY <1>5 DEF Connect, CountersTypeOK
  <2>1. IsFiniteSet(Probing(x)) /\ Cardinality(Probing(x)) \in Nat
    BY ProbingFinite
  <2>2. CASE x # h
    <3>1. Probing(x)' = Probing(x)
      <4>1. \A b \in Attempts : b # a => target'[b] = target[b]
        BY DEF Connect, DialsTypeOK
      <4>2. a \notin probes /\ (a \in probes' => target'[a] = h)
        BY DEF Connect, DialsTypeOK, can_execute
      <4>3. \A b \in Attempts : b # a /\ target[b] = x => (b \in probes' <=> b \in probes)
        BY <2>0, <2>2 DEF Connect
      <4> QED BY <1>2, <2>2, <4>1, <4>2, <4>3 DEF Probing, DialsTypeOK
    <3>2. state[x] = "half_open" /\ calls'[x] = calls[x] /\ successes'[x] = successes[x]
      BY <2>0, <2>2, <1>5 DEF Connect, CountersTypeOK
    <3>3. x \notin lost' => x \notin lost
      BY <2>0, <2>2 DEF Connect
    <3> QED BY <3>1, <3>2, <3>3 DEF SlotsAccounted
  <2>3. CASE x = h /\ HalfOpens(h)
    <3>1. TakesSlot(h) /\ SlotsTaken(h) = 0
      BY <2>3, BreakerAssumption DEF TakesSlot, SlotsTaken, AskedState
    <3>2. Probing(h)' = {a}
      BY <2>3, <2>0, <3>1 DEF Connect, Probing, DialsTypeOK, can_execute
    <3>3. calls'[h] = 1 /\ successes'[h] \in Nat
      BY <2>3, <2>0, <3>1, <1>1 DEF Connect, CountersTypeOK
    <3>4. Cardinality({a}) = 1
      BY FS_Singleton
    <3> QED BY <2>3, <3>2, <3>3, <3>4 DEF SlotsAccounted
  <2>4. CASE x = h /\ ~HalfOpens(h) /\ TakesSlot(h)
    <3>1. state[h] = "half_open" /\ calls'[h] = calls[h] + 1 /\ successes'[h] = successes[h]
      BY <2>0, <2>4, <1>5 DEF Connect, CountersTypeOK, AskedState, SlotsTaken
    <3>2. Probing(h)' = Probing(h) \cup {a} /\ a \notin Probing(h)
      BY <2>0, <2>4 DEF Connect, Probing, DialsTypeOK, can_execute
    <3>3. Cardinality(Probing(h) \cup {a}) = Cardinality(Probing(h)) + 1
      BY <2>1, <2>4, <3>2, FS_AddElement
    <3>4. h \notin lost' => h \notin lost
      BY <2>0, <2>4 DEF Connect
    <3>5. SlotsAccounted(h)
      BY <3>1
    <3> QED BY <2>1, <2>4, <3>1, <3>2, <3>3, <3>4, <3>5 DEF SlotsAccounted, CountersTypeOK
  <2>5. CASE x = h /\ ~HalfOpens(h) /\ ~TakesSlot(h)
    <3>1. state[h] = "half_open" /\ calls'[h] = calls[h] /\ successes'[h] = successes[h]
      BY <2>0, <2>5, <1>5 DEF Connect, CountersTypeOK, AskedState, SlotsTaken
    <3>2. Probing(h)' = Probing(h)
      BY <2>0, <2>5, <3>1 DEF Connect, Probing, DialsTypeOK, can_execute, AskedState
    <3>3. h \notin lost' => h \notin lost
      BY <2>0, <2>5 DEF Connect
    <3> QED BY <2>5, <3>1, <3>2, <3>3 DEF SlotsAccounted
  <2> QED BY <2>2, <2>3, <2>4, <2>5
<1> QED BY <1>1, <1>2, <1>3, <1>4, <1>5

\* What every end of a connect leaves alone.
LEMMA EndsShape ==
  ASSUME BreakerInv, NEW a \in Attempts, a \in dials, Ends(a), lost' \subseteq Hosts
  PROVE  DialsTypeOK' /\ (probes \cap stale)' = {}
BY DEF BreakerInv, DialsTypeOK, Ends

\* A success is counted exactly when a slot may be given up for it.
LEMMA ConnectedInv ==
  ASSUME BreakerInv, NEW a \in Attempts, Connected(a)
  PROVE  BreakerInv'
<1> USE DEF BreakerInv
<1>0. Ends(a) /\ a \in dials /\ lost' = lost /\ target[a] \in Hosts
  BY DEF Connected, DialsTypeOK
<1>1. DialsTypeOK' /\ (probes \cap stale)' = {}
  BY <1>0, EndsShape DEF DialsTypeOK
<1>2. CountersTypeOK' /\ \A h \in Hosts : calls'[h] <= HalfOpenMaxCalls
                                           /\ successes'[h] < HalfOpenMaxCalls
  BY <1>0, BreakerAssumption DEF Connected, CountersTypeOK, record_success, Decayed,
                                breakerVars
<1>3. ASSUME NEW h \in Hosts, state'[h] = "half_open"
      PROVE  SlotsAccounted(h)'
  <2>1. Cardinality(Probing(h)) \in Nat
    BY ProbingFinite
  <2>2. Cardinality(Probing(h))' = IF a \in Probing(h) THEN Cardinality(Probing(h)) - 1
                                   ELSE Cardinality(Probing(h))
    BY <1>0, EndsProbing
  <2>3. Cardinality(Probing(h))' \in Nat
    <3>1. DialsTypeOK' BY <1>1
    <3>2. IsFiniteSet(Probing(h)') /\ Cardinality(Probing(h)') \in Nat
      <4>1. Probing(h)' = Probing(h) \ {a} BY <1>0, EndsProbing
      <4>2. IsFiniteSet(Probing(h)) BY ProbingFinite
      <4>3. IsFiniteSet(Probing(h) \ {a}) BY <4>2, FS_RemoveElement
      <4> QED BY <4>1, <4>3, FS_CardinalityType
    <3> QED BY <3>2
  <2>4. CASE a \in stale \/ target[a] # h
    <3>1. state[h] = "half_open" /\ calls'[h] = calls[h] /\ successes'[h] = successes[h]
      BY <1>0, <1>3, <2>4 DEF Connected, CountersTypeOK, record_success, breakerVars
    <3>2. a \notin Probing(h)
      BY <2>4 DEF Probing
    <3> QED BY <1>0, <2>1, <2>2, <3>1, <3>2 DEF SlotsAccounted
  <2>5. CASE a \notin stale /\ target[a] = h
    <3>1. state[h] = "half_open" /\ calls'[h] = calls[h] /\ successes'[h] = successes[h] + 1
      BY <1>0, <1>3, <2>5 DEF Connected, CountersTypeOK, record_success, breakerVars
    <3>2. SlotsAccounted(h) /\ calls[h] \in Nat /\ successes[h] \in Nat
      BY <3>1 DEF CountersTypeOK
    <3> QED BY <1>0, <2>1, <2>2, <2>3, <3>1, <3>2 DEF SlotsAccounted
  <2> QED BY <2>4, <2>5
<1> QED BY <1>1, <1>2, <1>3

\* A failure ends the half-open period of its host and touches no other.
LEMMA UnreachableInv ==
  ASSUME BreakerInv, NEW a \in Attempts, Unreachable(a)
  PROVE  BreakerInv'
<1> USE DEF BreakerInv
<1>0. Ends(a) /\ a \in dials /\ lost' = lost /\ target[a] \in Hosts
  BY DEF Unreachable, DialsTypeOK
<1>1. DialsTypeOK' /\ (probes \cap stale)' = {}
  BY <1>0, EndsShape DEF DialsTypeOK
<1>2. CountersTypeOK' /\ \A h \in Hosts : calls'[h] <= HalfOpenMaxCalls
                                           /\ successes'[h] < HalfOpenMaxCalls
  BY <1>0, BreakerAssumption DEF Unreachable, CountersTypeOK, record_failure, breakerVars
<1>3. ASSUME NEW h \in Hosts, state'[h] = "half_open"
      PROVE  SlotsAccounted(h)'
  <2>1. Cardinality(Probing(h)) \in Nat
    BY ProbingFinite
  <2>2. Cardinality(Probing(h))' = IF a \in Probing(h) THEN Cardinality(Probing(h)) - 1
                                   ELSE Cardinality(Probing(h))
    BY <1>0, EndsProbing
  <2>3. a \in stale \/ target[a] # h
    BY <1>0, <1>3 DEF Unreachable, CountersTypeOK, record_failure
  <2>4. state[h] = "half_open" /\ calls'[h] = calls[h] /\ successes'[h] = successes[h]
    BY <1>0, <1>3, <2>3 DEF Unreachable, CountersTypeOK, record_failure, breakerVars
  <2>5. a \notin Probing(h)
    BY <2>3 DEF Probing
  <2> QED BY <1>0, <2>1, <2>2, <2>4, <2>5 DEF SlotsAccounted
<1> QED BY <1>1, <1>2, <1>3

\* A connect that reports nothing gives its slot up for lost.
LEMMA UnprovenInv ==
  ASSUME BreakerInv, NEW a \in Attempts, Unproven(a)
  PROVE  BreakerInv'
<1> USE DEF BreakerInv
<1>0. Ends(a) /\ a \in dials /\ target[a] \in Hosts
  BY DEF Unproven, DialsTypeOK
<1>1. DialsTypeOK' /\ (probes \cap stale)' = {}
  <2>1. lost' \subseteq Hosts
    BY <1>0 DEF Unproven, DialsTypeOK
  <2> QED BY <1>0, <2>1, EndsShape
<1>2. UNCHANGED breakerVars
  BY DEF Unproven
<1>3. ASSUME NEW h \in Hosts, state[h] = "half_open"
      PROVE  SlotsAccounted(h)'
  <2>1. Cardinality(Probing(h)) \in Nat /\ SlotsAccounted(h) /\ calls[h] \in Nat
    BY <1>3, ProbingFinite DEF CountersTypeOK
  <2>2. Cardinality(Probing(h))' = IF a \in Probing(h) THEN Cardinality(Probing(h)) - 1
                                   ELSE Cardinality(Probing(h))
    BY <1>0, EndsProbing
  <2>3. lost \subseteq lost' /\ (a \in Probing(h) => h \in lost')
    BY DEF Unproven, Probing
  <2> QED BY <1>2, <2>1, <2>2, <2>3 DEF SlotsAccounted, breakerVars
<1> QED BY <1>1, <1>2, <1>3 DEF CountersTypeOK, breakerVars

\* Time only matters to open breakers.
LEMMA CoolInv ==
  ASSUME BreakerInv, NEW h \in Hosts, Cool(h)
  PROVE  BreakerInv'
<1>1. UNCHANGED <<state, failures, successes, calls, order, dials, target, stale, probes,
                  lost>> /\ cooled' = cooled \cup {h}
  BY DEF Cool
<1>2. \A x : Probing(x)' = Probing(x)
  BY <1>1 DEF Probing
<1> QED BY <1>1, <1>2 DEF BreakerInv, CountersTypeOK, DialsTypeOK, SlotsAccounted

\* Every step keeps the invariant.
LEMMA StepInv == BreakerInv /\ [Next]_vars => BreakerInv'
<1> SUFFICES ASSUME BreakerInv, [Next]_vars PROVE BreakerInv'
  OBVIOUS
<1>1. CASE UNCHANGED vars
  <2>1. \A x : Probing(x)' = Probing(x)
    BY <1>1 DEF Probing, vars
  <2> QED
    BY <1>1, <2>1 DEF BreakerInv, CountersTypeOK, DialsTypeOK, SlotsAccounted, vars, breakerVars
<1>2. CASE \E a \in Attempts, h \in Hosts : Connect(a, h)
  BY <1>2, ConnectInv
<1>3. CASE \E a \in Attempts : Connected(a) \/ Unreachable(a) \/ Unproven(a)
  BY <1>3, ConnectedInv, UnreachableInv, UnprovenInv
<1>4. CASE \E h \in Hosts : Cool(h)
  BY <1>4, CoolInv
<1> QED BY <1>1, <1>2, <1>3, <1>4 DEF Next

\* The inductive invariant of the breakers.
LEMMA BreakerInvariant == Spec => []BreakerInv
BY BreakerInit, StepInv, PTL DEF Spec

\* A half-open breaker never has more trial connects under way than
\* half_open_max_calls, although connects of earlier periods report to it and
\* other hosts push it out of the registry (can_execute, get_breaker).
THEOREM BoundedProbes == Spec => []ProbesBounded
BY BreakerInvariant, InvBounds, PTL

\* A half-open breaker whose trial connects all report never refuses connects
\* for good: when its slots are used up, one of those who will change its state
\* is under way (record_success, record_failure).
THEOREM FullBreakerWaits == Spec => []FullWaitsForReport
BY BreakerInvariant, InvWaits, PTL

\* The type invariant of the breakers, their registry and the connects: a breaker
\* that is evicted or moved to the end of _access_order leaves a list of hosts
\* behind (get_breaker).
THEOREM BreakerTypes == Spec => []BreakerTypeOK
<1> DEFINE Listed == order \in Seq(Hosts)
<1>1. ASSUME order \in Seq(Hosts), NEW h \in Hosts, get_breaker(h)
      PROVE  order' \in Seq(Hosts)
  <2>1. CASE order' = Append(IF Evicted(h) = {} THEN order ELSE Tail(order), h)
    <3>1. Evicted(h) # {} => order # << >>
      BY <1>1, BreakerAssumption DEF Evicted
    <3> QED BY <1>1, <2>1, <3>1
  <2>2. ASSUME NEW i \in 1 .. Len(order),
               order' = Append(SubSeq(order, 1, i - 1) \o SubSeq(order, i + 1, Len(order)), h)
        PROVE  order' \in Seq(Hosts)
    <3>1. SubSeq(order, 1, i - 1) \in Seq(Hosts) /\ SubSeq(order, i + 1, Len(order)) \in Seq(Hosts)
      BY <1>1
    <3> QED BY <1>1, <2>2, <3>1
  <2> QED BY <1>1, <2>1, <2>2 DEF get_breaker
<1>2. Listed /\ [Next]_vars => Listed'
  BY <1>1 DEF Next, vars, Connect, Connected, Unreachable, Unproven, Ends, Cool
<1>3. Init => Listed
  BY DEF Init
<1>4. BreakerInv /\ Listed => BreakerTypeOK
  BY DEF BreakerInv, BreakerTypeOK
<1> HIDE DEF Listed
<1> QED BY <1>2, <1>3, <1>4, BreakerInvariant, PTL DEF Spec
=============================================================================
