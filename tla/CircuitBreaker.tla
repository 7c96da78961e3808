--------------------------- MODULE CircuitBreaker ---------------------------
(***************************************************************************)
(* The circuit breakers that guard SSH connects, one per host, and the     *)
(* registry that keeps the recently used ones (app/circuit_breaker.py),    *)
(* with the connects that use them (app/ssh_manager.py).                   *)
(*                                                                         *)
(* The locks of breakers and registry are never held across an await, so   *)
(* each method is atomic, and so are the lookup and the question           *)
(* can_execute together.  The TCP and SSH handshake runs in a thread: what *)
(* it reports is recorded when the breaker may be in another state, or     *)
(* may no longer be the one that the registry hands out.                   *)
(***************************************************************************)
EXTENDS Naturals, Sequences, FiniteSets

CONSTANTS
    Hosts,              \* SSH targets
    Attempts,           \* connects that may be under way at the same time
    FailureThreshold,   \* failure_threshold
    HalfOpenMaxCalls,   \* half_open_max_calls
    MaxBreakers,        \* max_size of the registry
    Outcomes,           \* how a connect may end (subset of ConnectOutcomes)
    MaxFailures         \* bound: failure_count

\* "unproven": the credentials were rejected, the private key did not load, or
\* the call was cancelled; none of them is reported to the breaker.
ConnectOutcomes == {"connected", "unreachable", "unproven"}

ASSUME BreakerAssumption ==
    /\ IsFiniteSet(Attempts)
    /\ FailureThreshold \in Nat \ {0} /\ HalfOpenMaxCalls \in Nat \ {0}
    /\ MaxBreakers \in Nat \ {0} /\ MaxFailures \in Nat
    /\ Outcomes \subseteq ConnectOutcomes

VARIABLES
    state,      \* host -> state of its breaker (fresh if it has none)
    failures,   \* host -> failure_count
    successes,  \* host -> success_count
    calls,      \* host -> half_open_calls
    cooled,     \* hosts whose last failure is recovery_timeout seconds ago
    order,      \* _access_order: hosts with a breaker, least recent first
    dials,      \* attempts that the breaker let through and that are dialling
    target,     \* attempt -> host it dials
    stale,      \* attempts that hold a breaker the registry has evicted
    probes,     \* attempts that hold a slot of the current half-open period
    lost        \* hosts with a slot of that period that ended without a report

breakerVars == <<state, failures, successes, calls, cooled>>
vars == <<breakerVars, order, dials, target, stale, probes, lost>>

CountersTypeOK ==
    /\ state \in [Hosts -> {"closed", "open", "half_open"}]
    /\ failures \in [Hosts -> 0 .. MaxFailures]
    /\ successes \in [Hosts -> Nat]
    /\ calls \in [Hosts -> Nat]
    /\ cooled \subseteq Hosts

DialsTypeOK ==
    /\ dials \subseteq Attempts /\ stale \subseteq dials /\ probes \subseteq dials
    /\ target \in [Attempts -> Hosts] /\ lost \subseteq Hosts

\* The type invariant of the breakers, of the registry and of the connects.
BreakerTypeOK == CountersTypeOK /\ DialsTypeOK /\ order \in Seq(Hosts)

Init ==
    /\ state = [h \in Hosts |-> "closed"]
    /\ failures = [h \in Hosts |-> 0]
    /\ successes = [h \in Hosts |-> 0]
    /\ calls = [h \in Hosts |-> 0]
    /\ cooled = {} /\ order = <<>>
    /\ dials = {} /\ stale = {} /\ probes = {} /\ lost = {}
    /\ target \in [Attempts -> Hosts]

----------------------------------------------------------------------------
(* CircuitBreakerRegistry.get_breaker *)

Known == {order[i] : i \in 1 .. Len(order)}

\* The host whose breaker makes room for a new one.
Evicted(h) ==
    IF h \notin Known /\ Len(order) >= MaxBreakers THEN {order[1]} ELSE {}

\* A new breaker comes last, and so does one that was asked for again.
get_breaker(h) ==
    \/ /\ h \notin Known
       /\ order' = Append(IF Evicted(h) = {} THEN order ELSE Tail(order), h)
    \/ \E i \in 1 .. Len(order) :
         /\ order[i] = h
         /\ order' = Append(SubSeq(order, 1, i - 1) \o SubSeq(order, i + 1, Len(order)), h)

----------------------------------------------------------------------------
(* CircuitBreaker.can_execute *)

\* An open breaker becomes half-open when it is asked after the timeout.
HalfOpens(h) == state[h] = "open" /\ h \in cooled

AskedState(h) == IF HalfOpens(h) THEN "half_open" ELSE state[h]

\* Mutant: a new half-open period inherits the slots of the last one.
SlotsTaken_not_reset(h) == calls[h]

SlotsTaken(h) == IF HalfOpens(h) THEN 0 ELSE calls[h]

\* Mutant: one probe too many.
TakesSlot_off_by_one(h) ==
    AskedState(h) = "half_open" /\ SlotsTaken(h) <= HalfOpenMaxCalls

TakesSlot(h) == AskedState(h) = "half_open" /\ SlotsTaken(h) < HalfOpenMaxCalls

can_execute(h) == AskedState(h) = "closed" \/ TakesSlot(h)

\* A connect that the pool cannot serve asks the breaker of its host.
Connect(a, h) ==
    LET gone == Evicted(h)
    IN /\ a \notin dials
       /\ get_breaker(h)
       /\ state' = [x \in Hosts |-> IF x \in gone THEN "closed"
                                    ELSE IF x = h THEN AskedState(h) ELSE state[x]]
       /\ calls' = [x \in Hosts |->
                      IF x \in gone THEN 0
                      ELSE IF x = h
                             THEN IF TakesSlot(h) THEN SlotsTaken(h) + 1 ELSE SlotsTaken(h)
                             ELSE calls[x]]
       /\ failures' = [x \in Hosts |-> IF x \in gone THEN 0 ELSE failures[x]]
       /\ successes' = [x \in Hosts |-> IF x \in gone THEN 0 ELSE successes[x]]
       /\ cooled' = cooled \ gone
       /\ dials' = IF can_execute(h) THEN dials \cup {a} ELSE dials
       /\ target' = IF can_execute(h) THEN [target EXCEPT ![a] = h] ELSE target
       /\ stale' = stale \cup {b \in dials : target[b] \in gone}
       /\ probes' = {b \in probes : target[b] \notin gone
                                      /\ (target[b] = h => ~HalfOpens(h))}
                      \cup (IF TakesSlot(h) THEN {a} ELSE {})
       /\ lost' = lost \ (gone \cup (IF HalfOpens(h) THEN {h} ELSE {}))

----------------------------------------------------------------------------
(* The end of a connect *)

Ends(a) ==
    /\ dials' = dials \ {a} /\ stale' = stale \ {a} /\ probes' = probes \ {a}
    /\ UNCHANGED <<order, target>>

\* A success takes one failure back.
Decayed(n) == IF n = 0 THEN 0 ELSE n - 1

record_success(h) ==
    IF state[h] = "half_open"
      THEN IF successes[h] + 1 >= HalfOpenMaxCalls
             THEN /\ state' = [state EXCEPT ![h] = "closed"]
                  /\ failures' = [failures EXCEPT ![h] = 0]
                  /\ successes' = [successes EXCEPT ![h] = 0]
                  /\ calls' = [calls EXCEPT ![h] = 0]
                  /\ UNCHANGED cooled
             ELSE /\ successes' = [successes EXCEPT ![h] = @ + 1]
                  /\ UNCHANGED <<state, failures, calls, cooled>>
      ELSE /\ failures' = [failures EXCEPT ![h] = Decayed(@)]
           /\ UNCHANGED <<state, successes, calls, cooled>>

record_failure(h) ==
    /\ failures[h] < MaxFailures
    /\ failures' = [failures EXCEPT ![h] = @ + 1]
    /\ cooled' = cooled \ {h}
    /\ state' = IF state[h] = "half_open" \/ failures[h] + 1 >= FailureThreshold
                THEN [state EXCEPT ![h] = "open"] ELSE state
    /\ UNCHANGED <<successes, calls>>

\* A connect whose breaker has been evicted reports to an object nobody asks.
Connected(a) ==
    /\ a \in dials /\ "connected" \in Outcomes
    /\ IF a \in stale THEN UNCHANGED breakerVars ELSE record_success(target[a])
    /\ Ends(a) /\ UNCHANGED lost

Unreachable(a) ==
    /\ a \in dials /\ "unreachable" \in Outcomes
    /\ IF a \in stale THEN UNCHANGED breakerVars ELSE record_failure(target[a])
    /\ Ends(a) /\ UNCHANGED lost

Unproven(a) ==
    /\ a \in dials /\ "unproven" \in Outcomes
    /\ UNCHANGED breakerVars
    /\ lost' = IF a \in probes THEN lost \cup {target[a]} ELSE lost
    /\ Ends(a)

\* recovery_timeout has passed since the last failure of an open breaker.
Cool(h) ==
    /\ state[h] = "open" /\ h \notin cooled
    /\ cooled' = cooled \cup {h}
    /\ UNCHANGED <<state, failures, successes, calls, order, dials, target, stale, probes,
                   lost>>

Next ==
    \/ \E a \in Attempts : \/ Connected(a) \/ Unreachable(a) \/ Unproven(a)
                           \/ \E h \in Hosts : Connect(a, h)
    \/ \E h \in Hosts : Cool(h)

Spec == Init /\ [][Next]_vars

----------------------------------------------------------------------------
(* What the breaker promises *)

Probing(h) == {a \in probes : target[a] = h}

\* While a breaker is half-open, at most half_open_max_calls of the connects it
\* let through on trial are under way, whatever earlier connects report.
ProbesBounded ==
    \A h \in Hosts :
        state[h] = "half_open" => Cardinality(Probing(h)) <= HalfOpenMaxCalls

\* A half-open breaker that refuses connects is waiting for one that will
\* report to it, as long as all its trial connects report: it has no other way
\* out of that state.
FullWaitsForReport ==
    \A h \in Hosts \ lost :
        state[h] = "half_open" /\ calls[h] >= HalfOpenMaxCalls =>
            \E a \in dials \ stale : target[a] = h

\* Rejected credentials do not deny service to later connects: a breaker that
\* refuses them is open until its timeout, or waits for a report.
HalfOpenResolves ==
    \A h \in Hosts :
        state[h] = "half_open" /\ calls[h] >= HalfOpenMaxCalls =>
            \E a \in dials \ stale : target[a] = h
=============================================================================
