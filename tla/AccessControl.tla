---------------------------- MODULE AccessControl ---------------------------
(***************************************************************************)
(* Operator decisions about callers: the access-control store and its      *)
(* mirror in Redis (app/access_control.py, app/routers/admin_access.py),   *)
(* and the approvals of single commands in ask mode (app/policy_ask.py,    *)
(* app/command_policy.py, app/routers/admin_approval.py), as the command   *)
(* gate uses them (app/services/command_gate.py).                          *)
(*                                                                         *)
(* The store answers from memory.  Every change starts a task that mirrors *)
(* it and that nobody waits for: HSET and then EXPIRE for a decision, DEL  *)
(* for a removal.  The tasks of one key run on several connections, in any *)
(* order.  A restart forgets memory, tasks and approvals and loads what    *)
(* the mirror holds.  Time is counted in the seconds of Redis' EXPIRE.     *)
(***************************************************************************)
EXTENDS Naturals, Sequences, FiniteSets

CONSTANTS
    AccessKeys,         \* caller and source address, hashed
    MaxChanges,         \* bound: decisions ever made
    GatedCommands,      \* commands that the profile of pending callers blocks
    ApprovalIds,        \* approval requests ever created
    MaxGranted          \* bound: approvals granted per command and profile

ASSUME AccessAssumption ==
    /\ IsFiniteSet(AccessKeys) /\ IsFiniteSet(ApprovalIds)
    /\ MaxChanges \in Nat /\ MaxGranted \in Nat

VARIABLES
    decisions,  \* the decisions made: their key and verdict, in order
    lapsed,     \* decisions whose expires_at has passed
    memory,     \* _store: key -> number of its decision, 0 if none
    mirror,     \* ac:<key> in Redis -> number of the decision, 0 if none
    keyTtl,     \* ac:<key> -> the decision whose lifetime EXPIRE gave the key
    writes,     \* mirror tasks that have not ended
    unsynced,   \* history: keys whose last change was not mirrored undisturbed
    approvals,  \* approval_id -> its request
    granted,    \* history: command and profile -> approvals granted
    passed      \* history: command and profile -> commands let through

acVars == <<decisions, lapsed, memory, mirror, keyTtl, writes, unsynced>>
approvalVars == <<approvals, granted, passed>>
accessVars == <<acVars, approvalVars>>

Verdicts == {"allowed", "denied"}
Profiles == {"requested", "capped"}
Asked == GatedCommands \X Profiles
NoRequest == [state |-> "unused"]
Removed == [state |-> "removed"]
Stored(a) == approvals[a] \notin {NoRequest, Removed}

AccessTypeOK ==
    /\ Len(decisions) <= MaxChanges
    /\ \A n \in DOMAIN decisions : decisions[n] \in [key : AccessKeys, verdict : Verdicts]
    /\ lapsed \subseteq DOMAIN decisions
    /\ \A k \in AccessKeys : {memory[k], mirror[k], keyTtl[k]} \subseteq 0 .. Len(decisions)
    /\ \A k \in AccessKeys : mirror[k] = 0 => keyTtl[k] = 0
    /\ writes \subseteq [call : {"hset", "expire", "del"}, key : AccessKeys, of : 1 .. Len(decisions)]
    /\ unsynced \subseteq AccessKeys
    /\ \A a \in ApprovalIds :
         Stored(a) => approvals[a] \in [state : {"pending", "approved", "denied"}, for : Asked]
    /\ granted \in [Asked -> 0 .. MaxGranted] /\ passed \in [Asked -> Nat]

AccessInit ==
    /\ decisions = <<>> /\ lapsed = {}
    /\ memory = [k \in AccessKeys |-> 0]
    /\ mirror = [k \in AccessKeys |-> 0]
    /\ keyTtl = [k \in AccessKeys |-> 0]
    /\ writes = {} /\ unsynced = {}
    /\ approvals = [a \in ApprovalIds |-> NoRequest]
    /\ granted = [c \in Asked |-> 0] /\ passed = [c \in Asked |-> 0]

\* What a decision means for the gate: resolve_access_policy ignores an entry
\* that is over, and treats a caller without one as pending.
Effective(n) == IF n = 0 \/ n \in lapsed THEN "pending" ELSE decisions[n].verdict

-----------------------------------------------------------------------------
\* A change made while no other change of its key is being mirrored, and that
\* meets no trouble itself, is in the mirror once its task has ended.
Marked(k, disturbed) == IF disturbed THEN unsynced \cup {k} ELSE unsynced \ {k}
Mirroring(k) == \E w \in writes : w.key = k

\* POST .../decision: set().
Decide(k, verdict) ==
    LET n == Len(decisions) + 1 IN
    /\ n <= MaxChanges
    /\ decisions' = Append(decisions, [key |-> k, verdict |-> verdict])
    /\ memory' = [memory EXCEPT ![k] = n]
    /\ writes' = writes \cup {[call |-> "hset", key |-> k, of |-> n]}
    /\ unsynced' = Marked(k, Mirroring(k))
    /\ UNCHANGED <<lapsed, mirror, keyTtl, approvalVars>>

\* clear() mirrors only the removal of an entry that memory holds.
Clearable(k) == memory[k] # 0

\* POST .../clear
Clear(k) ==
    /\ Clearable(k)
    /\ memory' = [memory EXCEPT ![k] = 0]
    /\ writes' = writes \cup {[call |-> "del", key |-> k, of |-> memory[k]]}
    /\ unsynced' = Marked(k, Mirroring(k))
    /\ UNCHANGED <<decisions, lapsed, mirror, keyTtl, approvalVars>>

\* get(), recent() and the cleanup task drop an entry that is over.
Forget(k) ==
    /\ memory[k] \in lapsed
    /\ memory' = [memory EXCEPT ![k] = 0]
    /\ UNCHANGED <<decisions, lapsed, mirror, keyTtl, writes, unsynced, approvalVars>>

\* Time reaches expires_at of decision n; Redis drops a key that was given its
\* lifetime, also if the key holds a newer decision whose EXPIRE is still due.
Lapse(n) ==
    LET dropped == {k \in AccessKeys : keyTtl[k] = n} IN
    /\ n \in DOMAIN decisions \ lapsed
    /\ lapsed' = lapsed \cup {n}
    /\ mirror' = [k \in AccessKeys |-> IF k \in dropped THEN 0 ELSE mirror[k]]
    /\ keyTtl' = [k \in AccessKeys |-> IF k \in dropped THEN 0 ELSE keyTtl[k]]
    /\ unsynced' = unsynced \cup {k \in dropped : mirror[k] # n /\ Mirroring(k)}
    /\ UNCHANGED <<decisions, memory, writes, approvalVars>>

\* mutant: the lifetime of the first decision is used again
Lifetime_first(w) == IF mirror[w.key] = 0 THEN 0 ELSE 1

\* The lifetime that EXPIRE gives the key: none is set if the key is gone.
Lifetime(w) == IF mirror[w.key] = 0 THEN 0 ELSE w.of

\* One call of _save_to_redis or _delete_from_redis.  HSET keeps the lifetime of
\* a key that exists, DEL removes it.  EXPIRE runs after HSET in the same task,
\* with one second at least: the key of a decision that is over meanwhile goes.
Mirror(w) ==
    /\ w \in writes
    /\ \/ /\ w.call = "hset"
          /\ mirror' = [mirror EXCEPT ![w.key] = w.of]
          /\ writes' = (writes \ {w}) \cup {[w EXCEPT !.call = "expire"]}
          /\ UNCHANGED keyTtl
       \/ /\ w.call = "expire"
          /\ mirror' = [mirror EXCEPT ![w.key] = IF w.of \in lapsed THEN 0 ELSE @]
          /\ keyTtl' = [keyTtl EXCEPT ![w.key] = IF w.of \in lapsed THEN 0 ELSE Lifetime(w)]
          /\ writes' = writes \ {w}
       \/ /\ w.call = "del"
          /\ mirror' = [mirror EXCEPT ![w.key] = 0]
          /\ keyTtl' = [keyTtl EXCEPT ![w.key] = 0]
          /\ writes' = writes \ {w}
    /\ UNCHANGED <<decisions, lapsed, memory, unsynced, approvalVars>>

\* Redis is down for that call: the task logs a warning and ends.
MirrorFails(w) ==
    /\ w \in writes
    /\ writes' = writes \ {w}
    /\ unsynced' = unsynced \cup {w.key}
    /\ UNCHANGED <<decisions, lapsed, memory, mirror, keyTtl, approvalVars>>

\* load_from_redis: the entries that are not over, of the keys whose load did
\* not fail.
Loaded(keys) ==
    [k \in AccessKeys |-> IF k \in keys /\ Effective(mirror[k]) # "pending" THEN mirror[k] ELSE 0]

\* A crash or shutdown and the next start.  The tasks that were under way are
\* lost; approvals live in memory only.
RestartGateway ==
    \E keys \in SUBSET AccessKeys :
      /\ memory' = Loaded(keys)
      /\ writes' = {}
      /\ unsynced' = {k \in AccessKeys :
                         \/ /\ k \in unsynced \/ k \notin keys
                            /\ Effective(mirror[k]) # Effective(memory'[k])
                         \/ keyTtl[k] \notin {0, mirror[k]}}
      /\ approvals' = [a \in ApprovalIds |->
                          IF approvals[a] = NoRequest THEN NoRequest ELSE Removed]
      /\ UNCHANGED <<decisions, lapsed, mirror, keyTtl, granted, passed>>

-----------------------------------------------------------------------------
\* The profile the gate evaluates a command with; a denied caller has none.  A
\* master is exempt, whatever was decided about its key, unless the settings
\* say access_control_enforce_master.
EffectiveProfile(k, exempt) ==
    IF exempt \/ Effective(memory[k]) = "allowed" THEN "requested" ELSE "capped"

\* mutant: an approval for a command is good for every profile
Usable_any_profile(asked) ==
    {a \in ApprovalIds : approvals[a].state = "approved" /\ approvals[a].for[1] = asked[1]}

\* The requests that find_and_consume_approval accepts for a command.
Usable(asked) ==
    {a \in ApprovalIds : approvals[a].state = "approved" /\ approvals[a].for = asked}

\* What becomes of the request that is used.
Consumed(a) == Removed

\* evaluate_with_access_gate in ask mode, for a command that the profile blocks:
\* an approval is used up, or a new request is created and the caller told to
\* come back.
Evaluate(k, exempt, command) ==
    LET asked == <<command, EffectiveProfile(k, exempt)>> IN
    /\ exempt \/ Effective(memory[k]) # "denied"
    /\ \/ \E a \in Usable(asked) :
            /\ approvals' = [approvals EXCEPT ![a] = Consumed(a)]
            /\ passed' = [passed EXCEPT ![asked] = @ + 1]
       \/ /\ Usable(asked) = {}
          /\ \E a \in ApprovalIds :
               /\ approvals[a] = NoRequest
               /\ approvals' = [approvals EXCEPT ![a] = [state |-> "pending", for |-> asked]]
          /\ UNCHANGED passed
    /\ UNCHANGED <<acVars, granted>>

\* approve_request and deny_request accept a request once, while it lives.
Answerable(a) == approvals[a].state = "pending"

AnswerRequest(a, state) ==
    /\ Answerable(a)
    /\ state = "approved" => granted[approvals[a].for] < MaxGranted
    /\ approvals' = [approvals EXCEPT ![a].state = state]
    /\ granted' = IF state = "approved" /\ approvals[a].state # "approved"
                  THEN [granted EXCEPT ![approvals[a].for] = @ + 1] ELSE granted
    /\ UNCHANGED <<acVars, passed>>

\* _expire_stale and the expiry checks: a request is void after five minutes,
\* approved or not.
ExpireRequest(a) ==
    /\ Stored(a)
    /\ approvals' = [approvals EXCEPT ![a] = Removed]
    /\ UNCHANGED <<acVars, granted, passed>>

AccessNext ==
    \/ \E k \in AccessKeys :
         \/ \E verdict \in Verdicts : Decide(k, verdict)
         \/ Clear(k) \/ Forget(k)
         \/ \E command \in GatedCommands, exempt \in BOOLEAN : Evaluate(k, exempt, command)
    \/ \E n \in DOMAIN decisions : Lapse(n)
    \/ \E w \in writes : Mirror(w) \/ MirrorFails(w)
    \/ RestartGateway
    \/ \E a \in ApprovalIds :
         \/ \E state \in {"approved", "denied"} : AnswerRequest(a, state)
         \/ ExpireRequest(a)

AccessSpec == AccessInit /\ [][AccessNext]_accessVars

-----------------------------------------------------------------------------
\* A decision that was made while no other change of its key was being written,
\* and whose own write met no error, means the same in the mirror as in memory
\* once the write has ended, so a restart keeps it; this covers what happens
\* to the lifetime of the key when decisions follow each other
\* (access_control.py:153 and 207).
MirrorAgrees ==
    \A k \in AccessKeys \ unsynced : ~Mirroring(k) => Effective(mirror[k]) = Effective(memory[k])

\* A gated command passes once for each approval of that very command under that
\* very profile, whatever the caller's access decision does in between: what
\* has passed and what may still pass was granted (policy_ask.py:89).
PassesApproved ==
    \A asked \in Asked :
      passed[asked] + Cardinality({a \in ApprovalIds : approvals[a].state = "approved"
                                                        /\ approvals[a].for = asked})
        <= granted[asked]
=============================================================================
