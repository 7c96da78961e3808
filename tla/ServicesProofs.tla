--------------------------- MODULE ServicesProofs ---------------------------
(***************************************************************************)
(* Proofs about AccessControl and EventHooks, for any number of callers,   *)
(* decisions, commands, approvals, deliveries, workers and database        *)
(* errors; and what they, and the proofs about the circuit breakers and    *)
(* the SSH sessions, say of the composition MCServices.                    *)
(***************************************************************************)
EXTENDS MCServices, CircuitBreakerProofs, SshSessionsProofs

Requests == [state : {"pending", "approved", "denied"}, for : Asked]

AccessTyped ==
    /\ decisions \in Seq([key : AccessKeys, verdict : Verdicts])
    /\ Len(decisions) <= MaxChanges
    /\ lapsed \subseteq DOMAIN decisions
    /\ memory \in [AccessKeys -> 0 .. Len(decisions)]
    /\ mirror \in [AccessKeys -> 0 .. Len(decisions)]
    /\ keyTtl \in [AccessKeys -> 0 .. Len(decisions)]
    /\ \A k \in AccessKeys : mirror[k] = 0 => keyTtl[k] = 0
    /\ writes \subseteq [call : {"hset", "expire", "del"}, key : AccessKeys, of : 1 .. Len(decisions)]
    /\ unsynced \subseteq AccessKeys
    /\ approvals \in [ApprovalIds -> {NoRequest, Removed} \cup Requests]
    /\ granted \in [Asked -> 0 .. MaxGranted]
    /\ passed \in [Asked -> Nat]

\* An entry that the gate ignores.
Void(n) == n = 0 \/ n \in lapsed

\* Two entries that mean the same now and when either is over.
Alike(m, n) == m = n \/ (Void(m) /\ Void(n))

\* What the only task of a key still has to make true.
TaskOK(w) ==
    \/ w.call = "del" /\ memory[w.key] = 0
    \/ w.call = "hset" /\ Alike(memory[w.key], w.of)
    \/ w.call = "expire" /\ Alike(memory[w.key], w.of) /\ Alike(mirror[w.key], w.of)

\* A key in order: its one task, or its mirror with the lifetime of its entry.
KeyOK(k) ==
    /\ \A v, w \in writes : v.key = k /\ w.key = k => v = w
    /\ \A w \in writes : w.key = k => TaskOK(w)
    /\ ~Mirroring(k) => Alike(memory[k], mirror[k]) /\ keyTtl[k] \in {0, mirror[k]}

AccessInv ==
    /\ AccessTyped
    /\ \A k \in AccessKeys \ unsynced : KeyOK(k)
    /\ PassesApproved

\* A send: none, one that posts, or one that is about to commit.
SendTasks ==
    {Idle}
    \cup [phase : {"posting"}, by : HookInstances, of : Deliveries]
    \cup [phase : {"commit"}, by : HookInstances, of : Deliveries,
          call : {"complete", "fail"}, read : Columns, handled : BOOLEAN]

HookTyped ==
    /\ row \in [Deliveries -> Columns]
    /\ young \cup waiting \subseteq Deliveries /\ leaseOld \subseteq Deliveries
    /\ worker \in [HookInstances -> {"unborn", "up", "gone"}]
    /\ claim \in [HookInstances -> [rows : SUBSET Deliveries, own : SUBSET Deliveries]]
    /\ send \in [Sends -> SendTasks]
    /\ dbErrors \in 0 .. MaxDbErrors
    /\ accepted \subseteq Deliveries /\ reports \in [Deliveries -> 0 .. MaxAttempts]

\* A count of attempts that as many committed failures stand behind.
Backed(n, d) == n <= reports[d] \/ reports[d] = MaxAttempts

HookInv ==
    /\ HookTyped
    /\ \A i \in HookInstances : claim[i].rows # {} => worker[i] = "up"
    /\ \A s \in Sends : send[s] # Idle => worker[send[s].by] = "up"
    /\ \A d \in Deliveries : Backed(row[d].attempts, d)
    /\ \A s \in Sends : send[s].phase = "commit" =>
          /\ Backed(send[s].read.attempts, send[s].of)
          /\ send[s].call = "complete" => send[s].of \in accepted
    /\ HookSentAccepted /\ HookDeadAfterFailures

----------------------------------------------------------------------------
(* Access control: the mirror *)

\* A key that a step leaves alone stays in order.
LEMMA KeyKept ==
  ASSUME NEW k, KeyOK(k), memory'[k] = memory[k], mirror'[k] = mirror[k],
         keyTtl'[k] = keyTtl[k], lapsed \subseteq lapsed',
         \A w : w.key = k => (w \in writes' <=> w \in writes)
  PROVE  KeyOK(k)'
<1>1. \A m, n : Alike(m, n) => (m = n \/ ((m = 0 \/ m \in lapsed') /\ (n = 0 \/ n \in lapsed')))
  BY DEF Alike, Void
<1>2. \A w \in writes' : w.key = k => w \in writes /\ TaskOK(w)
  BY DEF KeyOK
<1>3. \A w \in writes' : w.key = k => TaskOK(w)'
  BY <1>1, <1>2 DEF TaskOK, Alike, Void
<1>4. Mirroring(k)' = Mirroring(k)
  BY DEF Mirroring
<1> QED BY <1>1, <1>2, <1>3, <1>4 DEF KeyOK, Alike, Void

\* What a task is.
LEMMA TaskParts ==
  ASSUME AccessTyped, NEW w \in writes
  PROVE  w.key \in AccessKeys /\ w.of \in 1 .. Len(decisions)
         /\ w.call \in {"hset", "expire", "del"}
         /\ w = [call |-> w.call, key |-> w.key, of |-> w.of]
  BY DEF AccessTyped

\* A decision or a removal made while the key has no task is that key's only
\* task; otherwise the key is set aside.
LEMMA ChangeInv ==
  ASSUME AccessInv, AccessTyped', NEW k \in AccessKeys,
         NEW n \in Nat, NEW c \in {"hset", "del"}, NEW m,
         c = "hset" => m = n, c = "del" => m = 0,
         memory' = [memory EXCEPT ![k] = m],
         writes' = writes \cup {[call |-> c, key |-> k, of |-> n]},
         unsynced' = Marked(k, Mirroring(k)),
         UNCHANGED <<lapsed, mirror, keyTtl, approvals, granted, passed>>
  PROVE  AccessInv'
<1>1. AccessTyped /\ \A j \in AccessKeys \ unsynced : KeyOK(j)
  BY DEF AccessInv
<1>2. ASSUME NEW j \in AccessKeys \ unsynced' PROVE KeyOK(j)'
  <2>1. CASE j # k
    <3>1. j \notin unsynced
      BY <1>2, <2>1 DEF Marked
    <3>2. \A w : w.key = j => (w \in writes' <=> w \in writes)
      BY <2>1
    <3>3. memory'[j] = memory[j]
      BY <1>1, <2>1 DEF AccessTyped
    <3> QED BY <1>1, <3>1, <3>2, <3>3, KeyKept
  <2>2. CASE j = k
    <3>1. ~Mirroring(k)
      BY <1>2, <2>2 DEF Marked
    <3> DEFINE v == [call |-> c, key |-> k, of |-> n]
    <3>2. \A w \in writes' : w.key = k => w = v
      BY <3>1 DEF Mirroring
    <3>3. v.call = c /\ v.key = k /\ v.of = n /\ v \in writes'
      OBVIOUS
    <3>4. memory'[k] = m
      BY <1>1 DEF AccessTyped
    <3> HIDE DEF v
    <3>5. TaskOK(v)'
      BY <3>3, <3>4 DEF TaskOK, Alike
    <3>6. Mirroring(k)'
      BY <3>3 DEF Mirroring
    <3>7. \A w \in writes' : w.key = k => TaskOK(w)'
      BY <3>2, <3>5 DEF TaskOK
    <3> QED BY <2>2, <3>2, <3>6, <3>7 DEF KeyOK
  <2> QED BY <2>1, <2>2
<1>3. PassesApproved'
  BY DEF AccessInv, PassesApproved
<1> QED BY <1>2, <1>3 DEF AccessInv

\* A decision is appended, remembered and given to a task.
LEMMA DecideInv ==
  ASSUME AccessInv, NEW k \in AccessKeys, NEW verdict \in Verdicts, Decide(k, verdict)
  PROVE  AccessInv'
<1>1. AccessTyped
  BY DEF AccessInv
<1>2. PICK n \in Nat : n = Len(decisions) + 1
  BY <1>1 DEF AccessTyped
<1>3. /\ n <= MaxChanges
      /\ decisions' = Append(decisions, [key |-> k, verdict |-> verdict])
      /\ memory' = [memory EXCEPT ![k] = n]
      /\ writes' = writes \cup {[call |-> "hset", key |-> k, of |-> n]}
      /\ unsynced' = Marked(k, Mirroring(k))
      /\ UNCHANGED <<lapsed, mirror, keyTtl, approvals, granted, passed>>
  BY <1>2 DEF Decide, approvalVars
<1>4. /\ decisions' \in Seq([key : AccessKeys, verdict : Verdicts]) /\ Len(decisions') = n
      /\ DOMAIN decisions \subseteq DOMAIN decisions'
      /\ 1 .. Len(decisions) \subseteq 1 .. n /\ 0 .. Len(decisions) \subseteq 0 .. n
      /\ n \in 1 .. n /\ n \in 0 .. n
  BY <1>1, <1>2, <1>3, SMTT(30) DEF AccessTyped
<1>5. AccessTyped'
  <2>1. memory' \in [AccessKeys -> 0 .. Len(decisions')]
    BY <1>1, <1>3, <1>4 DEF AccessTyped
  <2>2. mirror' \in [AccessKeys -> 0 .. Len(decisions')] /\ keyTtl' \in [AccessKeys -> 0 .. Len(decisions')]
    BY <1>1, <1>3, <1>4 DEF AccessTyped
  <2>3. writes' \subseteq [call : {"hset", "expire", "del"}, key : AccessKeys, of : 1 .. Len(decisions')]
    BY <1>1, <1>3, <1>4 DEF AccessTyped
  <2>4. unsynced' \subseteq AccessKeys
    BY <1>1, <1>3 DEF AccessTyped, Marked
  <2> QED BY <1>1, <1>3, <1>4, <2>1, <2>2, <2>3, <2>4 DEF AccessTyped
<1> QED BY <1>3, <1>5, ChangeInv

\* A removal is given to a task.
LEMMA ClearInv ==
  ASSUME AccessInv, NEW k \in AccessKeys, Clear(k)
  PROVE  AccessInv'
<1>1. AccessTyped
  BY DEF AccessInv
<1>2. PICK n \in Nat : n = memory[k] /\ n \in 1 .. Len(decisions)
  BY <1>1 DEF AccessTyped, Clear, Clearable
<1>3. /\ memory' = [memory EXCEPT ![k] = 0]
      /\ writes' = writes \cup {[call |-> "del", key |-> k, of |-> n]}
      /\ unsynced' = Marked(k, Mirroring(k))
      /\ UNCHANGED <<decisions, lapsed, mirror, keyTtl, approvals, granted, passed>>
  BY <1>2 DEF Clear, approvalVars
<1>4. AccessTyped'
  <2>1. memory' \in [AccessKeys -> 0 .. Len(decisions)]
    BY <1>1, <1>3 DEF AccessTyped
  <2>2. writes' \subseteq [call : {"hset", "expire", "del"}, key : AccessKeys, of : 1 .. Len(decisions)]
    BY <1>1, <1>2, <1>3 DEF AccessTyped
  <2>3. unsynced' \subseteq AccessKeys
    BY <1>1, <1>3 DEF AccessTyped, Marked
  <2> QED BY <1>1, <1>3, <2>1, <2>2, <2>3 DEF AccessTyped
<1> QED BY <1>3, <1>4, ChangeInv

\* An entry that is over is void before and after it is dropped.
LEMMA ForgetInv ==
  ASSUME AccessInv, NEW k \in AccessKeys, Forget(k)
  PROVE  AccessInv'
<1>1. AccessTyped /\ \A j \in AccessKeys \ unsynced : KeyOK(j)
  BY DEF AccessInv
<1>2. /\ memory[k] \in lapsed /\ memory' = [memory EXCEPT ![k] = 0]
      /\ UNCHANGED <<decisions, lapsed, mirror, keyTtl, writes, unsynced, approvals, granted, passed>>
  BY DEF Forget, approvalVars
<1>3. AccessTyped'
  <2>1. memory' \in [AccessKeys -> 0 .. Len(decisions)]
    BY <1>1, <1>2 DEF AccessTyped
  <2> QED BY <1>1, <1>2, <2>1 DEF AccessTyped
<1>4. ASSUME NEW j \in AccessKeys \ unsynced' PROVE KeyOK(j)'
  <2>1. CASE j # k
    <3>1. memory'[j] = memory[j]
      BY <1>1, <1>2, <2>1 DEF AccessTyped
    <3> QED BY <1>1, <1>2, <1>4, <3>1, KeyKept
  <2>2. CASE j = k
    <3>1. KeyOK(k)
      BY <1>1, <1>2, <1>4, <2>2
    <3>2. memory'[k] = 0
      BY <1>1, <1>2 DEF AccessTyped
    <3>3. \A n : Alike(memory[k], n) => n = 0 \/ n \in lapsed
      BY <1>2 DEF Alike, Void
    <3>4. Mirroring(k)' = Mirroring(k)
      BY <1>2 DEF Mirroring
    <3>5. \A w \in writes : w.key = k => TaskOK(w)'
      BY <1>2, <3>1, <3>2, <3>3 DEF KeyOK, TaskOK, Alike, Void
    <3>6. ~Mirroring(k) => Alike(memory'[k], mirror[k])
      BY <3>1, <3>2, <3>3 DEF KeyOK, Alike, Void
    <3>7. ~Mirroring(k)' => Alike(memory[k], mirror[k])'
      BY <1>2, <3>4, <3>6 DEF Alike, Void
    <3> QED BY <1>2, <2>2, <3>1, <3>4, <3>5, <3>7 DEF KeyOK
  <2> QED BY <2>1, <2>2
<1>5. PassesApproved'
  BY <1>2 DEF AccessInv, PassesApproved
<1> QED BY <1>3, <1>4, <1>5 DEF AccessInv

\* When a decision is over, the key that has its lifetime holds it, or the key
\* is set aside.
LEMMA LapseInv ==
  ASSUME AccessInv, NEW n \in DOMAIN decisions, Lapse(n)
  PROVE  AccessInv'
<1>1. AccessTyped /\ \A j \in AccessKeys \ unsynced : KeyOK(j)
  BY DEF AccessInv
<1>2. /\ lapsed' = lapsed \cup {n}
      /\ mirror' = [k \in AccessKeys |-> IF keyTtl[k] = n THEN 0 ELSE mirror[k]]
      /\ keyTtl' = [k \in AccessKeys |-> IF keyTtl[k] = n THEN 0 ELSE keyTtl[k]]
      /\ unsynced' = unsynced \cup {k \in AccessKeys : keyTtl[k] = n /\ mirror[k] # n /\ Mirroring(k)}
      /\ UNCHANGED <<decisions, memory, writes, approvals, granted, passed>>
  BY DEF Lapse, approvalVars
<1>3. n # 0
  BY <1>1 DEF AccessTyped
<1>4. AccessTyped'
  <2>1. mirror' \in [AccessKeys -> 0 .. Len(decisions)] /\ keyTtl' \in [AccessKeys -> 0 .. Len(decisions)]
    BY <1>1, <1>2 DEF AccessTyped
  <2>2. \A k \in AccessKeys : mirror'[k] = 0 => keyTtl'[k] = 0
    BY <1>1, <1>2 DEF AccessTyped
  <2> QED BY <1>1, <1>2, <2>1, <2>2 DEF AccessTyped
<1>5. ASSUME NEW k \in AccessKeys \ unsynced' PROVE KeyOK(k)'
  <2>0. KeyOK(k)
    BY <1>1, <1>2, <1>5
  <2>1. CASE keyTtl[k] # n
    <3>1. mirror'[k] = mirror[k] /\ keyTtl'[k] = keyTtl[k]
      BY <1>2, <2>1
    <3> QED BY <1>2, <2>0, <3>1, KeyKept
  <2>2. CASE keyTtl[k] = n
    <3>1. mirror'[k] = 0 /\ keyTtl'[k] = 0
      BY <1>2, <2>2
    <3>2. mirror[k] = n
      BY <1>2, <1>3, <1>5, <2>0, <2>2 DEF KeyOK
    <3>3. \A m : (Alike(m, n) \/ Alike(n, m)) => m = 0 \/ m \in lapsed'
      BY <1>2, <1>3 DEF Alike, Void
    <3>4. \A l, m : Alike(l, m) => l = m \/ ((l = 0 \/ l \in lapsed') /\ (m = 0 \/ m \in lapsed'))
      BY <1>2 DEF Alike, Void
    <3>5. Mirroring(k)' = Mirroring(k)
      BY <1>2 DEF Mirroring
    <3>6. \A w \in writes : w.key = k => TaskOK(w)'
      BY <1>2, <2>0, <3>1, <3>2, <3>3, <3>4 DEF KeyOK, TaskOK, Alike, Void
    <3>7. ~Mirroring(k) => Alike(memory[k], mirror[k])'
      BY <1>2, <2>0, <3>1, <3>2, <3>3 DEF KeyOK, Alike, Void
    <3> QED BY <1>2, <2>0, <3>1, <3>5, <3>6, <3>7 DEF KeyOK
  <2> QED BY <2>1, <2>2
<1>6. PassesApproved'
  BY <1>2 DEF AccessInv, PassesApproved
<1> QED BY <1>4, <1>5, <1>6 DEF AccessInv

\* The calls of one task bring its key in order: HSET, then EXPIRE, or DEL.
LEMMA MirrorInv ==
  ASSUME AccessInv, NEW w \in writes, Mirror(w)
  PROVE  AccessInv'
<1>1. AccessTyped /\ \A j \in AccessKeys \ unsynced : KeyOK(j)
  BY DEF AccessInv
<1>2. /\ w.key \in AccessKeys /\ w.of \in 1 .. Len(decisions)
      /\ w = [call |-> w.call, key |-> w.key, of |-> w.of]
  BY <1>1, TaskParts
<1>3. UNCHANGED <<decisions, lapsed, memory, unsynced, approvals, granted, passed>>
  BY DEF Mirror, approvalVars
<1>4. PassesApproved'
  BY <1>3 DEF AccessInv, PassesApproved
<1>5. w.of # 0 /\ w.of \in 0 .. Len(decisions) /\ 0 \in 0 .. Len(decisions)
  BY <1>1, <1>2 DEF AccessTyped
<1>6. CASE /\ w.call = "hset" /\ mirror' = [mirror EXCEPT ![w.key] = w.of]
           /\ writes' = (writes \ {w}) \cup {[w EXCEPT !.call = "expire"]}
           /\ UNCHANGED keyTtl
  <2> DEFINE v == [w EXCEPT !.call = "expire"]
  <2>1. v.call = "expire" /\ v.key = w.key /\ v.of = w.of
        /\ v = [call |-> "expire", key |-> w.key, of |-> w.of]
    BY <1>2
  <2> HIDE DEF v
  <2>2. writes' = (writes \ {w}) \cup {v}
    BY <1>6 DEF v
  <2>3. AccessTyped'
    <3>1. mirror' \in [AccessKeys -> 0 .. Len(decisions)]
      BY <1>1, <1>2, <1>5, <1>6 DEF AccessTyped
    <3>2. \A k \in AccessKeys : mirror'[k] = 0 => keyTtl'[k] = 0
      BY <1>1, <1>2, <1>5, <1>6 DEF AccessTyped
    <3>3. v \in [call : {"hset", "expire", "del"}, key : AccessKeys, of : 1 .. Len(decisions)]
      BY <1>2, <2>1
    <3> QED BY <1>1, <1>3, <1>6, <2>2, <3>1, <3>2, <3>3 DEF AccessTyped
  <2>4. ASSUME NEW k \in AccessKeys \ unsynced' PROVE KeyOK(k)'
    <3>0. KeyOK(k)
      BY <1>1, <1>3, <2>4
    <3>1. CASE k # w.key
      <4>1. mirror'[k] = mirror[k] /\ \A u : u.key = k => (u \in writes' <=> u \in writes)
        BY <1>1, <1>6, <2>1, <2>2, <3>1 DEF AccessTyped
      <4> QED BY <1>3, <1>6, <3>0, <4>1, KeyKept
    <3>2. CASE k = w.key
      <4>1. mirror'[k] = w.of
        BY <1>1, <1>2, <1>6, <3>2 DEF AccessTyped
      <4>2. \A u \in writes' : u.key = k => u = v
        BY <2>2, <3>0, <3>2 DEF KeyOK
      <4>3. Alike(memory[k], w.of)
        BY <1>6, <3>0, <3>2 DEF KeyOK, TaskOK
      <4>4. TaskOK(v)'
        BY <1>3, <2>1, <3>2, <4>1, <4>3 DEF TaskOK, Alike, Void
      <4>5. \A u \in writes' : u.key = k => TaskOK(u)'
        BY <4>2, <4>4 DEF TaskOK
      <4>6. Mirroring(k)'
        BY <2>1, <2>2, <3>2 DEF Mirroring
      <4> QED BY <4>2, <4>5, <4>6 DEF KeyOK
    <3> QED BY <3>1, <3>2
  <2> QED BY <1>4, <2>3, <2>4 DEF AccessInv
<1>7. CASE writes' = writes \ {w}
           /\ \E m, l \in 0 .. Len(decisions) :
                /\ mirror' = [mirror EXCEPT ![w.key] = m] /\ keyTtl' = [keyTtl EXCEPT ![w.key] = l]
                /\ l \in {0, m}
                /\ TaskOK(w) => Alike(memory[w.key], m)
  <2>1. PICK m, l \in 0 .. Len(decisions) :
                /\ mirror' = [mirror EXCEPT ![w.key] = m] /\ keyTtl' = [keyTtl EXCEPT ![w.key] = l]
                /\ l \in {0, m}
                /\ TaskOK(w) => Alike(memory[w.key], m)
    BY <1>7
  <2>2. AccessTyped'
    <3>1. mirror' \in [AccessKeys -> 0 .. Len(decisions)] /\ keyTtl' \in [AccessKeys -> 0 .. Len(decisions)]
      BY <1>1, <1>2, <2>1 DEF AccessTyped
    <3>2. \A k \in AccessKeys : mirror'[k] = 0 => keyTtl'[k] = 0
      BY <1>1, <1>2, <2>1 DEF AccessTyped
    <3> QED BY <1>1, <1>3, <1>7, <3>1, <3>2 DEF AccessTyped
  <2>3. ASSUME NEW k \in AccessKeys \ unsynced' PROVE KeyOK(k)'
    <3>0. KeyOK(k)
      BY <1>1, <1>3, <2>3
    <3>1. CASE k # w.key
      <4>1. mirror'[k] = mirror[k] /\ keyTtl'[k] = keyTtl[k]
            /\ \A u : u.key = k => (u \in writes' <=> u \in writes)
        BY <1>1, <1>7, <2>1, <3>1 DEF AccessTyped
      <4> QED BY <1>3, <3>0, <4>1, KeyKept
    <3>2. CASE k = w.key
      <4>1. mirror'[k] = m /\ keyTtl'[k] = l
        BY <1>1, <1>2, <2>1, <3>2 DEF AccessTyped
      <4>2. \A u \in writes' : u.key # k
        BY <1>7, <3>0, <3>2 DEF KeyOK
      <4>3. Alike(memory[k], m)
        BY <2>1, <3>0, <3>2 DEF KeyOK
      <4> QED BY <1>3, <2>1, <4>1, <4>2, <4>3 DEF KeyOK, Alike, Void
    <3> QED BY <3>1, <3>2
  <2> QED BY <1>4, <2>2, <2>3 DEF AccessInv
<1>8. CASE /\ w.call = "expire"
           /\ mirror' = [mirror EXCEPT ![w.key] = IF w.of \in lapsed THEN 0 ELSE mirror[w.key]]
           /\ keyTtl' = [keyTtl EXCEPT ![w.key] = IF w.of \in lapsed THEN 0 ELSE Lifetime(w)]
           /\ writes' = writes \ {w}
  <2>1. PICK m \in 0 .. Len(decisions) : m = IF w.of \in lapsed THEN 0 ELSE mirror[w.key]
    BY <1>1, <1>2 DEF AccessTyped
  <2>2. PICK l \in 0 .. Len(decisions) : l = IF w.of \in lapsed THEN 0 ELSE Lifetime(w)
    BY <1>5 DEF Lifetime
  <2>3. TaskOK(w) => Alike(memory[w.key], m) /\ (l \in {0, m})
    BY <1>5, <1>8, <2>1, <2>2 DEF TaskOK, Alike, Void, Lifetime
  <2>4. AccessTyped'
    <3>1. mirror' \in [AccessKeys -> 0 .. Len(decisions)] /\ keyTtl' \in [AccessKeys -> 0 .. Len(decisions)]
      BY <1>1, <1>2, <1>8, <2>1, <2>2 DEF AccessTyped
    <3>2. \A k \in AccessKeys : mirror'[k] = 0 => keyTtl'[k] = 0
      BY <1>1, <1>2, <1>8 DEF AccessTyped, Lifetime
    <3> QED BY <1>1, <1>3, <1>8, <3>1, <3>2 DEF AccessTyped
  <2>5. ASSUME NEW k \in AccessKeys \ unsynced' PROVE KeyOK(k)'
    <3>0. KeyOK(k)
      BY <1>1, <1>3, <2>5
    <3>1. CASE k # w.key
      <4>1. mirror'[k] = mirror[k] /\ keyTtl'[k] = keyTtl[k]
            /\ \A u : u.key = k => (u \in writes' <=> u \in writes)
        BY <1>1, <1>8, <3>1 DEF AccessTyped
      <4> QED BY <1>3, <3>0, <4>1, KeyKept
    <3>2. CASE k = w.key
      <4>1. TaskOK(w)
        BY <3>0, <3>2 DEF KeyOK
      <4>2. \E a, b \in 0 .. Len(decisions) :
                /\ mirror' = [mirror EXCEPT ![w.key] = a] /\ keyTtl' = [keyTtl EXCEPT ![w.key] = b]
                /\ b \in {0, a}
                /\ TaskOK(w) => Alike(memory[w.key], a)
        BY <1>8, <2>1, <2>2, <2>3, <4>1
      <4>3. AccessInv'
        BY <1>7, <1>8, <4>2
      <4> QED BY <2>5, <4>3 DEF AccessInv
    <3> QED BY <3>1, <3>2
  <2> QED BY <1>4, <2>4, <2>5 DEF AccessInv
<1>9. CASE /\ w.call = "del"
           /\ mirror' = [mirror EXCEPT ![w.key] = 0] /\ keyTtl' = [keyTtl EXCEPT ![w.key] = 0]
           /\ writes' = writes \ {w}
  <2>1. TaskOK(w) => Alike(memory[w.key], 0)
    BY <1>9 DEF TaskOK, Alike
  <2> QED BY <1>5, <1>7, <1>9, <2>1
<1> QED BY <1>6, <1>8, <1>9 DEF Mirror

\* A call that fails sets its key aside.
LEMMA MirrorFailsInv ==
  ASSUME AccessInv, NEW w \in writes, MirrorFails(w)
  PROVE  AccessInv'
<1>1. AccessTyped /\ \A j \in AccessKeys \ unsynced : KeyOK(j)
  BY DEF AccessInv
<1>2. /\ writes' = writes \ {w} /\ unsynced' = unsynced \cup {w.key}
      /\ UNCHANGED <<decisions, lapsed, memory, mirror, keyTtl, approvals, granted, passed>>
  BY DEF MirrorFails, approvalVars
<1>3. AccessTyped'
  BY <1>1, <1>2, TaskParts DEF AccessTyped
<1>4. ASSUME NEW k \in AccessKeys \ unsynced' PROVE KeyOK(k)'
  <2>1. k \notin unsynced /\ \A u : u.key = k => (u \in writes' <=> u \in writes)
    BY <1>2, <1>4
  <2> QED BY <1>1, <1>2, <2>1, KeyKept
<1>5. PassesApproved'
  BY <1>2 DEF AccessInv, PassesApproved
<1> QED BY <1>3, <1>4, <1>5 DEF AccessInv

\* An entry means something exactly if it is not void.
LEMMA EffectiveVoid ==
  ASSUME AccessTyped, NEW n \in 0 .. Len(decisions)
  PROVE  (Effective(n) = "pending") <=> Void(n)
<1>1. ASSUME n # 0 PROVE decisions[n].verdict \in Verdicts
  <2>1. decisions \in Seq([key : AccessKeys, verdict : Verdicts]) /\ n \in 1 .. Len(decisions)
    BY <1>1 DEF AccessTyped
  <2>2. PICK S : S = [key : AccessKeys, verdict : Verdicts]
    OBVIOUS
  <2>3. decisions \in Seq(S)
    BY <2>1, <2>2
  <2>4. decisions[n] \in S
    BY <2>1, <2>3
  <2> QED BY <2>2, <2>4
<1> QED BY <1>1 DEF Effective, Void, Verdicts

\* A restart loads what the mirror holds, or sets the key aside.
LEMMA RestartInv ==
  ASSUME AccessInv, RestartGateway
  PROVE  AccessInv'
<1>1. AccessTyped /\ \A j \in AccessKeys \ unsynced : KeyOK(j)
  BY DEF AccessInv
<1>2. PICK keys \in SUBSET AccessKeys :
      /\ memory' = Loaded(keys) /\ writes' = {}
      /\ unsynced' = {k \in AccessKeys :
                         \/ /\ k \in unsynced \/ k \notin keys
                            /\ Effective(mirror[k]) # Effective(memory'[k])
                         \/ keyTtl[k] \notin {0, mirror[k]}}
      /\ approvals' = [a \in ApprovalIds |->
                          IF approvals[a] = NoRequest THEN NoRequest ELSE Removed]
      /\ UNCHANGED <<decisions, lapsed, mirror, keyTtl, granted, passed>>
  BY DEF RestartGateway
<1>3. \A k \in AccessKeys : memory'[k] = IF k \in keys /\ Effective(mirror[k]) # "pending"
                                         THEN mirror[k] ELSE 0
  BY <1>2 DEF Loaded
<1>4. AccessTyped'
  <2>1. memory' \in [AccessKeys -> 0 .. Len(decisions)]
    BY <1>1, <1>2 DEF AccessTyped, Loaded
  <2>2. approvals' \in [ApprovalIds -> {NoRequest, Removed} \cup Requests']
    BY <1>2
  <2> QED BY <1>1, <1>2, <2>1, <2>2 DEF AccessTyped
<1>5. ASSUME NEW k \in AccessKeys \ unsynced' PROVE KeyOK(k)'
  <2>1. mirror[k] \in 0 .. Len(decisions) /\ 0 \in 0 .. Len(decisions)
    BY <1>1 DEF AccessTyped
  <2>2. (Effective(mirror[k]) = "pending" <=> Void(mirror[k])) /\ Effective(0) = "pending"
    BY <1>1, <2>1, EffectiveVoid DEF Effective
  <2>3. keyTtl[k] \in {0, mirror[k]}
    BY <1>2, <1>5
  <2>4. memory'[k] = mirror[k] \/ (memory'[k] = 0 /\ Void(mirror[k]))
    <3>1. CASE memory'[k] = mirror[k]
      BY <3>1
    <3>2. CASE memory'[k] # mirror[k]
      <4>1. memory'[k] = 0 /\ ~(k \in keys /\ Effective(mirror[k]) # "pending")
        BY <1>3, <3>2
      <4>2. CASE Effective(mirror[k]) = "pending"
        BY <2>2, <4>1, <4>2
      <4>3. CASE k \notin keys
        <5>1. Effective(mirror[k]) = Effective(memory'[k])
          BY <1>2, <1>5, <4>3
        <5> QED BY <2>2, <4>1, <5>1
      <4> QED BY <4>1, <4>2, <4>3
    <3> QED BY <3>1, <3>2
  <2>5. ~Mirroring(k)'
    BY <1>2 DEF Mirroring
  <2> QED BY <1>2, <2>3, <2>4, <2>5 DEF KeyOK, Alike, Void
<1>6. PassesApproved'
  <2> SUFFICES ASSUME NEW asked \in Asked
               PROVE  (passed[asked] + Cardinality({a \in ApprovalIds :
                            approvals[a].state = "approved" /\ approvals[a].for = asked})
                         <= granted[asked])'
    BY DEF PassesApproved, Asked
  <2> DEFINE A == {a \in ApprovalIds : approvals[a].state = "approved" /\ approvals[a].for = asked}
  <2>1. A' = {}
    BY <1>2 DEF NoRequest, Removed
  <2>2. IsFiniteSet(A)
    BY FS_Subset, AccessAssumption
  <2>3. Cardinality(A) \in Nat /\ Cardinality(A') = 0
    BY <2>1, <2>2, FS_CardinalityType, FS_EmptySet
  <2>4. passed[asked] + Cardinality(A) <= granted[asked] /\ passed[asked] \in Nat /\ granted[asked] \in Nat
    BY <1>1 DEF AccessInv, PassesApproved, AccessTyped
  <2> HIDE DEF A
  <2>5. passed'[asked] + Cardinality(A') <= granted'[asked]
    BY <1>2, <2>3, <2>4
  <2> QED BY <2>5 DEF A
<1> QED BY <1>4, <1>5, <1>6 DEF AccessInv

----------------------------------------------------------------------------
(* Access control: the approvals *)

\* The requests that are approved for a command and profile.
Approved(asked) ==
    {a \in ApprovalIds : approvals[a].state = "approved" /\ approvals[a].for = asked}

\* Their number, and what the accounts say of it.
LEMMA Accounts ==
  ASSUME AccessInv, NEW asked \in Asked
  PROVE  /\ IsFiniteSet(Approved(asked)) /\ Cardinality(Approved(asked)) \in Nat
         /\ passed[asked] \in Nat /\ granted[asked] \in Nat
         /\ passed[asked] + Cardinality(Approved(asked)) <= granted[asked]
<1>1. IsFiniteSet(Approved(asked))
  BY FS_Subset, AccessAssumption DEF Approved
<1>2. Cardinality(Approved(asked)) \in Nat
  BY <1>1, FS_CardinalityType
<1> QED BY <1>1, <1>2 DEF AccessInv, AccessTyped, PassesApproved, Approved

\* The accounts of the next state are enough: the mirror is left alone.
LEMMA ApprovalStep ==
  ASSUME AccessInv, UNCHANGED acVars,
         approvals' \in [ApprovalIds -> {NoRequest, Removed} \cup Requests],
         granted' \in [Asked -> 0 .. MaxGranted], passed' \in [Asked -> Nat],
         \A asked \in Asked : passed'[asked] + Cardinality(Approved(asked)') <= granted'[asked]
  PROVE  AccessInv'
<1>1. UNCHANGED <<decisions, lapsed, memory, mirror, keyTtl, writes, unsynced>>
  BY DEF acVars
<1>2. AccessTyped'
  BY <1>1 DEF AccessInv, AccessTyped, Requests, Asked
<1>3. ASSUME NEW k \in AccessKeys \ unsynced' PROVE KeyOK(k)'
  BY <1>1, <1>3, KeyKept DEF AccessInv
<1>4. PassesApproved'
  BY DEF PassesApproved, Approved, Asked
<1> QED BY <1>2, <1>3, <1>4 DEF AccessInv

\* A command that passes uses its approval up; one that does not leaves a new
\* request, which is not approved.
LEMMA EvaluateInv ==
  ASSUME AccessInv, NEW k \in AccessKeys, NEW exempt \in BOOLEAN,
         NEW command \in GatedCommands, Evaluate(k, exempt, command)
  PROVE  AccessInv'
<1>1. AccessTyped
  BY DEF AccessInv
<1>2. PICK asked \in Asked : asked = <<command, EffectiveProfile(k, exempt)>>
  <2>1. EffectiveProfile(k, exempt) \in Profiles
    BY DEF EffectiveProfile, Profiles
  <2>2. <<command, EffectiveProfile(k, exempt)>> \in Asked
    BY <2>1, Zenon DEF Asked
  <2> QED BY <2>2
<1>3. UNCHANGED acVars /\ UNCHANGED granted
  BY DEF Evaluate
<1>4. granted' \in [Asked -> 0 .. MaxGranted]
  BY <1>1, <1>3 DEF AccessTyped
<1>5. ASSUME NEW a \in Usable(asked), approvals' = [approvals EXCEPT ![a] = Consumed(a)],
             passed' = [passed EXCEPT ![asked] = @ + 1]
      PROVE  AccessInv'
  <2>1. a \in ApprovalIds /\ a \in Approved(asked)
    BY <1>5 DEF Usable, Approved
  <2>2. approvals' \in [ApprovalIds -> {NoRequest, Removed} \cup Requests]
    BY <1>1, <1>5, <2>1 DEF AccessTyped, Consumed
  <2>3. passed' \in [Asked -> Nat]
    BY <1>1, <1>5 DEF AccessTyped
  <2>4. ASSUME NEW q \in Asked PROVE passed'[q] + Cardinality(Approved(q)') <= granted'[q]
    <3>1. /\ IsFiniteSet(Approved(q)) /\ Cardinality(Approved(q)) \in Nat
          /\ passed[q] \in Nat /\ granted[q] \in Nat
          /\ passed[q] + Cardinality(Approved(q)) <= granted[q]
      BY Accounts
    <3>2. \A b \in ApprovalIds : approvals'[b] = IF b = a THEN Removed ELSE approvals[b]
      BY <1>1, <1>5, <2>1 DEF AccessTyped, Consumed
    <3>3. Approved(q)' = Approved(q) \ {a}
      BY <3>2 DEF Approved, Removed
    <3>4. CASE q = asked
      <4>1. Cardinality(Approved(q)') = Cardinality(Approved(q)) - 1
        BY <2>1, <3>1, <3>3, <3>4, FS_RemoveElement, ZenonT(60)
      <4>2. passed'[q] = passed[q] + 1
        BY <1>1, <1>5, <3>4 DEF AccessTyped
      <4> QED BY <1>3, <3>1, <4>1, <4>2
    <3>5. CASE q # asked
      <4>1. Approved(q)' = Approved(q)
        BY <2>1, <3>3, <3>5 DEF Approved
      <4>2. passed'[q] = passed[q]
        BY <1>1, <1>5, <3>5 DEF AccessTyped
      <4> QED BY <1>3, <3>1, <4>1, <4>2
    <3> QED BY <3>4, <3>5
  <2> QED BY <1>3, <1>4, <2>2, <2>3, <2>4, ApprovalStep
<1>6. ASSUME NEW a \in ApprovalIds, approvals[a] = NoRequest, UNCHANGED passed,
             approvals' = [approvals EXCEPT ![a] = [state |-> "pending", for |-> asked]]
      PROVE  AccessInv'
  <2>1. approvals' \in [ApprovalIds -> {NoRequest, Removed} \cup Requests]
    BY <1>1, <1>6 DEF AccessTyped, Requests
  <2>2. ASSUME NEW q \in Asked PROVE passed'[q] + Cardinality(Approved(q)') <= granted'[q]
    <3>1. \A b \in ApprovalIds : b # a => approvals'[b] = approvals[b]
      BY <1>1, <1>6 DEF AccessTyped
    <3>2. approvals'[a].state # "approved" /\ approvals[a].state # "approved"
      BY <1>1, <1>6 DEF AccessTyped, NoRequest
    <3>3. Approved(q)' = Approved(q)
      BY <3>1, <3>2 DEF Approved
    <3> QED BY <1>3, <1>6, <3>3, Accounts
  <2>3. passed' \in [Asked -> Nat]
    BY <1>1, <1>6 DEF AccessTyped
  <2> QED BY <1>3, <1>4, <2>1, <2>2, <2>3, ApprovalStep
<1> QED BY <1>2, <1>5, <1>6 DEF Evaluate

\* A request is approved once, and that approval is granted.
LEMMA AnswerRequestInv ==
  ASSUME AccessInv, NEW a \in ApprovalIds, NEW answer \in {"approved", "denied"},
         AnswerRequest(a, answer)
  PROVE  AccessInv'
<1>1. AccessTyped
  BY DEF AccessInv
<1>2. PICK r \in Requests : r = approvals[a] /\ r.state = "pending" /\ r.for \in Asked
  BY <1>1 DEF AccessTyped, AnswerRequest, Answerable, NoRequest, Removed, Requests
<1>3. PICK q \in Asked : q = approvals[a].for
  BY <1>2
<1>4. /\ UNCHANGED acVars /\ UNCHANGED passed
      /\ answer = "approved" => granted[q] < MaxGranted
      /\ approvals' = [approvals EXCEPT ![a].state = answer]
      /\ granted' = IF answer = "approved" THEN [granted EXCEPT ![q] = @ + 1] ELSE granted
  BY <1>2, <1>3 DEF AnswerRequest, Answerable
<1> DEFINE n == [r EXCEPT !.state = answer]
<1>5. n \in Requests /\ n.state = answer /\ n.for = q
  BY <1>2, <1>3 DEF Requests
<1>6. approvals'[a] = n /\ \A b \in ApprovalIds : b # a => approvals'[b] = approvals[b]
  BY <1>1, <1>2, <1>4 DEF AccessTyped
<1> HIDE DEF n
<1>7. approvals' \in [ApprovalIds -> {NoRequest, Removed} \cup Requests]
  <2>1. DOMAIN approvals' = ApprovalIds /\ approvals' = [b \in ApprovalIds |-> approvals'[b]]
    BY <1>1, <1>4 DEF AccessTyped
  <2>2. \A b \in ApprovalIds : approvals'[b] \in {NoRequest, Removed} \cup Requests
    BY <1>1, <1>5, <1>6 DEF AccessTyped
  <2> QED BY <2>1, <2>2
<1>8. granted' \in [Asked -> 0 .. MaxGranted]
  BY <1>1, <1>4, AccessAssumption DEF AccessTyped
<1>9. passed' \in [Asked -> Nat]
  BY <1>1, <1>4 DEF AccessTyped
<1>10. ASSUME NEW p \in Asked PROVE passed'[p] + Cardinality(Approved(p)') <= granted'[p]
  <2>1. /\ IsFiniteSet(Approved(p)) /\ Cardinality(Approved(p)) \in Nat
        /\ passed[p] \in Nat /\ granted[p] \in Nat
        /\ passed[p] + Cardinality(Approved(p)) <= granted[p]
    BY Accounts
  <2>2. a \notin Approved(p)
    BY <1>2 DEF Approved
  <2>3. CASE answer = "approved" /\ p = q
    <3>1. Approved(p)' = Approved(p) \cup {a}
      BY <1>5, <1>6, <2>3 DEF Approved
    <3>2. Cardinality(Approved(p)') = Cardinality(Approved(p)) + 1
      BY <2>1, <2>2, <3>1, FS_AddElement
    <3>3. granted'[p] = granted[p] + 1
      BY <1>1, <1>4, <2>3 DEF AccessTyped
    <3> QED BY <1>4, <2>1, <3>2, <3>3
  <2>4. CASE ~(answer = "approved" /\ p = q)
    <3>1. Approved(p)' = Approved(p)
      BY <1>2, <1>3, <1>5, <1>6, <2>4 DEF Approved
    <3>2. granted'[p] = granted[p]
      BY <1>1, <1>4, <2>4 DEF AccessTyped
    <3> QED BY <1>4, <2>1, <3>1, <3>2
  <2> QED BY <2>3, <2>4
<1> QED BY <1>4, <1>7, <1>8, <1>9, <1>10, ApprovalStep

\* A request that is over can let nothing pass.
LEMMA ExpireRequestInv ==
  ASSUME AccessInv, NEW a \in ApprovalIds, ExpireRequest(a)
  PROVE  AccessInv'
<1>1. AccessTyped
  BY DEF AccessInv
<1>2. /\ approvals' = [approvals EXCEPT ![a] = Removed]
      /\ UNCHANGED acVars /\ UNCHANGED <<granted, passed>>
  BY DEF ExpireRequest
<1>3. approvals' \in [ApprovalIds -> {NoRequest, Removed} \cup Requests]
  BY <1>1, <1>2 DEF AccessTyped
<1>4. granted' \in [Asked -> 0 .. MaxGranted] /\ passed' \in [Asked -> Nat]
  BY <1>1, <1>2 DEF AccessTyped
<1>5. ASSUME NEW p \in Asked PROVE passed'[p] + Cardinality(Approved(p)') <= granted'[p]
  <2>1. /\ IsFiniteSet(Approved(p)) /\ Cardinality(Approved(p)) \in Nat
        /\ passed[p] \in Nat /\ granted[p] \in Nat
        /\ passed[p] + Cardinality(Approved(p)) <= granted[p]
    BY Accounts
  <2>2. \A b \in ApprovalIds : approvals'[b] = IF b = a THEN Removed ELSE approvals[b]
    BY <1>1, <1>2 DEF AccessTyped
  <2>3. Approved(p)' \subseteq Approved(p)
    BY <2>2 DEF Approved, Removed
  <2>4. IsFiniteSet(Approved(p)') /\ Cardinality(Approved(p)') <= Cardinality(Approved(p))
    BY <2>1, <2>3, FS_Subset
  <2>5. Cardinality(Approved(p)') \in Nat
    BY <2>4, FS_CardinalityType
  <2> QED BY <1>2, <2>1, <2>4, <2>5
<1> QED BY <1>2, <1>3, <1>4, <1>5, ApprovalStep

\* Nothing is decided, nothing asked.
LEMMA AccessInitInv == AccessInit => AccessInv
<1> SUFFICES ASSUME AccessInit PROVE AccessInv
  OBVIOUS
<1>1. AccessTyped
  BY AccessAssumption DEF AccessInit, AccessTyped
<1>2. ASSUME NEW k \in AccessKeys PROVE KeyOK(k)
  BY DEF AccessInit, KeyOK, Mirroring, Alike
<1>3. PassesApproved
  <2> SUFFICES ASSUME NEW asked \in Asked
               PROVE  passed[asked] + Cardinality(Approved(asked)) <= granted[asked]
    BY DEF PassesApproved, Approved
  <2>1. Approved(asked) = {}
    BY DEF AccessInit, Approved, NoRequest
  <2>2. Cardinality(Approved(asked)) = 0
    BY <2>1, FS_EmptySet
  <2> QED BY <2>2 DEF AccessInit
<1> QED BY <1>1, <1>2, <1>3 DEF AccessInv

\* No step of the gate, of the store or of its tasks breaks the invariant.
LEMMA AccessNextInv == AccessInv /\ [AccessNext]_accessVars => AccessInv'
<1> SUFFICES ASSUME AccessInv, [AccessNext]_accessVars PROVE AccessInv'
  OBVIOUS
<1>1. CASE UNCHANGED accessVars
  <2>1. UNCHANGED acVars /\ UNCHANGED <<approvals, granted, passed>>
    BY <1>1 DEF accessVars, approvalVars
  <2>2. \A asked \in Asked : Approved(asked)' = Approved(asked)
    BY <2>1 DEF Approved
  <2> QED BY <2>1, <2>2, Accounts, ApprovalStep DEF AccessInv, AccessTyped
<1>2. CASE AccessNext
  BY <1>2, DecideInv, ClearInv, ForgetInv, EvaluateInv, LapseInv, MirrorInv, MirrorFailsInv,
     RestartInv, AnswerRequestInv, ExpireRequestInv DEF AccessNext
<1> QED BY <1>1, <1>2

\* The inductive invariant of the decisions, their mirror and the approvals.
THEOREM AccessInvariant == AccessSpec => []AccessInv
<1> QED BY AccessInitInv, AccessNextInv, PTL DEF AccessSpec

\* A decision that was made while no other change of its key was being written,
\* and whose own write met no error, means the same in the mirror as in memory
\* once the write has ended, for any number of callers and decisions
\* (_save_to_redis, load_from_redis).
THEOREM AccessMirrorAgrees == AccessSpec => []MirrorAgrees
<1>1. AccessInv => MirrorAgrees
  <2> SUFFICES ASSUME AccessInv, NEW k \in AccessKeys \ unsynced, ~Mirroring(k)
               PROVE  Effective(mirror[k]) = Effective(memory[k])
    BY DEF MirrorAgrees
  <2>1. AccessTyped /\ Alike(memory[k], mirror[k])
    BY DEF AccessInv, KeyOK
  <2> QED BY <2>1 DEF Alike, Void, Effective
<1> QED BY <1>1, AccessInvariant, PTL

\* A gated command passes once for each approval of that very command under that
\* very profile, for any number of commands and approvals
\* (find_and_consume_approval).
THEOREM AccessPassesApproved == AccessSpec => []PassesApproved
<1>1. AccessInv => PassesApproved
  BY DEF AccessInv
<1> QED BY <1>1, AccessInvariant, PTL

----------------------------------------------------------------------------
(* Event hooks *)

\* The kinds of sends and their fields.
LEMMA SendParts ==
  ASSUME HookInv, NEW s \in Sends
  PROVE  /\ send[s] # Idle <=> send[s].phase \in {"posting", "commit"}
         /\ send[s] # Idle => send[s].by \in HookInstances /\ send[s].of \in Deliveries
         /\ send[s].phase = "commit" => /\ send[s].call \in {"complete", "fail"}
                                        /\ send[s].read \in Columns
                                        /\ send[s].handled \in BOOLEAN
  BY DEF HookInv, HookTyped, SendTasks, Idle

\* A row that an UPDATE has written keeps its type.
LEMMA UpdatedRow ==
  ASSUME NEW d \in Deliveries, row[d] \in Columns, NEW old \in Columns, NEW new \in Columns
  PROVE  /\ Updated(d, old, new) \in Columns
         /\ Updated(d, old, new).status \in {row[d].status, new.status}
         /\ Updated(d, old, new).attempts \in {row[d].attempts, new.attempts}
<1> DEFINE u == Updated(d, old, new)
<1>1. DOMAIN old = {"status", "attempts", "leasedBy"}
  BY DEF Columns
<1>2. u = [c \in {"status", "attempts", "leasedBy"} |-> IF new[c] = old[c] THEN row[d][c] ELSE new[c]]
  BY <1>1 DEF Updated
<1> HIDE DEF u
<1>3. u.status = IF new.status = old.status THEN row[d].status ELSE new.status
  BY <1>2
<1>4. u.attempts = IF new.attempts = old.attempts THEN row[d].attempts ELSE new.attempts
  BY <1>2
<1>5. u.leasedBy = IF new.leasedBy = old.leasedBy THEN row[d].leasedBy ELSE new.leasedBy
  BY <1>2
<1>6. u \in Columns
  BY <1>2, <1>3, <1>4, <1>5 DEF Columns
<1> QED BY <1>3, <1>4, <1>6 DEF u

\* A step that commits nothing and reports nothing.
LEMMA HookQuiet ==
  ASSUME HookInv, HookTyped',
         \A i \in HookInstances : claim'[i].rows # {} => worker'[i] = "up",
         \A s \in Sends : send'[s] # Idle => worker'[send'[s].by] = "up",
         \A s \in Sends : send'[s].phase = "commit" => send'[s] = send[s],
         \A d \in Deliveries : /\ row'[d].attempts \in {row[d].attempts, 0}
                               /\ row'[d].status = row[d].status \/ row'[d].status \notin {"sent", "dead"},
         UNCHANGED <<accepted, reports>>
  PROVE  HookInv'
<1>1. \A d \in Deliveries : 0 <= reports[d]
  BY HookAssumption DEF HookInv, HookTyped
<1>2. \A d \in Deliveries : row'[d].attempts <= reports'[d] \/ reports'[d] = MaxAttempts
  BY <1>1 DEF HookInv, Backed
<1>3. \A s \in Sends : send'[s].phase = "commit" =>
          /\ send'[s].read.attempts <= reports'[send'[s].of] \/ reports'[send'[s].of] = MaxAttempts
          /\ send'[s].call = "complete" => send'[s].of \in accepted'
  BY DEF HookInv, Backed
<1>4. HookSentAccepted' /\ HookDeadAfterFailures'
  BY DEF HookInv, HookSentAccepted, HookDeadAfterFailures
<1> QED BY <1>2, <1>3, <1>4 DEF HookInv, Backed, Idle

\* A row is new, its time comes, or its lease ages.
LEMMA TimeInv ==
  ASSUME HookInv, NEW d \in Deliveries,
         Enqueue(d) \/ GrowsOld(d) \/ RetryDue(d) \/ LeaseAges(d) \/ CleanupOld(d)
  PROVE  HookInv'
<1>1. HookTyped
  BY DEF HookInv
<1>2. UNCHANGED <<worker, claim, send, dbErrors, accepted, reports>>
  BY DEF Enqueue, GrowsOld, RetryDue, LeaseAges, CleanupOld
<1>3. young' \cup waiting' \subseteq Deliveries /\ leaseOld' \subseteq Deliveries
  BY <1>1 DEF HookTyped, Enqueue, GrowsOld, RetryDue, LeaseAges, CleanupOld
<1>4. row' \in [Deliveries -> Columns]
      /\ \A e \in Deliveries :
            /\ row'[e].attempts \in {row[e].attempts, 0}
            /\ row'[e].status = row[e].status \/ row'[e].status \notin {"sent", "dead"}
  <2>1. CASE UNCHANGED row
    BY <1>1, <2>1 DEF HookTyped
  <2>2. CASE Enqueue(d)
    <3>1. row' = [row EXCEPT ![d].status = "pending"]
      BY <2>2 DEF Enqueue
    <3> QED BY <1>1, <3>1 DEF HookTyped, Columns
  <2>3. CASE CleanupOld(d)
    <3> DEFINE z == [EmptyRow EXCEPT !.status = "deleted"]
    <3>1. z \in Columns /\ z.attempts = 0 /\ z.status = "deleted"
      BY DEF EmptyRow, Columns
    <3>2. row' = [row EXCEPT ![d] = z]
      BY <2>3 DEF CleanupOld
    <3> HIDE DEF z
    <3> QED BY <1>1, <3>1, <3>2 DEF HookTyped
  <2> QED BY <2>1, <2>2, <2>3 DEF GrowsOld, RetryDue, LeaseAges
<1>5. HookTyped'
  BY <1>1, <1>2, <1>3, <1>4 DEF HookTyped, SendTasks, Columns, Idle
<1> QED BY <1>2, <1>4, <1>5, HookQuiet DEF HookInv

\* A worker that runs has read some rows,
LEMMA ClaimReadInv ==
  ASSUME HookInv, NEW i \in HookInstances, ClaimRead(i)
  PROVE  HookInv'
<1>1. HookTyped
  BY DEF HookInv
<1>2. /\ worker[i] = "up"
      /\ UNCHANGED <<row, young, waiting, leaseOld, worker, send, dbErrors, accepted, reports>>
  BY DEF ClaimRead
<1>3. PICK R \in SUBSET Deliveries, O \in SUBSET Deliveries :
        claim' = [claim EXCEPT ![i] = [rows |-> R, own |-> O]]
  <2>1. PICK window \in SUBSET {d \in Deliveries : Unsettled(d)} :
          claim' = [claim EXCEPT ![i] = [rows |-> {d \in window : Claimable(i, d)},
                         own |-> {d \in {e \in window : Claimable(i, e)} : row[d].leasedBy = i}]]
    BY DEF ClaimRead
  <2>2. {d \in window : Claimable(i, d)} \in SUBSET Deliveries
        /\ {d \in {e \in window : Claimable(i, e)} : row[d].leasedBy = i} \in SUBSET Deliveries
    OBVIOUS
  <2> QED BY <2>1, <2>2
<1>4. claim' \in [HookInstances -> [rows : SUBSET Deliveries, own : SUBSET Deliveries]]
  BY <1>1, <1>3 DEF HookTyped
<1>5. \A j \in HookInstances : claim'[j].rows # {} => worker'[j] = "up"
  BY <1>1, <1>2, <1>3 DEF HookInv, HookTyped
<1>6. HookTyped'
  BY <1>1, <1>2, <1>4 DEF HookTyped, SendTasks, Columns, Idle
<1> QED BY <1>2, <1>5, <1>6, HookQuiet DEF HookInv

\* then leases them and starts a task for each.
LEMMA ClaimCommitInv ==
  ASSUME HookInv, NEW i \in HookInstances, ClaimCommit(i)
  PROVE  HookInv'
<1>1. HookTyped
  BY DEF HookInv
<1>2. PICK R \in SUBSET Deliveries : R = claim[i].rows /\ R # {}
  BY <1>1 DEF HookTyped, ClaimCommit
<1>3. worker[i] = "up"
  BY <1>2 DEF HookInv
<1>4. PICK O : O = claim[i].own
  OBVIOUS
<1>5. /\ row' = [d \in Deliveries |-> IF d \in R \ O THEN [row[d] EXCEPT !.leasedBy = i] ELSE row[d]]
      /\ leaseOld' = leaseOld \ R
      /\ claim' = [claim EXCEPT ![i] = NoClaim]
      /\ UNCHANGED <<young, waiting, worker, dbErrors, accepted, reports>>
  BY <1>2, <1>4 DEF ClaimCommit
<1>6. \E task : send' = [s \in Sends |-> IF \E d \in R : task[d] = s
                                        THEN Posting(i, CHOOSE d \in R : task[d] = s)
                                        ELSE send[s]]
  BY <1>2, ZenonT(60) DEF ClaimCommit
<1>7. PICK task : send' = [s \in Sends |-> IF \E d \in R : task[d] = s
                                        THEN Posting(i, CHOOSE d \in R : task[d] = s)
                                        ELSE send[s]]
  BY <1>6
<1>8. ASSUME NEW s \in Sends
      PROVE  send'[s] = send[s] \/ \E d \in Deliveries : send'[s] = Posting(i, d)
  <2>1. CASE \E d \in R : task[d] = s
    <3>1. (CHOOSE d \in R : task[d] = s) \in Deliveries
      BY <2>1
    <3>2. send'[s] = Posting(i, CHOOSE d \in R : task[d] = s)
      BY <1>7, <2>1
    <3> QED BY <3>1, <3>2
  <2>2. CASE ~\E d \in R : task[d] = s
    BY <1>7, <2>2
  <2> QED BY <2>1, <2>2
<1>9. \A d \in Deliveries : Posting(i, d) \in SendTasks /\ Posting(i, d).phase = "posting"
                            /\ Posting(i, d).by = i
  BY DEF Posting, SendTasks
<1>10. send' \in [Sends -> SendTasks]
  <2>1. \A s \in Sends : send'[s] \in SendTasks
    BY <1>1, <1>8, <1>9 DEF HookTyped
  <2>2. send' = [s \in Sends |-> send'[s]]
    BY <1>7
  <2> QED BY <2>1, <2>2
<1>11. \A d \in Deliveries : row'[d] \in Columns /\ row'[d].attempts = row[d].attempts
                             /\ row'[d].status = row[d].status
  <2> SUFFICES ASSUME NEW d \in Deliveries
               PROVE  row'[d] \in Columns /\ row'[d].attempts = row[d].attempts
                      /\ row'[d].status = row[d].status
    OBVIOUS
  <2>1. row[d] \in Columns
    BY <1>1 DEF HookTyped
  <2>2. row'[d] = row[d] \/ row'[d] = [row[d] EXCEPT !.leasedBy = i]
    BY <1>5
  <2> QED BY <2>1, <2>2 DEF Columns
<1>12. row' \in [Deliveries -> Columns]
  <2>1. row' = [d \in Deliveries |-> row'[d]]
    BY <1>5
  <2> QED BY <1>11, <2>1
<1>13. claim' \in [HookInstances -> [rows : SUBSET Deliveries, own : SUBSET Deliveries]]
       /\ \A j \in HookInstances : claim'[j].rows # {} => worker'[j] = "up"
  BY <1>1, <1>5 DEF HookInv, HookTyped, NoClaim
<1>14. HookTyped'
  <2>1. SendTasks' = SendTasks /\ Columns' = Columns
    BY DEF SendTasks, Columns, Idle
  <2> QED BY <1>1, <1>5, <1>10, <1>12, <1>13, <2>1 DEF HookTyped
<1>15. \A s \in Sends : send'[s] # Idle => worker'[send'[s].by] = "up"
  BY <1>3, <1>5, <1>8, <1>9 DEF HookInv
<1>16. \A s \in Sends : send'[s].phase = "commit" => send'[s] = send[s]
  BY <1>8, <1>9
<1> QED BY <1>5, <1>11, <1>13, <1>14, <1>15, <1>16, HookQuiet

\* A process starts, or ends with its claim and its tasks.
LEMMA WorkerInv ==
  ASSUME HookInv, NEW i \in HookInstances, StartWorker(i) \/ StopWorker(i)
  PROVE  HookInv'
<1>1. HookTyped
  BY DEF HookInv
<1>2. UNCHANGED <<row, young, waiting, leaseOld, dbErrors, accepted, reports>>
  BY DEF StartWorker, StopWorker
<1>3. SendTasks' = SendTasks /\ Columns' = Columns
  BY DEF SendTasks, Columns, Idle
<1>4. CASE StartWorker(i)
  <2>1. worker' = [worker EXCEPT ![i] = "up"] /\ UNCHANGED <<claim, send>>
    BY <1>4 DEF StartWorker
  <2>2. HookTyped'
    BY <1>1, <1>2, <1>3, <2>1 DEF HookTyped
  <2>3. \A j \in HookInstances : worker[j] = "up" => worker'[j] = "up"
    BY <1>1, <2>1 DEF HookTyped
  <2>4. \A s \in Sends : send'[s] # Idle => worker'[send'[s].by] = "up"
    BY <2>1, <2>3, SendParts DEF HookInv
  <2> QED BY <1>2, <2>1, <2>2, <2>3, <2>4, HookQuiet DEF HookInv
<1>5. CASE StopWorker(i)
  <2>1. /\ worker' = [worker EXCEPT ![i] = "gone"] /\ claim' = [claim EXCEPT ![i] = NoClaim]
        /\ send' = [s \in Sends |-> IF send[s] # Idle /\ send[s].by = i THEN Idle ELSE send[s]]
    <3>1. \A s \in Sends : s \in Cancelled(i) <=> send[s] # Idle /\ send[s].by = i
      BY DEF Cancelled
    <3> QED BY <1>5, <3>1 DEF StopWorker
  <2>2. HookTyped'
    <3>1. worker' \in [HookInstances -> {"unborn", "up", "gone"}]
      BY <1>1, <2>1 DEF HookTyped
    <3>2. claim' \in [HookInstances -> [rows : SUBSET Deliveries, own : SUBSET Deliveries]]
      BY <1>1, <2>1 DEF HookTyped, NoClaim
    <3>3. Idle \in SendTasks
      BY DEF SendTasks
    <3>4. send' \in [Sends -> SendTasks]
      BY <1>1, <2>1, <3>3 DEF HookTyped
    <3> QED BY <1>1, <1>2, <1>3, <3>1, <3>2, <3>4 DEF HookTyped
  <2>3. \A j \in HookInstances : claim'[j].rows # {} => worker'[j] = "up"
    BY <1>1, <2>1 DEF HookInv, HookTyped, NoClaim
  <2>4. \A s \in Sends : send'[s] # Idle => worker'[send'[s].by] = "up"
    <3>1. \A s \in Sends : send'[s] # Idle => send'[s] = send[s] /\ send[s].by # i
      BY <2>1
    <3>2. \A j \in HookInstances : j # i => worker'[j] = worker[j]
      BY <1>1, <2>1 DEF HookTyped
    <3> QED BY <3>1, <3>2, SendParts DEF HookInv
  <2>5. \A s \in Sends : send'[s].phase = "commit" => send'[s] = send[s]
    BY <2>1 DEF Idle
  <2> QED BY <1>2, <2>2, <2>3, <2>4, <2>5, HookQuiet
<1> QED BY <1>4, <1>5

\* An answer: the task will commit what complete() or fail() makes of the row
\* that it reads, complete() only after the receiver accepted.
LEMMA AnswerInv ==
  ASSUME HookInv, NEW s \in Sends, Answer(s)
  PROVE  HookInv'
<1>1. HookTyped
  BY DEF HookInv
<1>2. PICK d \in Deliveries, i \in HookInstances : d = send[s].of /\ i = send[s].by /\ send[s] # Idle
  BY SendParts DEF Answer, Idle
<1>3. UNCHANGED <<row, young, waiting, leaseOld, worker, claim, dbErrors, reports>>
  BY DEF Answer
<1>4. PICK answer \in Answers :
        /\ send' = [send EXCEPT ![s] =
                      Committing(i, d, IF Delivered(answer) THEN "complete" ELSE "fail", answer # "error")]
        /\ accepted' = IF answer = "2xx" THEN accepted \cup {d} ELSE accepted
  BY <1>2 DEF Answer
<1>5. PICK c \in {"complete", "fail"} : c = IF Delivered(answer) THEN "complete" ELSE "fail"
  OBVIOUS
<1>6. (answer # "error") \in BOOLEAN
  BY Zenon
<1>7. PICK h \in BOOLEAN : h = (answer # "error")
  BY <1>6, Zenon
<1>8. send' = [send EXCEPT ![s] = Committing(i, d, c, h)]
  BY <1>4, <1>5, <1>7, Zenon
<1>9. c = "complete" => d \in accepted'
  BY <1>4, <1>5 DEF Delivered
<1>10. accepted \subseteq accepted' /\ accepted' \subseteq Deliveries
  BY <1>1, <1>4 DEF HookTyped
<1> DEFINE t == Committing(i, d, c, h)
<1>11. /\ t.phase = "commit" /\ t.by = i /\ t.of = d /\ t.call = c /\ t.read = row[d]
       /\ t \in SendTasks
  <2>1. row[d] \in Columns
    BY <1>1 DEF HookTyped
  <2>2. t \in [phase : {"commit"}, by : HookInstances, of : Deliveries,
               call : {"complete", "fail"}, read : Columns, handled : BOOLEAN]
    BY <2>1 DEF Committing
  <2> QED BY <2>2 DEF SendTasks, Committing
<1> HIDE DEF t
<1>12. send'[s] = t /\ \A r \in Sends : r # s => send'[r] = send[r]
  BY <1>1, <1>8 DEF HookTyped, t
<1>13. send' \in [Sends -> SendTasks]
  BY <1>1, <1>8, <1>11 DEF HookTyped, t
<1>14. HookTyped'
  <2>1. SendTasks' = SendTasks /\ Columns' = Columns
    BY DEF SendTasks, Columns, Idle
  <2> QED BY <1>1, <1>3, <1>10, <1>13, <2>1 DEF HookTyped
<1>15. \A r \in Sends : send'[r] # Idle => worker'[send'[r].by] = "up"
  BY <1>2, <1>3, <1>11, <1>12 DEF HookInv
<1>16. \A r \in Sends : send'[r].phase = "commit" =>
          /\ send'[r].read.attempts <= reports[send'[r].of] \/ reports[send'[r].of] = MaxAttempts
          /\ send'[r].call = "complete" => send'[r].of \in accepted'
  <2> SUFFICES ASSUME NEW r \in Sends, send'[r].phase = "commit"
               PROVE  /\ send'[r].read.attempts <= reports[send'[r].of] \/ reports[send'[r].of] = MaxAttempts
                      /\ send'[r].call = "complete" => send'[r].of \in accepted'
    OBVIOUS
  <2>1. CASE r = s
    BY <1>9, <1>11, <1>12, <2>1 DEF HookInv, Backed
  <2>2. CASE r # s
    BY <1>10, <1>12, <2>2 DEF HookInv, Backed
  <2> QED BY <2>1, <2>2
<1>17. HookSentAccepted' /\ HookDeadAfterFailures'
  BY <1>3, <1>10 DEF HookInv, HookSentAccepted, HookDeadAfterFailures
<1>18. \A e \in Deliveries : row'[e].attempts <= reports'[e] \/ reports'[e] = MaxAttempts
  BY <1>3 DEF HookInv, Backed
<1> QED BY <1>3, <1>14, <1>15, <1>16, <1>17, <1>18 DEF HookInv, Backed, Idle

\* What complete() and fail() assign.
LEMMA NewColumns ==
  ASSUME NEW r \in Columns
  PROVE  /\ Completed(r) \in Columns /\ Completed(r).status = "sent"
         /\ Completed(r).attempts = r.attempts
         /\ Failed(r) \in Columns /\ Failed(r).attempts = r.attempts + 1
         /\ Failed(r).status \in {"dead", "failed"}
         /\ Failed(r).status = "dead" => r.attempts + 1 >= MaxAttempts
<1>1. /\ Completed(r) \in Columns /\ Completed(r).status = "sent"
      /\ Completed(r).attempts = r.attempts
  BY DEF Completed, Columns
<1>2. PICK n \in Nat, z \in {"dead", "failed"} :
        /\ n = r.attempts + 1 /\ z = IF Exhausted(n) THEN "dead" ELSE "failed"
        /\ z = "dead" => n >= MaxAttempts
  BY DEF Columns, Exhausted
<1>3. Failed(r) = [r EXCEPT !.attempts = n, !.leasedBy = NoInstance, !.status = z]
  BY <1>2 DEF Failed
<1>4. Failed(r) \in Columns /\ Failed(r).attempts = n /\ Failed(r).status = z
  BY <1>3 DEF Columns
<1> QED BY <1>1, <1>2, <1>4

\* A commit, whether the task learns of it or not: every count stays backed by
\* failures, and what is written is what the task stands for.
LEMMA ApplyFacts ==
  ASSUME HookInv, NEW s \in Sends, send[s].phase = "commit",
         Apply(s) \/ UNCHANGED <<row, young, waiting, leaseOld, reports>>
  PROVE  /\ row' \in [Deliveries -> Columns]
         /\ young' \cup waiting' \subseteq Deliveries /\ leaseOld' \subseteq Deliveries
         /\ reports' \in [Deliveries -> 0 .. MaxAttempts]
         /\ \A d \in Deliveries : \A n \in Nat : Backed(n, d) => Backed(n, d)'
         /\ \A d \in Deliveries : row'[d].attempts <= reports'[d] \/ reports'[d] = MaxAttempts
         /\ \A d \in Deliveries : row'[d].status = "sent" => d \in accepted
         /\ \A d \in Deliveries : row'[d].status = "dead" => reports'[d] >= MaxAttempts
<1>1. /\ HookTyped
      /\ \A d \in Deliveries : row[d] \in Columns /\ row[d].attempts \in Nat
                               /\ reports[d] \in 0 .. MaxAttempts
  BY DEF HookInv, HookTyped, Columns
<1>2. CASE UNCHANGED <<row, young, waiting, leaseOld, reports>>
  BY <1>1, <1>2 DEF HookInv, HookTyped, Backed, HookSentAccepted, HookDeadAfterFailures
<1>3. CASE Apply(s) /\ ~UNCHANGED <<row, young, waiting, leaseOld, reports>>
  <2>1. PICK d \in Deliveries, old \in Columns, c \in {"complete", "fail"} :
          d = send[s].of /\ old = send[s].read /\ c = send[s].call
    BY SendParts DEF Idle
  <2>2. old.attempts \in Nat /\ Backed(old.attempts, d) /\ (c = "complete" => d \in accepted)
    BY <2>1 DEF HookInv, Columns
  <2>3. PICK new \in Columns : new = IF c = "complete" THEN Completed(old) ELSE Failed(old)
    BY NewColumns
  <2>4. /\ row' = [row EXCEPT ![d] = Updated(d, old, new)]
        /\ young' = young \ {d}
        /\ waiting' \subseteq waiting \cup {d}
        /\ leaseOld' \subseteq leaseOld
        /\ reports' = IF c = "fail" THEN [reports EXCEPT ![d] = Capped(reports[d] + 1)] ELSE reports
    BY <1>3, <2>1, <2>3 DEF Apply
  <2>5. PICK u \in Columns : /\ u = Updated(d, old, new)
                             /\ u.status \in {row[d].status, new.status}
                             /\ u.attempts \in {row[d].attempts, new.attempts}
    BY <1>1, UpdatedRow
  <2>6. row'[d] = u /\ \A e \in Deliveries : e # d => row'[e] = row[e]
    BY <1>1, <2>4, <2>5 DEF HookTyped
  <2>7. row' \in [Deliveries -> Columns]
    BY <1>1, <2>4, <2>5 DEF HookTyped
  <2>8. young' \cup waiting' \subseteq Deliveries /\ leaseOld' \subseteq Deliveries
    BY <1>1, <2>4 DEF HookTyped
  <2>9. Capped(reports[d] + 1) \in 0 .. MaxAttempts /\ Capped(reports[d] + 1) >= reports[d]
        /\ (Capped(reports[d] + 1) = reports[d] + 1 \/ Capped(reports[d] + 1) = MaxAttempts)
    BY <1>1, HookAssumption DEF Capped
  <2>10. reports' \in [Deliveries -> 0 .. MaxAttempts]
    BY <1>1, <2>4, <2>9 DEF HookTyped
  <2>11. \A e \in Deliveries : reports[e] <= reports'[e] /\ (reports[e] = MaxAttempts => reports'[e] = MaxAttempts)
    <3>1. \A e \in Deliveries : reports'[e] = reports[e]
                                \/ (e = d /\ reports'[e] = Capped(reports[d] + 1))
      BY <1>1, <2>4 DEF HookTyped
    <3> QED BY <1>1, <2>9, <3>1, HookAssumption
  <2>12. \A e \in Deliveries : \A n \in Nat : Backed(n, e) => Backed(n, e)'
    <3>1. \A e \in Deliveries : reports[e] \in Nat /\ reports'[e] \in Nat
      BY <1>1, <2>10
    <3> QED BY <2>11, <3>1 DEF Backed
  <2>13. new.attempts <= reports'[d] \/ reports'[d] = MaxAttempts
    <3>1. CASE c = "complete"
      BY <2>2, <2>3, <2>12, <3>1, NewColumns DEF Backed
    <3>2. CASE c = "fail"
      <4>1. reports'[d] = Capped(reports[d] + 1)
        BY <1>1, <2>4, <3>2 DEF HookTyped
      <4>2. new.attempts = old.attempts + 1
        BY <2>3, <3>2, NewColumns
      <4> QED BY <1>1, <2>2, <4>1, <4>2, HookAssumption DEF Backed, Capped
    <3> QED BY <3>1, <3>2
  <2>14. \A e \in Deliveries : row'[e].attempts <= reports'[e] \/ reports'[e] = MaxAttempts
    <3>1. \A e \in Deliveries : row[e].attempts <= reports'[e] \/ reports'[e] = MaxAttempts
      BY <1>1, <2>12 DEF HookInv, Backed
    <3> QED BY <2>5, <2>6, <2>13, <3>1
  <2>15. \A e \in Deliveries : row'[e].status = "sent" => e \in accepted
    <3>1. new.status = "sent" => d \in accepted
      BY <2>2, <2>3, NewColumns
    <3> QED BY <2>5, <2>6, <3>1 DEF HookInv, HookSentAccepted
  <2>16. \A e \in Deliveries : row'[e].status = "dead" => reports'[e] >= MaxAttempts
    <3>1. new.status = "dead" => new.attempts >= MaxAttempts
      BY <2>3, NewColumns
    <3>2. new.attempts \in Nat /\ reports'[d] \in Nat
      BY <2>3, <2>10 DEF Columns
    <3>3. new.status = "dead" => reports'[d] >= MaxAttempts
      BY <2>13, <3>1, <3>2, HookAssumption
    <3>4. \A e \in Deliveries : row[e].status = "dead" => reports'[e] >= MaxAttempts
      <4>1. \A e \in Deliveries : reports[e] \in Nat /\ reports'[e] \in Nat
        BY <1>1, <2>10
      <4> QED BY <2>11, <4>1, HookAssumption DEF HookInv, HookDeadAfterFailures
    <3> QED BY <2>5, <2>6, <3>3, <3>4
  <2> QED BY <2>7, <2>8, <2>10, <2>12, <2>14, <2>15, <2>16
<1> QED BY <1>2, <1>3

\* A step in which one task commits and goes on or ends.
LEMMA CommitStep ==
  ASSUME HookInv, NEW s \in Sends, send[s].phase = "commit",
         Apply(s) \/ UNCHANGED <<row, young, waiting, leaseOld, reports>>,
         NEW t \in SendTasks, send' = [send EXCEPT ![s] = t],
         t # Idle => /\ t.by = send[s].by /\ t.of = send[s].of /\ t.call = "fail"
                     /\ t.phase = "commit" /\ t.read = row'[send[s].of],
         dbErrors' \in 0 .. MaxDbErrors, UNCHANGED <<worker, claim, accepted>>
  PROVE  HookInv'
<1>1. HookTyped
  BY DEF HookInv
<1>2. /\ row' \in [Deliveries -> Columns]
      /\ young' \cup waiting' \subseteq Deliveries /\ leaseOld' \subseteq Deliveries
      /\ reports' \in [Deliveries -> 0 .. MaxAttempts]
      /\ \A d \in Deliveries : \A n \in Nat : Backed(n, d) => Backed(n, d)'
      /\ \A d \in Deliveries : row'[d].attempts <= reports'[d] \/ reports'[d] = MaxAttempts
      /\ \A d \in Deliveries : row'[d].status = "sent" => d \in accepted
      /\ \A d \in Deliveries : row'[d].status = "dead" => reports'[d] >= MaxAttempts
  BY ApplyFacts
<1>3. send'[s] = t /\ \A r \in Sends : r # s => send'[r] = send[r]
  BY <1>1 DEF HookTyped
<1>4. HookTyped'
  <2>1. SendTasks' = SendTasks /\ Columns' = Columns
    BY DEF SendTasks, Columns, Idle
  <2>2. send' \in [Sends -> SendTasks]
    BY <1>1 DEF HookTyped
  <2> QED BY <1>1, <1>2, <2>1, <2>2 DEF HookTyped
<1>5. send[s] # Idle /\ send[s].of \in Deliveries
  BY SendParts DEF Idle
<1>6. \A r \in Sends : send'[r] # Idle => worker'[send'[r].by] = "up"
  BY <1>3, <1>5 DEF HookInv
<1>7. ASSUME NEW r \in Sends, send'[r].phase = "commit"
      PROVE  /\ send'[r].read.attempts <= reports'[send'[r].of] \/ reports'[send'[r].of] = MaxAttempts
             /\ send'[r].call = "complete" => send'[r].of \in accepted'
  <2>1. CASE r = s
    <3>1. t # Idle /\ send'[r] = t
      BY <1>3, <1>7, <2>1 DEF Idle
    <3> QED BY <1>2, <1>5, <3>1
  <2>2. CASE r # s
    <3>1. send'[r] = send[r] /\ send[r].phase = "commit"
      BY <1>3, <1>7, <2>2
    <3>2. send[r].of \in Deliveries /\ send[r].read.attempts \in Nat
      BY <3>1, SendParts DEF Columns, Idle
    <3>3. Backed(send[r].read.attempts, send[r].of)
      BY <3>1 DEF HookInv
    <3>4. PICK n \in Nat, d \in Deliveries : n = send[r].read.attempts /\ d = send[r].of
      BY <3>2
    <3>5. Backed(n, d)'
      BY <1>2, <3>3, <3>4
    <3>6. send[r].call = "complete" => send[r].of \in accepted
      BY <3>1 DEF HookInv
    <3> QED BY <3>1, <3>4, <3>5, <3>6 DEF Backed
  <2> QED BY <2>1, <2>2
<1>8. HookSentAccepted' /\ HookDeadAfterFailures'
  BY <1>2 DEF HookSentAccepted, HookDeadAfterFailures
<1>9. \A i \in HookInstances : claim'[i].rows # {} => worker'[i] = "up"
  BY DEF HookInv
<1>10. \A d \in Deliveries : Backed(row[d].attempts, d)'
  BY <1>2 DEF Backed
<1>11. \A r \in Sends : send'[r].phase = "commit" =>
          /\ Backed(send[r].read.attempts, send[r].of)'
          /\ send'[r].call = "complete" => send'[r].of \in accepted'
  BY <1>7 DEF Backed
<1> QED BY <1>4, <1>6, <1>8, <1>9, <1>10, <1>11 DEF HookInv, Idle

\* The commit of complete() or fail().
LEMMA CommitInv ==
  ASSUME HookInv, NEW s \in Sends, Commit(s)
  PROVE  HookInv'
<1>1. Idle \in SendTasks /\ dbErrors \in 0 .. MaxDbErrors
  BY DEF SendTasks, HookInv, HookTyped
<1>2. /\ send[s].phase = "commit" /\ Apply(s) /\ send' = [send EXCEPT ![s] = Idle]
      /\ UNCHANGED <<worker, claim, dbErrors, accepted>>
  BY DEF Commit
<1> QED BY <1>1, <1>2, CommitStep

\* A database error before or after the commit: the task reports a failure, or
\* has no handler left and ends.
LEMMA DbErrorInv ==
  ASSUME HookInv, NEW s \in Sends, DbError(s)
  PROVE  HookInv'
<1>1. /\ send[s].phase = "commit" /\ dbErrors < MaxDbErrors
      /\ Apply(s) \/ UNCHANGED <<row, young, waiting, leaseOld, reports>>
      /\ dbErrors' = dbErrors + 1
      /\ UNCHANGED <<worker, claim, accepted>>
  BY DEF DbError
<1>2. dbErrors' \in 0 .. MaxDbErrors
  BY <1>1, HookAssumption DEF HookInv, HookTyped
<1>3. CASE ~send[s].handled
  <2>1. send' = [send EXCEPT ![s] = Idle]
    BY <1>3 DEF DbError
  <2>2. Idle \in SendTasks
    BY DEF SendTasks
  <2> QED BY <1>1, <1>2, <2>1, <2>2, CommitStep
<1>4. CASE send[s].handled
  <2>1. PICK t : t = [send[s] EXCEPT !.call = "fail", !.read = row'[send[s].of], !.handled = FALSE]
    OBVIOUS
  <2>2. send' = [send EXCEPT ![s] = t]
    BY <1>4, <2>1 DEF DbError
  <2>3. send[s].of \in Deliveries
    BY <1>1, SendParts DEF Idle
  <2>4. row'[send[s].of] \in Columns
    BY <1>1, <2>3, ApplyFacts
  <2>5. send[s] \in [phase : {"commit"}, by : HookInstances, of : Deliveries,
                     call : {"complete", "fail"}, read : Columns, handled : BOOLEAN]
    BY <1>1 DEF HookInv, HookTyped, SendTasks, Idle
  <2>6. t \in [phase : {"commit"}, by : HookInstances, of : Deliveries,
               call : {"complete", "fail"}, read : Columns, handled : BOOLEAN]
        /\ t.by = send[s].by /\ t.of = send[s].of /\ t.call = "fail"
        /\ t.phase = "commit" /\ t.read = row'[send[s].of]
    BY <2>1, <2>4, <2>5
  <2>7. t \in SendTasks
    BY <2>6 DEF SendTasks
  <2> QED BY <1>1, <1>2, <2>2, <2>6, <2>7, CommitStep
<1> QED BY <1>3, <1>4

\* No row, no worker.
LEMMA HookInitInv == HookInit => HookInv
<1> SUFFICES ASSUME HookInit PROVE HookInv
  OBVIOUS
<1>1. EmptyRow \in Columns /\ EmptyRow.status = "new" /\ EmptyRow.attempts = 0
  BY DEF EmptyRow, Columns
<1>2. Idle \in SendTasks /\ Idle.phase = "idle"
  BY DEF SendTasks, Idle
<1>3. NoClaim \in [rows : SUBSET Deliveries, own : SUBSET Deliveries] /\ NoClaim.rows = {}
  BY DEF NoClaim
<1>4. HookTyped
  BY <1>1, <1>2, <1>3, HookAssumption DEF HookInit, HookTyped
<1> QED BY <1>1, <1>2, <1>3, <1>4 DEF HookInit, HookInv, Backed, HookSentAccepted, HookDeadAfterFailures

\* No step of the outbox or of its workers breaks the invariant.
LEMMA HookNextInv == HookInv /\ [HookNext]_hookVars => HookInv'
<1> SUFFICES ASSUME HookInv, [HookNext]_hookVars PROVE HookInv'
  OBVIOUS
<1>1. CASE UNCHANGED hookVars
  <2>1. UNCHANGED <<row, young, waiting, leaseOld, worker, claim, send, dbErrors, accepted, reports>>
    BY <1>1 DEF hookVars
  <2>2. HookTyped'
    BY <2>1 DEF HookInv, HookTyped, SendTasks, Columns, Idle
  <2> QED BY <2>1, <2>2, HookQuiet DEF HookInv
<1>2. CASE HookNext
  BY <1>2, TimeInv, ClaimReadInv, ClaimCommitInv, WorkerInv, AnswerInv, CommitInv, DbErrorInv DEF HookNext
<1> QED BY <1>1, <1>2

\* The inductive invariant of the outbox and its sends.
THEOREM HookInvariant == HookSpec => []HookInv
<1> QED BY HookInitInv, HookNextInv, PTL DEF HookSpec

\* A row says "sent" only if a receiver has accepted the delivery, whichever of
\* any number of overlapping sends wrote the row last (complete, fail).
THEOREM HookSent == HookSpec => []HookSentAccepted
<1>1. HookInv => HookSentAccepted
  BY DEF HookInv
<1> QED BY <1>1, HookInvariant, PTL

\* A delivery is given up only after max_attempts failures were recorded for
\* it, for any number of workers, sends and database errors (fail).
THEOREM HookDead == HookSpec => []HookDeadAfterFailures
<1>1. HookInv => HookDeadAfterFailures
  BY DEF HookInv
<1> QED BY <1>1, HookInvariant, PTL

\* The decisions, their mirror and the approvals keep their types.
THEOREM AccessTypes == AccessSpec => []AccessTypeOK
<1>1. AccessInv => AccessTypeOK
  <2> SUFFICES ASSUME AccessInv PROVE AccessTypeOK
    OBVIOUS
  <2>1. AccessTyped
    BY DEF AccessInv
  <2>2. PICK S : S = [key : AccessKeys, verdict : Verdicts]
    OBVIOUS
  <2>3. decisions \in Seq(S)
    BY <2>1, <2>2 DEF AccessTyped
  <2>4. \A n \in DOMAIN decisions : decisions[n] \in S
    BY <2>3
  <2>5. \A a \in ApprovalIds : Stored(a) => approvals[a] \in Requests
    BY <2>1 DEF AccessTyped, Stored
  <2>6. \A k \in AccessKeys : {memory[k], mirror[k], keyTtl[k]} \subseteq 0 .. Len(decisions)
    BY <2>1 DEF AccessTyped
  <2> QED BY <2>1, <2>2, <2>4, <2>5, <2>6 DEF AccessTypeOK, AccessTyped, Requests
<1> QED BY <1>1, AccessInvariant, PTL

\* The outbox and its sends keep their types; a send is of a process that runs.
THEOREM HookTypes == HookSpec => []HookTypeOK
<1>1. HookInv => HookTypeOK
  BY SendParts DEF HookInv, HookTyped, HookTypeOK
<1> QED BY <1>1, HookInvariant, PTL

----------------------------------------------------------------------------
(* The instance that TLC explores *)

\* A behaviour of MCServices is one of each service, so what is proved of the
\* services holds of it.
LEMMA ServicesImplement == ServicesSpec => Spec /\ SshSpec /\ AccessSpec /\ HookSpec
<1>1. ServicesInit => Init /\ SshInit /\ AccessInit /\ HookInit
  BY DEF ServicesInit
<1>2. [ServicesNext]_<<focus, vars, sshVars, accessVars, hookVars>>
      => [Next]_vars /\ [SshNext]_sshVars /\ [AccessNext]_accessVars /\ [HookNext]_hookVars
  BY DEF ServicesNext
<1> QED BY <1>1, <1>2, PTL DEF ServicesSpec, Spec, SshSpec, AccessSpec, HookSpec

\* The type invariants of the breakers, the SSH sessions and their pool, the access
\* decisions and approvals, and the event hook deliveries, together.
THEOREM ServicesTypes == ServicesSpec => []ServicesTypeOK
BY ServicesImplement, BreakerTypes, SshTypes, AccessTypes, HookTypes, PTL DEF ServicesTypeOK
=============================================================================
