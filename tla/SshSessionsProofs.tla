-------------------------- MODULE SshSessionsProofs --------------------------
(***************************************************************************)
(* Proofs about SshSessions, for any callers, limits, keys and pool size,  *)
(* any number of transports and any finite number of connects.             *)
(***************************************************************************)
EXTENDS SshSessions, FiniteSetTheorems, TLAPS

\* Sessions with a transport in their hands.
Holding == {s \in Sessions : phase[s] \in {"linked", "live", "parting"}}

\* Connects that have not yet a session record.
Connecting == {s \in Sessions : phase[s] \in {"admitted", "linked"}}

\* Every transport in use was dialled and is in one place only.
HandsOK ==
    /\ \A s \in Holding : client[s] \in Transports /\ link[client[s]] # "fresh"
    /\ \A i \in 1 .. Len(pool) : link[pool[i]] # "fresh"
    /\ \A r, s \in Holding : client[r] = client[s] => r = s
    /\ \A i, j \in 1 .. Len(pool) : pool[i] = pool[j] => i = j
    /\ \A s \in Holding, i \in 1 .. Len(pool) : pool[i] # client[s]

At(a) == {s \in Sessions : AddressOfSession(s) = a}

\* A connect holds its reservation until it returns, and pending counts the
\* reservations.
ReservationsOK ==
    /\ Connecting \subseteq reserved
    /\ \A s \in reserved : phase[s] \notin {"unused", "checked"}
    /\ \A a \in Addresses : pending[a] = Cardinality(reserved \cap At(a))

\* What occupies an address.
HeldAt(a) == {s \in Sessions : Occupies(s) /\ AddressOfSession(s) = a}

CapOK ==
    \A a \in Addresses :
        HeldAt(a) = {} \/ \E w \in Callers : AddressOf[w] = a /\ Cardinality(HeldAt(a)) <= Limit[w]

\* A connect under way of a denied caller had passed the gate before.
DeniedOK ==
    \A s \in Sessions : OwnerOf[s] \in denied =>
        /\ phase[s] = "live" => s \in doomed \cup late
        /\ phase[s] \in {"checked", "admitted", "linked"} => s \in late

IInv == SshTypeOK /\ HandsOK /\ ReservationsOK /\ CapOK /\ DeniedOK /\ OwnCredential

----------------------------------------------------------------------------
(* Induction on natural numbers, from their well-foundedness *)

\* A set of natural numbers has a least member.
LEMMA LeastNat ==
  ASSUME NEW T, T \subseteq Nat, T # {}
  PROVE  \E x \in T : \A y \in T : x <= y
<1>1. \E R : IsWellFoundedOn(R, Nat) /\ \A x, y \in Nat : y < x => <<y, x>> \in R
  <2>1. IsWellFoundedOn(OpToRel(<, Nat), Nat)
    BY NatLessThanWellFounded
  <2>2. \A x, y \in Nat : y < x => <<y, x>> \in OpToRel(<, Nat)
    BY DEF OpToRel
  <2> QED BY <2>1, <2>2
<1>2. PICK R : IsWellFoundedOn(R, Nat) /\ \A x, y \in Nat : y < x => <<y, x>> \in R
  BY <1>1
<1>3. PICK x \in T : \A y \in T : <<y, x>> \notin R
  BY <1>2, WFMin
<1>4. \A y \in T : ~(y < x)
  BY <1>2, <1>3
<1>5. \A y \in T : x <= y
  BY <1>4
<1> QED BY <1>5

\* A set that holds 0 and the successor of each of its members holds them all.
LEMMA NatSetInduction ==
  ASSUME NEW T \in SUBSET Nat, 0 \in T, \A n \in T : n + 1 \in T
  PROVE  T = Nat
<1>1. SUFFICES ASSUME Nat \ T # {} PROVE FALSE
  OBVIOUS
<1>2. PICK x \in Nat \ T : \A y \in Nat \ T : x <= y
  BY <1>1, LeastNat
<1>3. x # 0 /\ x - 1 \in Nat
  OBVIOUS
<1>4. x - 1 \in T
  BY <1>2, <1>3
<1>5. x - 1 + 1 = x
  OBVIOUS
<1> QED BY <1>4, <1>5

----------------------------------------------------------------------------
(* The pool *)

\* The newest of the positions is one of them.
LEMMA NewestIn ==
  ASSUME NEW n \in Nat, NEW I, I \subseteq 1 .. n, I # {}
  PROVE  Newest(I) \in I /\ \A j \in I : j <= Newest(I)
<1> DEFINE T == {n - i : i \in I}
<1>a. \A i \in I : i \in 1 .. n /\ n - i \in Nat
  OBVIOUS
<1>b. T \subseteq Nat
  BY <1>a
<1>c. T # {}
  OBVIOUS
<1>1. T \subseteq Nat /\ T # {}
  BY <1>b, <1>c
<1>2. PICK x \in T : \A y \in T : x <= y
  BY <1>1, LeastNat
<1>3. PICK i \in I : x = n - i
  BY <1>2
<1>d. \A j \in I : n - i <= n - j
  BY <1>2, <1>3
<1>4. \A j \in I : j <= i
  BY <1>a, <1>d
<1>5. \E m \in I : \A j \in I : j <= m
  BY <1>4
<1> QED BY <1>5 DEF Newest

\* The recursion of Without, up to a position.
Walk(g, I, n) ==
    g = [m \in 0 .. n |-> IF m = 0 THEN <<>>
                          ELSE IF m \in I THEN g[m - 1] ELSE Append(g[m - 1], pool[m])]

\* The recursion has a solution up to every position.
LEMMA WalkExists ==
  ASSUME NEW I
  PROVE  \A n \in Nat : \E g : Walk(g, I, n)
<1> DEFINE T == {n \in Nat : \E g : Walk(g, I, n)}
<1>1. 0 \in T
  <2>1. Walk([m \in 0 .. 0 |-> <<>>], I, 0)
    BY DEF Walk
  <2> QED BY <2>1
<1>2. ASSUME NEW n \in T PROVE n + 1 \in T
  <2>1. PICK g : Walk(g, I, n)
    BY <1>2
  <2> DEFINE h == [m \in 0 .. n + 1 |->
                     IF m <= n THEN g[m]
                     ELSE IF m \in I THEN g[m - 1] ELSE Append(g[m - 1], pool[m])]
  <2>2. \A m \in 0 .. n : g[m] = IF m = 0 THEN <<>>
                                ELSE IF m \in I THEN g[m - 1] ELSE Append(g[m - 1], pool[m])
    BY <2>1 DEF Walk
  <2>3. \A m \in 0 .. n + 1 : h[m] = IF m = 0 THEN <<>>
                                    ELSE IF m \in I THEN h[m - 1] ELSE Append(h[m - 1], pool[m])
    BY <2>2
  <2>4. h = [m \in 0 .. n + 1 |-> h[m]]
    OBVIOUS
  <2> HIDE DEF h
  <2>5. Walk(h, I, n + 1)
    BY <2>3, <2>4 DEF Walk
  <2> QED BY <2>5
<1> HIDE DEF T
<1>3. T \in SUBSET Nat
  BY DEF T
<1>4. T = Nat
  BY <1>1, <1>2, <1>3, NatSetInduction
<1> QED BY <1>4 DEF T

\* Without keeps the members at the other positions, each once.
KeptFrom(q, I, n) ==
    /\ q \in Seq(Transports)
    /\ \E e \in [1 .. Len(q) -> (1 .. n) \ I] :
          /\ \A m \in 1 .. Len(q) : q[m] = pool[e[m]]
          /\ \A l, m \in 1 .. Len(q) : e[l] = e[m] => l = m

LEMMA WithoutKeeps ==
  ASSUME pool \in Seq(Transports), NEW I
  PROVE  KeptFrom(Without(I), I, Len(pool))
<1> DEFINE N == Len(pool)
<1>0. N \in Nat
  OBVIOUS
<1>1. PICK F : /\ F[0] = <<>> /\ Without(I) = F[N]
               /\ \A m \in 1 .. N : F[m] = IF m \in I THEN F[m - 1] ELSE Append(F[m - 1], pool[m])
  <2>1. \E g : Walk(g, I, N)
    BY <1>0, WalkExists
  <2>2. PICK F : Walk(F, I, N) /\ Without(I) = F[N]
    BY <2>1 DEF Without, Walk
  <2>3. \A m \in 0 .. N : F[m] = IF m = 0 THEN <<>>
                                ELSE IF m \in I THEN F[m - 1] ELSE Append(F[m - 1], pool[m])
    BY <2>2 DEF Walk
  <2> QED BY <1>0, <2>2, <2>3
<1> DEFINE T == {n \in Nat : n <= N => KeptFrom(F[n], I, n)}
<1>2. 0 \in T
  <2>1. F[0] \in Seq(Transports) /\ Len(F[0]) = 0
    BY <1>1
  <2> DEFINE e == [m \in 1 .. 0 |-> 0]
  <2>2. e \in [1 .. 0 -> (1 .. 0) \ I] /\ \A m \in 1 .. 0 : FALSE
    OBVIOUS
  <2> HIDE DEF e
  <2>3. KeptFrom(F[0], I, 0)
    BY <2>1, <2>2 DEF KeptFrom
  <2> QED BY <2>3
<1>3. ASSUME NEW n \in T PROVE n + 1 \in T
  <2> SUFFICES ASSUME n + 1 <= N PROVE KeptFrom(F[n + 1], I, n + 1)
    OBVIOUS
  <2>1. n \in Nat /\ KeptFrom(F[n], I, n)
    BY <1>0
  <2>2. F[n + 1] = IF n + 1 \in I THEN F[n] ELSE Append(F[n], pool[n + 1])
    BY <1>0, <1>1, <2>1
  <2>3. PICK q : q = F[n]
    OBVIOUS
  <2>4. q \in Seq(Transports)
    BY <2>1, <2>3 DEF KeptFrom
  <2>5. PICK e \in [1 .. Len(q) -> (1 .. n) \ I] :
          /\ \A m \in 1 .. Len(q) : q[m] = pool[e[m]]
          /\ \A l, m \in 1 .. Len(q) : e[l] = e[m] => l = m
    BY <2>1, <2>3, SMTT(30) DEF KeptFrom
  <2>6. CASE n + 1 \in I
    <3>1. F[n + 1] = q /\ e \in [1 .. Len(q) -> (1 .. (n + 1)) \ I]
      BY <2>1, <2>2, <2>3, <2>5, <2>6
    <3> QED BY <2>4, <2>5, <3>1 DEF KeptFrom
  <2>7. CASE n + 1 \notin I
    <3> DEFINE p == Append(q, pool[n + 1])
               f == [m \in 1 .. Len(q) + 1 |-> IF m <= Len(q) THEN e[m] ELSE n + 1]
    <3>1. pool[n + 1] \in Transports
      BY <1>0, <2>1
    <3>2. /\ p \in Seq(Transports) /\ Len(p) = Len(q) + 1 /\ p[Len(q) + 1] = pool[n + 1]
          /\ \A m \in 1 .. Len(q) : p[m] = q[m]
      BY <2>4, <3>1
    <3>3. Len(q) \in Nat
      BY <2>4
    <3>4. f \in [1 .. Len(p) -> (1 .. (n + 1)) \ I]
      BY <2>1, <2>5, <2>7, <3>2, <3>3
    <3>5. \A m \in 1 .. Len(p) : p[m] = pool[f[m]]
      BY <2>5, <3>2, <3>3
    <3>6. \A l, m \in 1 .. Len(p) : f[l] = f[m] => l = m
      <4>1. \A m \in 1 .. Len(q) : e[m] \in 1 .. n
        BY <2>5
      <4>2. \A m \in 1 .. Len(q) : f[m] = e[m] /\ f[m] # n + 1
        BY <2>1, <3>3, <4>1
      <4>3. f[Len(q) + 1] = n + 1
        BY <3>3
      <4>4. \A m \in 1 .. Len(p) : m \in 1 .. Len(q) \/ m = Len(q) + 1
        BY <3>2, <3>3
      <4> HIDE DEF p, f
      <4> QED BY <2>5, <4>2, <4>3, <4>4
    <3>7. F[n + 1] = p
      BY <2>2, <2>3, <2>7
    <3> HIDE DEF p, f
    <3>8. /\ p \in Seq(Transports)
          /\ \E x \in [1 .. Len(p) -> (1 .. (n + 1)) \ I] :
                /\ \A m \in 1 .. Len(p) : p[m] = pool[x[m]]
                /\ \A l, m \in 1 .. Len(p) : x[l] = x[m] => l = m
      BY <3>2, <3>4, <3>5, <3>6
    <3>9. KeptFrom(p, I, n + 1)
      BY <3>8 DEF KeptFrom
    <3> QED BY <3>7, <3>9
  <2> QED BY <2>6, <2>7
<1>4. T \in SUBSET Nat
  OBVIOUS
<1> HIDE DEF T
<1>5. T = Nat
  BY <1>2, <1>3, <1>4, NatSetInduction
<1> QED BY <1>0, <1>1, <1>5 DEF T

\* What remains in the pool was there, and no position was doubled.
PoolShrinks ==
    \E e \in [1 .. Len(pool') -> 1 .. Len(pool)] :
       /\ \A m \in 1 .. Len(pool') : pool'[m] = pool[e[m]]
       /\ \A l, m \in 1 .. Len(pool') : e[l] = e[m] => l = m

\* An unchanged pool, an emptied one and one that Without leaves.
LEMMA PoolSame ==
  ASSUME pool \in Seq(Transports), UNCHANGED pool
  PROVE  PoolShrinks /\ pool' \in Seq(Transports)
<1> DEFINE e == [m \in 1 .. Len(pool) |-> m]
<1>1. e \in [1 .. Len(pool') -> 1 .. Len(pool)] /\ \A m \in 1 .. Len(pool) : e[m] = m
  OBVIOUS
<1> HIDE DEF e
<1> QED BY <1>1 DEF PoolShrinks

LEMMA PoolEmptied ==
  ASSUME pool' = <<>>
  PROVE  PoolShrinks /\ pool' \in Seq(Transports)
<1> DEFINE e == [m \in 1 .. 0 |-> m]
<1>1. Len(pool') = 0 /\ pool' \in Seq(Transports)
  OBVIOUS
<1>2. e \in [1 .. 0 -> 1 .. Len(pool)] /\ \A m \in 1 .. 0 : FALSE
  OBVIOUS
<1> HIDE DEF e
<1> QED BY <1>1, <1>2 DEF PoolShrinks

LEMMA PoolWithout ==
  ASSUME pool \in Seq(Transports), NEW I, pool' = Without(I)
  PROVE  /\ PoolShrinks /\ pool' \in Seq(Transports)
         /\ \E e \in [1 .. Len(pool') -> (1 .. Len(pool)) \ I] :
              \A m \in 1 .. Len(pool') : pool'[m] = pool[e[m]]
<1>1. PICK q : q = Without(I)
  OBVIOUS
<1>2. KeptFrom(q, I, Len(pool))
  BY <1>1, WithoutKeeps
<1>3. q \in Seq(Transports)
  BY <1>2 DEF KeptFrom
<1>4. PICK e \in [1 .. Len(q) -> (1 .. Len(pool)) \ I] :
        /\ \A m \in 1 .. Len(q) : q[m] = pool[e[m]]
        /\ \A l, m \in 1 .. Len(q) : e[l] = e[m] => l = m
  BY <1>2 DEF KeptFrom
<1>5. pool' = q /\ e \in [1 .. Len(q) -> 1 .. Len(pool)]
  BY <1>1, <1>4
<1> QED BY <1>3, <1>4, <1>5, SMTT(30) DEF PoolShrinks

----------------------------------------------------------------------------
(* What steps do to the parts of the invariant *)

\* A transport that was dialled stays so.
LinksKept == \A x \in Transports : link[x] # "fresh" => link'[x] # "fresh"

\* Hands that only let go.
LEMMA HandsKept ==
  ASSUME SshTypeOK, SshTypeOK', HandsOK, LinksKept, PoolShrinks,
         \A s \in Holding' : s \in Holding /\ client'[s] = client[s]
  PROVE  HandsOK'
<1>1. PICK e \in [1 .. Len(pool') -> 1 .. Len(pool)] :
        /\ \A m \in 1 .. Len(pool') : pool'[m] = pool[e[m]]
        /\ \A l, m \in 1 .. Len(pool') : e[l] = e[m] => l = m
  BY DEF PoolShrinks
<1>2. \A i \in 1 .. Len(pool) : pool[i] \in Transports
  BY DEF SshTypeOK
<1>3. \A s \in Holding' : client'[s] \in Transports /\ link'[client'[s]] # "fresh"
  BY DEF HandsOK, LinksKept
<1>4. \A i \in 1 .. Len(pool') : e[i] \in 1 .. Len(pool)
  BY <1>1
<1>5. \A i \in 1 .. Len(pool') : link'[pool'[i]] # "fresh"
  BY <1>1, <1>2, <1>4 DEF HandsOK, LinksKept
<1>6. \A r, s \in Holding' : client'[r] = client'[s] => r = s
  BY DEF HandsOK
<1>7. \A i, j \in 1 .. Len(pool') : pool'[i] = pool'[j] => i = j
  BY <1>1, <1>4 DEF HandsOK
<1>8. \A s \in Holding', i \in 1 .. Len(pool') : pool'[i] # client'[s]
  BY <1>1, <1>4 DEF HandsOK
<1> QED BY <1>3, <1>5, <1>6, <1>7, <1>8 DEF HandsOK

\* An address that only loses occupants stays within its limit.
LEMMA CapKept ==
  ASSUME CapOK, \A s \in Sessions : Occupies(s)' => Occupies(s)
  PROVE  CapOK'
<1> SUFFICES ASSUME NEW a \in Addresses, HeldAt(a)' # {}
             PROVE  \E w \in Callers : AddressOf[w] = a /\ Cardinality(HeldAt(a)') <= Limit[w]
  BY DEF CapOK
<1>1. HeldAt(a)' \subseteq HeldAt(a) /\ HeldAt(a) \in SUBSET Sessions
  BY DEF HeldAt, AddressOfSession
<1>2. PICK w \in Callers : AddressOf[w] = a /\ Cardinality(HeldAt(a)) <= Limit[w]
  BY <1>1 DEF CapOK
<1>3. IsFiniteSet(HeldAt(a))
  BY <1>1, FS_Subset, SshAssumption
<1>4. IsFiniteSet(HeldAt(a)') /\ Cardinality(HeldAt(a)') <= Cardinality(HeldAt(a))
  BY <1>1, <1>3, FS_Subset
<1>5. Cardinality(HeldAt(a)) \in Nat /\ Cardinality(HeldAt(a)') \in Nat /\ Limit[w] \in Nat
  BY <1>3, <1>4, FS_CardinalityType, SshAssumption
<1>6. Cardinality(HeldAt(a)') <= Limit[w]
  BY <1>2, <1>4, <1>5
<1> QED BY <1>2, <1>6

\* A session goes on, ends, parts or gets its record.
PhasesGoOn ==
    \A s \in Sessions : \/ phase'[s] \in {phase[s], "gone"}
                        \/ phase[s] = "live" /\ phase'[s] = "parting"
                        \/ phase[s] = "linked" /\ phase'[s] = "live"
                        \/ phase[s] = "unused" /\ phase'[s] = "checked"
                           /\ s \notin reserved

\* A step with these facts keeps the invariant, once the denials are in order.
LEMMA QuietStep ==
  ASSUME IInv, SshTypeOK', PhasesGoOn, LinksKept, PoolShrinks, DeniedOK',
         \A s \in Holding' : client'[s] = client[s],
         UNCHANGED <<linkKey, reserved, pending>>
  PROVE  IInv'
<1>1. \A s \in Holding' : s \in Holding
  BY DEF Holding, PhasesGoOn
<1>2. HandsOK'
  BY <1>1, HandsKept DEF IInv
<1>3. CapOK'
  BY CapKept DEF IInv, PhasesGoOn, Occupies
<1>4. ReservationsOK'
  <2>1. Connecting' \subseteq Connecting
    BY DEF Connecting, PhasesGoOn
  <2>2. reserved \subseteq Sessions
    BY DEF IInv, SshTypeOK
  <2>3. \A s \in reserved : phase'[s] \notin {"unused", "checked"}
    BY <2>2 DEF IInv, ReservationsOK, PhasesGoOn
  <2>4. \A a \in Addresses : (reserved \cap At(a))' = reserved \cap At(a)
    BY DEF At, AddressOfSession
  <2> QED BY <2>1, <2>3, <2>4 DEF IInv, ReservationsOK
<1>5. OwnCredential'
  BY <1>1 DEF IInv, OwnCredential, PhasesGoOn, Holding
<1> QED BY <1>2, <1>3, <1>4, <1>5 DEF IInv

\* No session, no reservation, no transport.
LEMMA InitInv == SshInit => IInv
<1> SUFFICES ASSUME SshInit PROVE IInv
  OBVIOUS
<1>1. SshTypeOK
  <2>1. (CHOOSE k \in PoolKeys : TRUE) \in PoolKeys
    BY SshAssumption
  <2> QED BY <2>1 DEF SshInit, SshTypeOK, SessionPhases, LinkStates
<1>2. Holding = {} /\ Connecting = {} /\ Len(pool) = 0
  BY DEF SshInit, Holding, Connecting
<1>3. HandsOK
  BY <1>2 DEF HandsOK
<1>4. \A a \in Addresses : HeldAt(a) = {} /\ reserved \cap At(a) = {}
  BY DEF SshInit, HeldAt, Occupies
<1>5. Cardinality({}) = 0
  BY FS_EmptySet
<1>6. ReservationsOK /\ CapOK
  BY <1>2, <1>4, <1>5 DEF SshInit, ReservationsOK, CapOK
<1>7. DeniedOK /\ OwnCredential
  BY DEF SshInit, DeniedOK, OwnCredential
<1> QED BY <1>1, <1>3, <1>6, <1>7 DEF IInv

----------------------------------------------------------------------------
(* One lemma per action *)


\* The gate is only passed by a caller that is not denied.
LEMMA PassGateInv ==
  ASSUME IInv, NEW s \in Sessions, PassGate(s)
  PROVE  IInv'
<1>1. SshTypeOK /\ ReservationsOK /\ DeniedOK
  BY DEF IInv
<1>2. PoolShrinks /\ pool' \in Seq(Transports)
  BY <1>1, PoolSame DEF SshTypeOK, PassGate
<1>3. SshTypeOK'
  BY <1>1, <1>2 DEF SshTypeOK, PassGate, SessionPhases, LinkStates
<1>4. PhasesGoOn /\ LinksKept
  BY <1>1 DEF SshTypeOK, ReservationsOK, PhasesGoOn, LinksKept, PassGate, Live, Stale
<1>5. \A r \in Holding' : client'[r] = client[r]
  BY <1>1 DEF SshTypeOK, Holding, PassGate
<1>6. DeniedOK'
  BY <1>1 DEF SshTypeOK, DeniedOK, PassGate, Live, Stale
<1>7. UNCHANGED <<linkKey, reserved, pending>>
  BY DEF PassGate
<1> QED BY <1>2, <1>3, <1>4, <1>5, <1>6, <1>7, QuietStep

\* A session enters the map with the transport of its connect.
LEMMA RegisterInv ==
  ASSUME IInv, NEW s \in Sessions, Register(s)
  PROVE  IInv'
<1>1. SshTypeOK /\ ReservationsOK /\ DeniedOK
  BY DEF IInv
<1>2. PoolShrinks /\ pool' \in Seq(Transports)
  BY <1>1, PoolSame DEF SshTypeOK, Register
<1>3. SshTypeOK'
  BY <1>1, <1>2 DEF SshTypeOK, Register, SessionPhases, LinkStates
<1>4. PhasesGoOn /\ LinksKept
  BY <1>1 DEF SshTypeOK, ReservationsOK, PhasesGoOn, LinksKept, Register, Live, Stale
<1>5. \A r \in Holding' : client'[r] = client[r]
  BY <1>1 DEF SshTypeOK, Holding, Register
<1>6. DeniedOK'
  BY <1>1 DEF SshTypeOK, DeniedOK, Register, Live, Stale
<1>7. UNCHANGED <<linkKey, reserved, pending>>
  BY DEF Register
<1> QED BY <1>2, <1>3, <1>4, <1>5, <1>6, <1>7, QuietStep

\* A failed dial leaves a pool without the dead transports of the key.
LEMMA DialFailsInv ==
  ASSUME IInv, NEW s \in Sessions, DialFails(s)
  PROVE  IInv'
<1>1. SshTypeOK /\ ReservationsOK /\ DeniedOK
  BY DEF IInv
<1>2. PoolShrinks /\ pool' \in Seq(Transports)
  <2>1. pool' = Without(Slots(KeyOf[s])) /\ pool \in Seq(Transports)
    BY <1>1 DEF DialFails, SshTypeOK
  <2> QED BY <2>1, PoolWithout
<1>3. SshTypeOK'
  BY <1>1, <1>2 DEF SshTypeOK, DialFails, SessionPhases, LinkStates, Discarded
<1>4. PhasesGoOn /\ LinksKept
  BY <1>1 DEF SshTypeOK, ReservationsOK, PhasesGoOn, LinksKept, DialFails, Discarded, Live, Stale
<1>5. \A r \in Holding' : client'[r] = client[r]
  BY <1>1 DEF SshTypeOK, Holding, DialFails, Discarded
<1>6. DeniedOK'
  BY <1>1 DEF SshTypeOK, DeniedOK, DialFails, Discarded, Live, Stale
<1>7. UNCHANGED <<linkKey, reserved, pending>>
  BY DEF DialFails
<1> QED BY <1>2, <1>3, <1>4, <1>5, <1>6, <1>7, QuietStep

\* A session that is used again, or not, keeps its transport.
LEMMA ReuseInv ==
  ASSUME IInv, NEW s \in Sessions, Reuse(s)
  PROVE  IInv'
<1>1. SshTypeOK /\ ReservationsOK /\ DeniedOK
  BY DEF IInv
<1>2. PoolShrinks /\ pool' \in Seq(Transports)
  BY <1>1, PoolSame DEF SshTypeOK, Reuse
<1>3. SshTypeOK'
  BY <1>1, <1>2 DEF SshTypeOK, Reuse, SessionPhases, LinkStates
<1>4. PhasesGoOn /\ LinksKept
  BY <1>1 DEF SshTypeOK, ReservationsOK, PhasesGoOn, LinksKept, Reuse, Live, Stale
<1>5. \A r \in Holding' : client'[r] = client[r]
  BY <1>1 DEF SshTypeOK, Holding, Reuse
<1>6. DeniedOK'
  BY <1>1 DEF SshTypeOK, DeniedOK, Reuse, Live, Stale
<1>7. UNCHANGED <<linkKey, reserved, pending>>
  BY DEF Reuse
<1> QED BY <1>2, <1>3, <1>4, <1>5, <1>6, <1>7, QuietStep

\* Time passes.
LEMMA BecomesIdleInv ==
  ASSUME IInv, NEW s \in Sessions, BecomesIdle(s)
  PROVE  IInv'
<1>1. SshTypeOK /\ ReservationsOK /\ DeniedOK
  BY DEF IInv
<1>2. PoolShrinks /\ pool' \in Seq(Transports)
  BY <1>1, PoolSame DEF SshTypeOK, BecomesIdle
<1>3. SshTypeOK'
  BY <1>1, <1>2 DEF SshTypeOK, BecomesIdle, SessionPhases, LinkStates
<1>4. PhasesGoOn /\ LinksKept
  BY <1>1 DEF SshTypeOK, ReservationsOK, PhasesGoOn, LinksKept, BecomesIdle, Live, Stale
<1>5. \A r \in Holding' : client'[r] = client[r]
  BY <1>1 DEF SshTypeOK, Holding, BecomesIdle
<1>6. DeniedOK'
  BY <1>1 DEF SshTypeOK, DeniedOK, BecomesIdle, Live, Stale
<1>7. UNCHANGED <<linkKey, reserved, pending>>
  BY DEF BecomesIdle
<1> QED BY <1>2, <1>3, <1>4, <1>5, <1>6, <1>7, QuietStep

\* A command starts,
LEMMA StartCommandInv ==
  ASSUME IInv, NEW s \in Sessions, NEW c \in Commands, StartCommand(c, s)
  PROVE  IInv'
<1>1. SshTypeOK /\ ReservationsOK /\ DeniedOK
  BY DEF IInv
<1>2. PoolShrinks /\ pool' \in Seq(Transports)
  BY <1>1, PoolSame DEF SshTypeOK, StartCommand
<1>3. SshTypeOK'
  BY <1>1, <1>2 DEF SshTypeOK, StartCommand, SessionPhases, LinkStates
<1>4. PhasesGoOn /\ LinksKept
  BY <1>1 DEF SshTypeOK, ReservationsOK, PhasesGoOn, LinksKept, StartCommand, Live, Stale
<1>5. \A r \in Holding' : client'[r] = client[r]
  BY <1>1 DEF SshTypeOK, Holding, StartCommand
<1>6. DeniedOK'
  BY <1>1 DEF SshTypeOK, DeniedOK, StartCommand, Live, Stale
<1>7. UNCHANGED <<linkKey, reserved, pending>>
  BY DEF StartCommand
<1> QED BY <1>2, <1>3, <1>4, <1>5, <1>6, <1>7, QuietStep

\* and ends.
LEMMA EndCommandInv ==
  ASSUME IInv, NEW c \in Commands, EndCommand(c)
  PROVE  IInv'
<1>1. SshTypeOK /\ ReservationsOK /\ DeniedOK
  BY DEF IInv
<1>2. PoolShrinks /\ pool' \in Seq(Transports)
  BY <1>1, PoolSame DEF SshTypeOK, EndCommand
<1>3. SshTypeOK'
  BY <1>1, <1>2 DEF SshTypeOK, EndCommand, SessionPhases, LinkStates
<1>4. PhasesGoOn /\ LinksKept
  BY <1>1 DEF SshTypeOK, ReservationsOK, PhasesGoOn, LinksKept, EndCommand, Live, Stale
<1>5. \A r \in Holding' : client'[r] = client[r]
  BY <1>1 DEF SshTypeOK, Holding, EndCommand
<1>6. DeniedOK'
  BY <1>1 DEF SshTypeOK, DeniedOK, EndCommand, Live, Stale
<1>7. UNCHANGED <<linkKey, reserved, pending>>
  BY DEF EndCommand
<1> QED BY <1>2, <1>3, <1>4, <1>5, <1>6, <1>7, QuietStep

\* Reaped sessions let go of their transports, which are closed.
LEMMA CleanupStaleInv ==
  ASSUME IInv, CleanupStale
  PROVE  IInv'
<1>1. SshTypeOK /\ ReservationsOK /\ DeniedOK
  BY DEF IInv
<1>2. PoolShrinks /\ pool' \in Seq(Transports)
  BY <1>1, PoolSame DEF SshTypeOK, CleanupStale
<1>3. SshTypeOK'
  BY <1>1, <1>2 DEF SshTypeOK, CleanupStale, SessionPhases, LinkStates, ClosedWith, Dropped
<1>4. PhasesGoOn /\ LinksKept
  BY <1>1 DEF SshTypeOK, ReservationsOK, PhasesGoOn, LinksKept, CleanupStale, ClosedWith, Dropped, Live, Stale
<1>5. \A r \in Holding' : client'[r] = client[r]
  BY <1>1 DEF SshTypeOK, Holding, CleanupStale, ClosedWith, Dropped
<1>6. DeniedOK'
  BY <1>1 DEF SshTypeOK, DeniedOK, CleanupStale, ClosedWith, Dropped, Live, Stale
<1>7. UNCHANGED <<linkKey, reserved, pending>>
  BY DEF CleanupStale
<1> QED BY <1>2, <1>3, <1>4, <1>5, <1>6, <1>7, QuietStep

\* A disconnect takes the session off the list of a denial and out of the map.
LEMMA DisconnectInv ==
  ASSUME IInv, NEW s \in Sessions, Disconnect(s)
  PROVE  IInv'
<1>1. SshTypeOK /\ ReservationsOK /\ DeniedOK
  BY DEF IInv
<1>2. PoolShrinks /\ pool' \in Seq(Transports)
  BY <1>1, PoolSame DEF SshTypeOK, Disconnect
<1>3. SshTypeOK'
  BY <1>1, <1>2 DEF SshTypeOK, Disconnect, SessionPhases, LinkStates
<1>4. PhasesGoOn /\ LinksKept
  BY <1>1 DEF SshTypeOK, ReservationsOK, PhasesGoOn, LinksKept, Disconnect, Live, Stale
<1>5. \A r \in Holding' : client'[r] = client[r]
  BY <1>1 DEF SshTypeOK, Holding, Disconnect
<1>6. DeniedOK'
  BY <1>1 DEF SshTypeOK, DeniedOK, Disconnect, Live, Stale
<1>7. UNCHANGED <<linkKey, reserved, pending>>
  BY DEF Disconnect
<1> QED BY <1>2, <1>3, <1>4, <1>5, <1>6, <1>7, QuietStep

\* The drained pool is empty.
LEMMA DrainPoolInv ==
  ASSUME IInv, DrainPool
  PROVE  IInv'
<1>1. SshTypeOK /\ ReservationsOK /\ DeniedOK
  BY DEF IInv
<1>2. PoolShrinks /\ pool' \in Seq(Transports)
  BY PoolEmptied DEF DrainPool
<1>3. SshTypeOK'
  BY <1>1, <1>2 DEF SshTypeOK, DrainPool, SessionPhases, LinkStates, Discarded
<1>4. PhasesGoOn /\ LinksKept
  BY <1>1 DEF SshTypeOK, ReservationsOK, PhasesGoOn, LinksKept, DrainPool, Discarded, Live, Stale
<1>5. \A r \in Holding' : client'[r] = client[r]
  BY <1>1 DEF SshTypeOK, Holding, DrainPool, Discarded
<1>6. DeniedOK'
  BY <1>1 DEF SshTypeOK, DeniedOK, DrainPool, Discarded, Live, Stale
<1>7. UNCHANGED <<linkKey, reserved, pending>>
  BY DEF DrainPool
<1> QED BY <1>2, <1>3, <1>4, <1>5, <1>6, <1>7, QuietStep

\* A connection that ends stays where it is.
LEMMA LinkDiesInv ==
  ASSUME IInv, NEW x \in Transports, LinkDies(x)
  PROVE  IInv'
<1>1. SshTypeOK /\ ReservationsOK /\ DeniedOK
  BY DEF IInv
<1>2. PoolShrinks /\ pool' \in Seq(Transports)
  BY <1>1, PoolSame DEF SshTypeOK, LinkDies
<1>3. SshTypeOK'
  BY <1>1, <1>2 DEF SshTypeOK, LinkDies, SessionPhases, LinkStates
<1>4. PhasesGoOn /\ LinksKept
  BY <1>1 DEF SshTypeOK, ReservationsOK, PhasesGoOn, LinksKept, LinkDies, Live, Stale
<1>5. \A r \in Holding' : client'[r] = client[r]
  BY <1>1 DEF SshTypeOK, Holding, LinkDies
<1>6. DeniedOK'
  BY <1>1 DEF SshTypeOK, DeniedOK, LinkDies, Live, Stale
<1>7. UNCHANGED <<linkKey, reserved, pending>>
  BY DEF LinkDies
<1> QED BY <1>2, <1>3, <1>4, <1>5, <1>6, <1>7, QuietStep

\* A denial lists the sessions there are; the connects under way passed the gate before.
LEMMA DenyInv ==
  ASSUME IInv, NEW w \in Callers, Deny(w)
  PROVE  IInv'
<1>1. SshTypeOK /\ ReservationsOK /\ DeniedOK
  BY DEF IInv
<1>2. PoolShrinks /\ pool' \in Seq(Transports)
  BY <1>1, PoolSame DEF SshTypeOK, Deny
<1>3. SshTypeOK'
  BY <1>1, <1>2 DEF SshTypeOK, Deny, SessionPhases, LinkStates, Listed, Live
<1>4. PhasesGoOn /\ LinksKept
  BY <1>1 DEF SshTypeOK, ReservationsOK, PhasesGoOn, LinksKept, Deny, Listed, Live, Stale
<1>5. \A r \in Holding' : client'[r] = client[r]
  BY <1>1 DEF SshTypeOK, Holding, Deny, Listed, Live
<1>6. DeniedOK'
  BY <1>1 DEF SshTypeOK, DeniedOK, Deny, Listed, Live, Stale
<1>7. UNCHANGED <<linkKey, reserved, pending>>
  BY DEF Deny
<1> QED BY <1>2, <1>3, <1>4, <1>5, <1>6, <1>7, QuietStep

\* A denial that is lifted lists nothing.
LEMMA UndenyInv ==
  ASSUME IInv, NEW w \in Callers, Undeny(w)
  PROVE  IInv'
<1>1. SshTypeOK /\ ReservationsOK /\ DeniedOK
  BY DEF IInv
<1>2. PoolShrinks /\ pool' \in Seq(Transports)
  BY <1>1, PoolSame DEF SshTypeOK, Undeny
<1>3. SshTypeOK'
  BY <1>1, <1>2 DEF SshTypeOK, Undeny, SessionPhases, LinkStates
<1>4. PhasesGoOn /\ LinksKept
  BY <1>1 DEF SshTypeOK, ReservationsOK, PhasesGoOn, LinksKept, Undeny, Live, Stale
<1>5. \A r \in Holding' : client'[r] = client[r]
  BY <1>1 DEF SshTypeOK, Holding, Undeny
<1>6. DeniedOK'
  BY <1>1 DEF SshTypeOK, DeniedOK, Undeny, Live, Stale
<1>7. UNCHANGED <<linkKey, reserved, pending>>
  BY DEF Undeny
<1> QED BY <1>2, <1>3, <1>4, <1>5, <1>6, <1>7, QuietStep

\* What Admit does, with its set of reaped sessions named.
LEMMA AdmitParts ==
  ASSUME SshTypeOK, NEW s \in Sessions, Admit(s)
  PROVE  \E R \in SUBSET Sessions :
    /\ \A r \in R : phase[r] = "live" /\ AddressOfSession(r) = AddressOfSession(s)
    /\ s \notin R /\ phase[s] = "checked"
    /\ \A r \in Sessions \ {s} : phase'[r] = IF r \in R THEN "gone" ELSE phase[r]
    /\ phase' \in [Sessions -> SessionPhases]
    /\ idleFor' \subseteq idleFor /\ doomed' = doomed \ R
    /\ client' = [r \in Sessions |-> IF r \in R THEN NoTransport ELSE client[r]]
    /\ UNCHANGED <<running, linkKey, pool, denied>>
    /\ \/ /\ phase'[s] = "gone" /\ late' = late \ (R \cup {s})
          /\ UNCHANGED <<reserved, pending, link>>
       \/ /\ phase'[s] = "admitted" /\ late' = late \ R
          /\ ~Full(s, Live \ R)
          /\ reserved' = reserved \cup {s}
          /\ pending' = [pending EXCEPT ![AddressOfSession(s)] = @ + 1]
          /\ link' = ClosedWith(R)
<1> DEFINE R == {r \in Sessions : Stale(r) /\ AddressOfSession(r) = AddressOfSession(s)}
           b == Full(s, Live \ R)
<1>1. R \in SUBSET Sessions
  OBVIOUS
<1>3. /\ phase[s] = "checked"
      /\ phase' = [r \in Sessions |->
                      CASE r \in R -> "gone"
                        [] r = s   -> IF b THEN "gone" ELSE "admitted"
                        [] OTHER   -> phase[r]]
      /\ IF b THEN UNCHANGED <<reserved, pending, link>>
         ELSE /\ reserved' = reserved \cup {s}
              /\ pending' = [pending EXCEPT ![AddressOfSession(s)] = @ + 1]
              /\ link' = ClosedWith(R)
      /\ idleFor' = idleFor \ R /\ doomed' = doomed \ R
      /\ late' = late \ (IF b THEN R \cup {s} ELSE R)
      /\ client' = Dropped(R)
      /\ UNCHANGED <<running, linkKey, pool, denied>>
  BY Zenon DEF Admit
<1>4. \A r \in R : phase[r] = "live" /\ AddressOfSession(r) = AddressOfSession(s)
  BY DEF Stale, Live
<1> HIDE DEF R
<1>5. s \notin R
  BY <1>3, <1>4
<1>6. \A r \in Sessions \ {s} : phase'[r] = IF r \in R THEN "gone" ELSE phase[r]
  BY <1>3
<1>7. phase'[s] = IF b THEN "gone" ELSE "admitted"
  BY <1>3, <1>5
<1>8. phase' \in [Sessions -> SessionPhases]
  <2>1. \A r \in Sessions : phase'[r] \in SessionPhases
    BY <1>6, <1>7 DEF SshTypeOK, SessionPhases
  <2> QED BY <1>3, <2>1
<1>9. client' = [r \in Sessions |-> IF r \in R THEN NoTransport ELSE client[r]]
  BY <1>3 DEF Dropped
<1>10. CASE b
  <2>1. phase'[s] = "gone" /\ late' = late \ (R \cup {s}) /\ UNCHANGED <<reserved, pending, link>>
    BY <1>3, <1>7, <1>10
  <2> QED BY <1>1, <1>3, <1>4, <1>5, <1>6, <1>8, <1>9, <2>1
<1>11. CASE ~b
  <2>1. /\ phase'[s] = "admitted" /\ late' = late \ R /\ ~Full(s, Live \ R)
        /\ reserved' = reserved \cup {s}
        /\ pending' = [pending EXCEPT ![AddressOfSession(s)] = @ + 1]
        /\ link' = ClosedWith(R)
    BY <1>3, <1>7, <1>11
  <2> QED BY <1>1, <1>3, <1>4, <1>5, <1>6, <1>8, <1>9, <2>1
<1> QED BY <1>10, <1>11

\* One occupant more still fits: sessions and reservations were below the limit
\* of the caller, and the connects under way are among the reservations.
LEMMA OneMoreFits ==
  ASSUME SshTypeOK, ReservationsOK, NEW s \in Sessions, NEW R \in SUBSET Sessions,
         ~Full(s, Live \ R), NEW H, H \subseteq HeldAt(AddressOfSession(s)) \ R
  PROVE  IsFiniteSet(H \cup {s}) /\ Cardinality(H \cup {s}) <= Limit[OwnerOf[s]]
<1> DEFINE a == AddressOfSession(s)
           L == {r \in Live \ R : AddressOfSession(r) = a}
           V == reserved \cap At(a)
<1>1. a \in Addresses /\ Limit[OwnerOf[s]] \in Nat
  BY SshAssumption DEF AddressOfSession
<1>2. L \subseteq Sessions /\ V \subseteq Sessions /\ H \subseteq Sessions
  BY DEF Live, At, HeldAt
<1>3. IsFiniteSet(L) /\ IsFiniteSet(V) /\ IsFiniteSet(H)
  BY <1>2, FS_Subset, SshAssumption
<1>4. H \subseteq L \cup V
  BY DEF HeldAt, Occupies, Live, ReservationsOK, Connecting, At
<1>5. pending[a] = Cardinality(V)
  BY <1>1 DEF ReservationsOK
<1>6. ~(Cardinality(L) + Cardinality(V) >= Limit[OwnerOf[s]])
  BY <1>5 DEF Full
<1> HIDE DEF L, V, a
<1>7. IsFiniteSet(L \cup V) /\ Cardinality(L \cup V) <= Cardinality(L) + Cardinality(V)
  <2>1. /\ IsFiniteSet(L \cup V) /\ IsFiniteSet(L \cap V)
        /\ Cardinality(L \cup V) = Cardinality(L) + Cardinality(V) - Cardinality(L \cap V)
    BY <1>3, FS_Union, FS_Intersection
  <2>2. Cardinality(L) \in Nat /\ Cardinality(V) \in Nat /\ Cardinality(L \cap V) \in Nat
    BY <1>3, <2>1, FS_CardinalityType
  <2> QED BY <2>1, <2>2
<1>8. Cardinality(H) <= Cardinality(L \cup V)
  BY <1>4, <1>7, FS_Subset
<1>9. /\ IsFiniteSet(H \cup {s})
      /\ Cardinality(H \cup {s}) = IF s \in H THEN Cardinality(H) ELSE Cardinality(H) + 1
  BY <1>3, FS_AddElement
<1>10. /\ Cardinality(L) \in Nat /\ Cardinality(V) \in Nat /\ Cardinality(L \cup V) \in Nat
       /\ Cardinality(H) \in Nat
  BY <1>3, <1>7, FS_CardinalityType
<1> QED BY <1>1, <1>6, <1>7, <1>8, <1>9, <1>10

\* Admission: a refusal only lets go; an admission adds one occupant to an
\* address that had room for it, and one reservation.
LEMMA AdmitInv ==
  ASSUME IInv, NEW s \in Sessions, Admit(s)
  PROVE  IInv'
<1>1. SshTypeOK /\ HandsOK /\ ReservationsOK /\ CapOK /\ DeniedOK /\ OwnCredential
  BY DEF IInv
<1>2. PICK R \in SUBSET Sessions :
    /\ \A r \in R : phase[r] = "live" /\ AddressOfSession(r) = AddressOfSession(s)
    /\ s \notin R /\ phase[s] = "checked"
    /\ \A r \in Sessions \ {s} : phase'[r] = IF r \in R THEN "gone" ELSE phase[r]
    /\ phase' \in [Sessions -> SessionPhases]
    /\ idleFor' \subseteq idleFor /\ doomed' = doomed \ R
    /\ client' = [r \in Sessions |-> IF r \in R THEN NoTransport ELSE client[r]]
    /\ UNCHANGED <<running, linkKey, pool, denied>>
    /\ \/ /\ phase'[s] = "gone" /\ late' = late \ (R \cup {s})
          /\ UNCHANGED <<reserved, pending, link>>
       \/ /\ phase'[s] = "admitted" /\ late' = late \ R
          /\ ~Full(s, Live \ R)
          /\ reserved' = reserved \cup {s}
          /\ pending' = [pending EXCEPT ![AddressOfSession(s)] = @ + 1]
          /\ link' = ClosedWith(R)
  BY <1>1, AdmitParts
<1>3. PoolShrinks /\ pool' \in Seq(Transports)
  BY <1>1, <1>2, PoolSame DEF SshTypeOK
<1>4. client' \in [Sessions -> Transports \cup {NoTransport}]
  BY <1>1, <1>2 DEF SshTypeOK
<1>5. \A r \in Holding' : r \in Holding /\ client'[r] = client[r]
  BY <1>2 DEF Holding
<1>6. DeniedOK'
  BY <1>1, <1>2 DEF DeniedOK
<1>7. CASE phase'[s] = "gone" /\ late' = late \ (R \cup {s}) /\ UNCHANGED <<reserved, pending, link>>
  <2>1. SshTypeOK'
    BY <1>1, <1>2, <1>3, <1>4, <1>7 DEF SshTypeOK
  <2>2. PhasesGoOn /\ LinksKept
    BY <1>2, <1>7 DEF PhasesGoOn, LinksKept
  <2> QED BY <1>2, <1>3, <1>5, <1>6, <1>7, <2>1, <2>2, QuietStep
<1>8. CASE /\ phase'[s] = "admitted" /\ late' = late \ R
           /\ ~Full(s, Live \ R)
           /\ reserved' = reserved \cup {s}
           /\ pending' = [pending EXCEPT ![AddressOfSession(s)] = @ + 1]
           /\ link' = ClosedWith(R)
  <2>0. AddressOfSession(s) \in Addresses
    BY SshAssumption DEF AddressOfSession
  <2>1. SshTypeOK'
    <3>1. link' \in [Transports -> LinkStates]
      BY <1>1, <1>8 DEF SshTypeOK, ClosedWith, LinkStates
    <3>2. pending' \in [Addresses -> Nat]
      <4>1. PICK a \in Addresses : a = AddressOfSession(s)
        BY <2>0
      <4>2. pending' = [pending EXCEPT ![a] = pending[a] + 1] /\ pending \in [Addresses -> Nat]
        BY <1>1, <1>8, <4>1 DEF SshTypeOK
      <4> QED BY <4>2
    <3> QED BY <1>1, <1>2, <1>3, <1>4, <1>8, <3>1, <3>2 DEF SshTypeOK
  <2>2. LinksKept
    BY <1>1, <1>8 DEF LinksKept, ClosedWith, SshTypeOK
  <2>3. HandsOK'
    BY <1>1, <1>3, <1>5, <2>1, <2>2, HandsKept
  <2>4. ReservationsOK'
    <3>1. s \notin reserved
      BY <1>1, <1>2 DEF ReservationsOK
    <3>2. Connecting' \subseteq reserved'
      BY <1>1, <1>2, <1>8 DEF ReservationsOK, Connecting
    <3>3. \A r \in reserved' : phase'[r] \notin {"unused", "checked"}
      BY <1>1, <1>2, <1>8 DEF ReservationsOK, SshTypeOK
    <3>4. ASSUME NEW a \in Addresses PROVE pending'[a] = Cardinality(reserved' \cap At(a))
      <4>1. pending[a] = Cardinality(reserved \cap At(a)) /\ pending[a] \in Nat
        BY <1>1 DEF ReservationsOK, SshTypeOK
      <4>2. IsFiniteSet(reserved \cap At(a))
        BY FS_Subset, SshAssumption DEF At
      <4>3. CASE a = AddressOfSession(s)
        <5>1. reserved' \cap At(a) = (reserved \cap At(a)) \cup {s} /\ s \notin reserved \cap At(a)
          BY <1>8, <3>1, <4>3 DEF At
        <5>2. Cardinality(reserved' \cap At(a)) = Cardinality(reserved \cap At(a)) + 1
          BY <4>2, <5>1, FS_AddElement
        <5>3. pending'[a] = pending[a] + 1
          BY <1>1, <1>8, <4>3 DEF SshTypeOK
        <5> QED BY <4>1, <5>2, <5>3
      <4>4. CASE a # AddressOfSession(s)
        <5>1. reserved' \cap At(a) = reserved \cap At(a)
          BY <1>8, <4>4 DEF At
        <5>2. pending'[a] = pending[a]
          BY <1>1, <1>8, <4>4 DEF SshTypeOK
        <5> QED BY <4>1, <5>1, <5>2
      <4> QED BY <4>3, <4>4
    <3>5. \A a \in Addresses : At(a)' = At(a)
      BY DEF At, AddressOfSession
    <3> QED BY <3>2, <3>3, <3>4, <3>5 DEF ReservationsOK
  <2>5. CapOK'
    <3> SUFFICES ASSUME NEW a \in Addresses, HeldAt(a)' # {}
                 PROVE  \E w \in Callers : AddressOf[w] = a /\ Cardinality(HeldAt(a)') <= Limit[w]
      BY DEF CapOK
    <3>1. CASE a = AddressOfSession(s)
      <4>1. PICK H : H = HeldAt(a) \ R
        OBVIOUS
      <4>2. HeldAt(a)' = H \cup {s}
        BY <1>2, <1>8, <3>1, <4>1 DEF HeldAt, Occupies, AddressOfSession
      <4>3. Cardinality(H \cup {s}) <= Limit[OwnerOf[s]]
        BY <1>1, <1>8, <3>1, <4>1, OneMoreFits
      <4>4. OwnerOf[s] \in Callers /\ AddressOf[OwnerOf[s]] = a
        BY <3>1, SshAssumption DEF AddressOfSession
      <4> QED BY <4>2, <4>3, <4>4
    <3>2. CASE a # AddressOfSession(s)
      <4>1. HeldAt(a)' = HeldAt(a)
        BY <1>2, <1>8, <3>2 DEF HeldAt, Occupies, AddressOfSession
      <4> QED BY <1>1, <4>1 DEF CapOK
    <3> QED BY <3>1, <3>2
  <2>6. OwnCredential'
    BY <1>1, <1>2, <1>8 DEF OwnCredential
  <2> QED BY <1>6, <2>1, <2>3, <2>4, <2>5, <2>6 DEF IInv
<1> QED BY <1>2, <1>7, <1>8

\* An admitted connect gets a transport that nobody holds and the pool has not.
LEMMA GetsLinked ==
  ASSUME IInv, SshTypeOK', NEW s \in Sessions, NEW x \in Transports,
         phase[s] = "admitted", phase' = [phase EXCEPT ![s] = "linked"],
         client' = [client EXCEPT ![s] = x],
         LinksKept, PoolShrinks, link'[x] # "fresh", linkKey'[x] = KeyOf[s],
         \A r \in Holding : client[r] # x /\ linkKey'[client[r]] = linkKey[client[r]],
         \A j \in 1 .. Len(pool') : pool'[j] # x,
         UNCHANGED <<reserved, pending, denied, doomed, late>>
  PROVE  IInv'
<1>1. SshTypeOK /\ HandsOK /\ ReservationsOK /\ CapOK /\ DeniedOK /\ OwnCredential
  BY DEF IInv
<1>2. client'[s] = x /\ s \notin Holding /\ s \in Holding'
      /\ \A r \in Holding' : r = s \/ (r \in Holding /\ client'[r] = client[r])
  <2>1. phase'[s] = "linked" /\ client'[s] = x
    BY <1>1 DEF SshTypeOK
  <2>2. \A r \in Sessions : r # s => phase'[r] = phase[r] /\ client'[r] = client[r]
    BY <1>1 DEF SshTypeOK
  <2>3. s \notin Holding /\ s \in Holding'
    BY <2>1 DEF Holding
  <2>4. \A r \in Holding' : r = s \/ r \in Holding
    BY <2>2 DEF Holding
  <2>5. \A r \in Holding' : r \in Sessions
    BY DEF Holding
  <2> QED BY <2>1, <2>2, <2>3, <2>4, <2>5
<1>3. HandsOK'
  <2>1. PICK e \in [1 .. Len(pool') -> 1 .. Len(pool)] :
          /\ \A m \in 1 .. Len(pool') : pool'[m] = pool[e[m]]
          /\ \A l, m \in 1 .. Len(pool') : e[l] = e[m] => l = m
    BY DEF PoolShrinks
  <2>2. \A i \in 1 .. Len(pool) : pool[i] \in Transports
    BY <1>1 DEF SshTypeOK
  <2>3. \A r \in Holding' : client'[r] \in Transports /\ link'[client'[r]] # "fresh"
    BY <1>1, <1>2 DEF HandsOK, LinksKept
  <2>4. \A i \in 1 .. Len(pool') : e[i] \in 1 .. Len(pool)
    BY <2>1
  <2>5. \A i \in 1 .. Len(pool') : link'[pool'[i]] # "fresh"
    BY <1>1, <2>1, <2>2, <2>4 DEF HandsOK, LinksKept
  <2>6. \A q, r \in Holding' : client'[q] = client'[r] => q = r
    BY <1>1, <1>2 DEF HandsOK
  <2>7. \A i, j \in 1 .. Len(pool') : pool'[i] = pool'[j] => i = j
    BY <1>1, <2>1, <2>4 DEF HandsOK
  <2>8. \A r \in Holding', i \in 1 .. Len(pool') : pool'[i] # client'[r]
    BY <1>1, <1>2, <2>1, <2>4 DEF HandsOK
  <2> QED BY <2>3, <2>5, <2>6, <2>7, <2>8 DEF HandsOK
<1>4. ReservationsOK'
  <2>1. Connecting' = Connecting
    BY <1>1 DEF Connecting, SshTypeOK
  <2>2. \A r \in reserved : phase'[r] \notin {"unused", "checked"}
    BY <1>1 DEF ReservationsOK, SshTypeOK
  <2>3. \A a \in Addresses : (reserved \cap At(a))' = reserved \cap At(a)
    BY DEF At, AddressOfSession
  <2> QED BY <1>1, <2>1, <2>2, <2>3 DEF ReservationsOK
<1>5. CapOK'
  <2>1. \A r \in Sessions : Occupies(r)' => Occupies(r)
    BY <1>1 DEF Occupies, SshTypeOK
  <2> QED BY <1>1, <2>1, CapKept
<1>6. DeniedOK'
  BY <1>1 DEF DeniedOK, SshTypeOK
<1>7. OwnCredential'
  BY <1>1, <1>2 DEF OwnCredential, Holding, SshTypeOK
<1> QED BY <1>3, <1>4, <1>5, <1>6, <1>7 DEF IInv

\* The transport that is handed out leaves the pool and is of the right key.
LEMMA TakeFromPoolInv ==
  ASSUME IInv, NEW s \in Sessions, TakeFromPool(s)
  PROVE  IInv'
<1>1. SshTypeOK /\ HandsOK
  BY DEF IInv
<1> DEFINE I == HandedOut(KeyOf[s])
           i == Newest(I)
           D == {j \in Slots(KeyOf[s]) : j > i}
<1>2. /\ phase[s] = "admitted" /\ I # {} /\ pool' = Without(D \cup {i}) /\ link' = Discarded(D)
      /\ client' = [client EXCEPT ![s] = pool[i]] /\ phase' = [phase EXCEPT ![s] = "linked"]
      /\ UNCHANGED <<reserved, pending, idleFor, running, linkKey, denied, doomed, late>>
  BY DEF TakeFromPool, AfterTake
<1>3. I \subseteq 1 .. Len(pool) /\ Len(pool) \in Nat
  BY <1>1 DEF HandedOut, LiveSlots, Slots, SshTypeOK
<1>4. i \in I
  BY <1>2, <1>3, NewestIn
<1>5. i \in 1 .. Len(pool) /\ linkKey[pool[i]] = KeyOf[s] /\ link[pool[i]] = "open"
  BY <1>4 DEF HandedOut, LiveSlots, Slots
<1>6. PICK x \in Transports : x = pool[i]
  BY <1>1, <1>5 DEF SshTypeOK
<1>7. PoolShrinks /\ pool' \in Seq(Transports)
  BY <1>1, <1>2, PoolWithout DEF SshTypeOK
<1>8. LinksKept
  BY <1>1, <1>2 DEF LinksKept, Discarded, SshTypeOK
<1>9. SshTypeOK'
  <2>1. link' \in [Transports -> LinkStates]
    BY <1>1, <1>2 DEF SshTypeOK, Discarded, LinkStates
  <2>2. phase' \in [Sessions -> SessionPhases]
    BY <1>1, <1>2 DEF SshTypeOK, SessionPhases
  <2>3. client' \in [Sessions -> Transports \cup {NoTransport}]
    BY <1>1, <1>2, <1>6 DEF SshTypeOK
  <2> QED BY <1>1, <1>2, <1>7, <2>1, <2>2, <2>3 DEF SshTypeOK
<1>10. \A r \in Holding : client[r] # x /\ linkKey'[client[r]] = linkKey[client[r]]
  BY <1>1, <1>2, <1>5, <1>6 DEF HandsOK
<1>11. \A j \in 1 .. Len(pool') : pool'[j] # x
  <2>1. PICK e \in [1 .. Len(pool') -> (1 .. Len(pool)) \ (D \cup {i})] :
           \A m \in 1 .. Len(pool') : pool'[m] = pool[e[m]]
    BY <1>1, <1>2, PoolWithout DEF SshTypeOK
  <2>2. \A m \in 1 .. Len(pool') : e[m] \in 1 .. Len(pool) /\ e[m] # i
    BY <2>1
  <2> HIDE DEF i, D
  <2> QED BY <1>1, <1>5, <1>6, <2>1, <2>2 DEF HandsOK
<1>12. link'[x] # "fresh" /\ linkKey'[x] = KeyOf[s] /\ client' = [client EXCEPT ![s] = x]
  BY <1>2, <1>5, <1>6, <1>8 DEF LinksKept
<1> QED BY <1>2, <1>7, <1>8, <1>9, <1>10, <1>11, <1>12, GetsLinked

\* A new transport is in nobody's hands and gets the key of its connect.
LEMMA MissAndDialInv ==
  ASSUME IInv, NEW s \in Sessions, MissAndDial(s)
  PROVE  IInv'
<1>1. SshTypeOK /\ HandsOK
  BY DEF IInv
<1> DEFINE K == Slots(KeyOf[s])
<1>2. PICK x \in Transports :
      /\ link[x] = "fresh" /\ phase[s] = "admitted"
      /\ pool' = Without(K) /\ link' = [Discarded(K) EXCEPT ![x] = "open"]
      /\ linkKey' = [linkKey EXCEPT ![x] = KeyOf[s]]
      /\ client' = [client EXCEPT ![s] = x] /\ phase' = [phase EXCEPT ![s] = "linked"]
      /\ UNCHANGED <<reserved, pending, idleFor, running, denied, doomed, late>>
  <2> DEFINE fresh == {x \in Transports : link[x] = "fresh"}
             new == CHOOSE x \in fresh : TRUE
  <2>1. fresh # {}
    BY DEF MissAndDial
  <2>2. new \in fresh
    BY <2>1
  <2>3. new \in Transports /\ link[new] = "fresh"
    BY <2>2
  <2>4. /\ phase[s] = "admitted"
        /\ pool' = Without(K) /\ link' = [Discarded(K) EXCEPT ![new] = "open"]
        /\ linkKey' = [linkKey EXCEPT ![new] = KeyOf[s]]
        /\ client' = [client EXCEPT ![s] = new] /\ phase' = [phase EXCEPT ![s] = "linked"]
        /\ UNCHANGED <<reserved, pending, idleFor, running, denied, doomed, late>>
    BY DEF MissAndDial
  <2> HIDE DEF new, K
  <2> QED BY <2>3, <2>4
<1>3. PoolShrinks /\ pool' \in Seq(Transports)
  BY <1>1, <1>2, PoolWithout DEF SshTypeOK
<1>4. PICK e \in [1 .. Len(pool') -> 1 .. Len(pool)] :
           \A m \in 1 .. Len(pool') : pool'[m] = pool[e[m]]
  BY <1>3 DEF PoolShrinks
<1> HIDE DEF K
<1>5. Discarded(K) \in [Transports -> LinkStates]
      /\ \A y \in Transports : Discarded(K)[y] \in {link[y], "closed"}
  BY <1>1 DEF SshTypeOK, Discarded, LinkStates
<1>6. link' \in [Transports -> LinkStates] /\ LinksKept /\ link'[x] # "fresh"
  BY <1>1, <1>2, <1>5 DEF LinksKept, LinkStates
<1>7. SshTypeOK'
  <2>1. linkKey' \in [Transports -> PoolKeys]
    BY <1>1, <1>2, SshAssumption DEF SshTypeOK
  <2>2. phase' \in [Sessions -> SessionPhases]
    BY <1>1, <1>2 DEF SshTypeOK, SessionPhases
  <2>3. client' \in [Sessions -> Transports \cup {NoTransport}]
    BY <1>1, <1>2 DEF SshTypeOK
  <2> QED BY <1>1, <1>2, <1>3, <1>6, <2>1, <2>2, <2>3 DEF SshTypeOK
<1>8. \A r \in Holding : client[r] # x /\ linkKey'[client[r]] = linkKey[client[r]]
  BY <1>1, <1>2 DEF HandsOK, SshTypeOK
<1>9. \A j \in 1 .. Len(pool') : pool'[j] # x
  <2>1. \A j \in 1 .. Len(pool') : e[j] \in 1 .. Len(pool)
    BY <1>4
  <2> QED BY <1>1, <1>2, <1>4, <2>1 DEF HandsOK
<1>10. linkKey'[x] = KeyOf[s]
  BY <1>1, <1>2 DEF SshTypeOK
<1> QED BY <1>2, <1>3, <1>6, <1>7, <1>8, <1>9, <1>10, GetsLinked

\* A connect that is over gives back its reservation, once.
LEMMA ReturnReservationInv ==
  ASSUME IInv, NEW s \in Sessions, ReturnReservation(s)
  PROVE  IInv'
<1>1. SshTypeOK /\ HandsOK /\ ReservationsOK /\ CapOK /\ DeniedOK /\ OwnCredential
  BY DEF IInv
<1>2. PICK b \in Addresses : b = AddressOfSession(s)
  BY SshAssumption DEF AddressOfSession
<1>3. /\ s \in reserved /\ phase[s] \notin {"admitted", "linked"} /\ reserved' = reserved \ {s}
      /\ pending' = [pending EXCEPT ![b] = pending[b] - 1]
      /\ UNCHANGED <<phase, client, idleFor, running, link, linkKey, pool, denied, doomed, late>>
  BY <1>2 DEF ReturnReservation, Subtracted
<1>4. ASSUME NEW a \in Addresses
      PROVE  pending'[a] = Cardinality(reserved' \cap At(a)) /\ pending'[a] \in Nat
  <2>1. pending[a] = Cardinality(reserved \cap At(a)) /\ pending[a] \in Nat
    BY <1>1 DEF ReservationsOK, SshTypeOK
  <2>2. IsFiniteSet(reserved \cap At(a))
    BY FS_Subset, SshAssumption DEF At
  <2>3. CASE a = b
    <3>1. reserved' \cap At(a) = (reserved \cap At(a)) \ {s} /\ s \in reserved \cap At(a)
      BY <1>2, <1>3, <2>3 DEF At
    <3>2. /\ IsFiniteSet((reserved \cap At(a)) \ {s})
          /\ Cardinality((reserved \cap At(a)) \ {s}) = Cardinality(reserved \cap At(a)) - 1
      BY <2>2, <3>1, FS_RemoveElement
    <3>3. Cardinality((reserved \cap At(a)) \ {s}) \in Nat
      BY <3>2, FS_CardinalityType
    <3>4. pending'[a] = pending[a] - 1
      BY <1>1, <1>3, <2>3 DEF SshTypeOK
    <3> QED BY <2>1, <3>1, <3>2, <3>3, <3>4
  <2>4. CASE a # b
    <3>1. reserved' \cap At(a) = reserved \cap At(a)
      BY <1>2, <1>3, <2>4 DEF At
    <3>2. pending'[a] = pending[a]
      BY <1>1, <1>3, <2>4 DEF SshTypeOK
    <3> QED BY <2>1, <3>1, <3>2
  <2> QED BY <2>3, <2>4
<1>5. SshTypeOK'
  <2>1. pending' \in [Addresses -> Nat]
    BY <1>1, <1>3, <1>4 DEF SshTypeOK
  <2> QED BY <1>1, <1>3, <2>1 DEF SshTypeOK
<1>6. ReservationsOK'
  <2>1. Connecting' \subseteq reserved'
    BY <1>1, <1>3 DEF ReservationsOK, Connecting
  <2>2. \A r \in reserved' : phase'[r] \notin {"unused", "checked"}
    BY <1>1, <1>3 DEF ReservationsOK
  <2>3. \A a \in Addresses : At(a)' = At(a)
    BY DEF At, AddressOfSession
  <2> QED BY <1>4, <2>1, <2>2, <2>3 DEF ReservationsOK
<1>7. Holding' = Holding
  BY <1>3 DEF Holding
<1>8. HandsOK'
  BY <1>1, <1>3, <1>7 DEF HandsOK
<1>9. CapOK'
  BY <1>1, <1>3, CapKept DEF Occupies
<1>10. DeniedOK' /\ OwnCredential'
  BY <1>1, <1>3 DEF DeniedOK, OwnCredential
<1> QED BY <1>5, <1>6, <1>8, <1>9, <1>10 DEF IInv

\* A parked transport is in the pool once: its session held it until then.
LEMMA ParkInv ==
  ASSUME IInv, NEW s \in Sessions, Park(s)
  PROVE  IInv'
<1>1. SshTypeOK /\ HandsOK /\ ReservationsOK /\ CapOK /\ DeniedOK /\ OwnCredential
  BY DEF IInv
<1>2. /\ phase[s] = "parting" /\ phase' = [phase EXCEPT ![s] = "gone"]
      /\ client' = [r \in Sessions |-> IF r \in {s} THEN NoTransport ELSE client[r]]
      /\ UNCHANGED <<reserved, pending, idleFor, running, linkKey, denied, doomed, late>>
  BY DEF Park, Dropped
<1>3. PICK x \in Transports : x = client[s] /\ link[x] # "fresh"
  BY <1>1, <1>2 DEF HandsOK, Holding
<1>4. /\ \A r \in Sessions : r # s => phase'[r] = phase[r] /\ client'[r] = client[r]
      /\ phase'[s] = "gone"
  BY <1>1, <1>2 DEF SshTypeOK
<1>5. \A r \in Holding' : r \in Holding /\ client'[r] = client[r] /\ r # s
  BY <1>4 DEF Holding
<1>6. phase' \in [Sessions -> SessionPhases] /\ client' \in [Sessions -> Transports \cup {NoTransport}]
  BY <1>1, <1>2 DEF SshTypeOK, SessionPhases
<1>7. DeniedOK'
  BY <1>1, <1>2, <1>4 DEF DeniedOK
<1>8. CASE link[x] # "open"
  <2>1. pool' = pool /\ link' = [link EXCEPT ![x] = "closed"]
    BY <1>3, <1>8 DEF Park
  <2>2. PoolShrinks /\ pool' \in Seq(Transports)
    BY <1>1, <2>1, PoolSame DEF SshTypeOK
  <2>3. SshTypeOK'
    BY <1>1, <1>2, <1>6, <2>1, <2>2 DEF SshTypeOK, LinkStates
  <2>4. PhasesGoOn /\ LinksKept
    BY <1>1, <1>4, <2>1 DEF PhasesGoOn, LinksKept, SshTypeOK
  <2> QED BY <1>2, <1>5, <1>7, <2>2, <2>3, <2>4, QuietStep
<1>9. CASE link[x] = "open"
  <2> DEFINE b == IF Evicts THEN Tail(pool) ELSE pool
             d == IF Evicts THEN 1 ELSE 0
  <2>1. /\ pool' = Append(b, x)
        /\ link' = IF Evicts THEN [link EXCEPT ![Head(pool)] = "closed"] ELSE link
    BY <1>3, <1>9 DEF Park
  <2>2. pool \in Seq(Transports) /\ Len(pool) \in Nat /\ d \in {0, 1} /\ d <= Len(pool)
    BY <1>1, SshAssumption DEF SshTypeOK, Evicts
  <2>3. b \in Seq(Transports) /\ Len(b) = Len(pool) - d /\ \A m \in 1 .. Len(b) : b[m] = pool[m + d]
    <3>1. CASE Evicts
      <4>1. pool # <<>> /\ d = 1 /\ b = Tail(pool)
        BY <2>2, <3>1
      <4> QED BY <2>2, <4>1
    <3>2. CASE ~Evicts
      <4>1. d = 0 /\ b = pool
        BY <3>2
      <4>2. \A m \in 1 .. Len(b) : m + d = m
        BY <2>2, <4>1
      <4> QED BY <2>2, <4>1, <4>2
    <3> QED BY <3>1, <3>2
  <2>4. Evicts => Head(pool) = pool[1] /\ Head(pool) \in Transports /\ link[Head(pool)] # "fresh"
    <3>1. Evicts => Len(pool) >= 1
      BY <2>2
    <3>2. Len(pool) >= 1 => Head(pool) = pool[1] /\ pool[1] \in Transports /\ 1 \in 1 .. Len(pool)
      BY <2>2
    <3> QED BY <1>1, <3>1, <3>2 DEF HandsOK
  <2> HIDE DEF b, d
  <2>5. /\ pool' \in Seq(Transports) /\ Len(pool') = Len(b) + 1 /\ pool'[Len(b) + 1] = x
        /\ \A m \in 1 .. Len(b) : pool'[m] = b[m]
    BY <1>3, <2>1, <2>3
  <2>6. LinksKept /\ link' \in [Transports -> LinkStates] /\ link'[x] # "fresh"
    BY <1>1, <1>3, <2>1, <2>4 DEF LinksKept, SshTypeOK, LinkStates
  <2>7. SshTypeOK'
    BY <1>1, <1>2, <1>6, <2>5, <2>6 DEF SshTypeOK
  <2>8. \A m \in 1 .. Len(pool') : \/ m = Len(b) + 1
                                   \/ m \in 1 .. Len(b) /\ m + d \in 1 .. Len(pool)
    BY <2>2, <2>3, <2>5
  <2>9. \A m \in 1 .. Len(b) : pool'[m] = pool[m + d]
    BY <2>3, <2>5
  <2>10. s \in Holding
    BY <1>2 DEF Holding
  <2>11. \A i \in 1 .. Len(pool) : pool[i] \in Transports /\ pool[i] # x
    BY <1>1, <1>3, <2>2, <2>10 DEF HandsOK
  <2>12. HandsOK'
    <3>1. \A r \in Holding' : client'[r] \in Transports /\ link'[client'[r]] # "fresh"
      BY <1>1, <1>5, <2>6 DEF HandsOK, LinksKept
    <3>2. \A m \in 1 .. Len(pool') : link'[pool'[m]] # "fresh"
      BY <1>1, <2>5, <2>6, <2>8, <2>9, <2>11 DEF HandsOK, LinksKept
    <3>3. \A q, r \in Holding' : client'[q] = client'[r] => q = r
      BY <1>1, <1>5 DEF HandsOK
    <3>4. ASSUME NEW l \in 1 .. Len(pool'), NEW m \in 1 .. Len(pool'), pool'[l] = pool'[m]
          PROVE  l = m
      <4>1. CASE l = Len(b) + 1 \/ m = Len(b) + 1
        BY <2>5, <2>8, <2>9, <2>11, <3>4, <4>1
      <4>2. CASE l # Len(b) + 1 /\ m # Len(b) + 1
        <5>1. l + d \in 1 .. Len(pool) /\ m + d \in 1 .. Len(pool) /\ pool[l + d] = pool[m + d]
          BY <2>8, <2>9, <3>4, <4>2
        <5>2. l + d = m + d
          BY <1>1, <5>1 DEF HandsOK
        <5>3. l \in Int /\ m \in Int /\ d \in Int
          BY <2>2
        <5> QED BY <5>2, <5>3
      <4> QED BY <4>1, <4>2
    <3>5. \A r \in Holding', m \in 1 .. Len(pool') : pool'[m] # client'[r]
      <4>1. \A r \in Holding' : client'[r] # x
        BY <1>1, <1>3, <1>5, <2>10 DEF HandsOK
      <4> QED BY <1>1, <1>5, <2>5, <2>8, <2>9, <4>1 DEF HandsOK
    <3> QED BY <3>1, <3>2, <3>3, <3>4, <3>5 DEF HandsOK
  <2>13. CapOK'
    <3>1. \A r \in Sessions : Occupies(r)' => Occupies(r)
      BY <1>4 DEF Occupies
    <3> QED BY <1>1, <3>1, CapKept
  <2>14. ReservationsOK'
    <3>1. Connecting' \subseteq Connecting
      BY <1>4 DEF Connecting
    <3>2. \A r \in reserved : phase'[r] \notin {"unused", "checked"}
      BY <1>1, <1>4 DEF ReservationsOK, SshTypeOK
    <3>3. \A a \in Addresses : (reserved \cap At(a))' = reserved \cap At(a)
      BY <1>2 DEF At, AddressOfSession
    <3> QED BY <1>1, <1>2, <3>1, <3>2, <3>3 DEF ReservationsOK
  <2>15. OwnCredential'
    BY <1>1, <1>2, <1>4 DEF OwnCredential
  <2> QED BY <1>7, <2>7, <2>12, <2>13, <2>14, <2>15 DEF IInv
<1> QED BY <1>8, <1>9

----------------------------------------------------------------------------
(* The results *)

\* No step of the gateway breaks the invariant.
LEMMA NextInv == IInv /\ [SshNext]_sshVars => IInv'
<1> SUFFICES ASSUME IInv, [SshNext]_sshVars PROVE IInv'
  OBVIOUS
<1>1. CASE UNCHANGED sshVars
  <2>1. PhasesGoOn /\ LinksKept
    BY <1>1 DEF sshVars, PhasesGoOn, LinksKept
  <2>2. PoolShrinks
    BY <1>1, PoolSame DEF sshVars, IInv, SshTypeOK
  <2>3. SshTypeOK' /\ DeniedOK'
    BY <1>1 DEF sshVars, IInv, SshTypeOK, DeniedOK
  <2>4. UNCHANGED <<client, linkKey, reserved, pending>>
    BY <1>1 DEF sshVars
  <2> QED BY <2>1, <2>2, <2>3, <2>4, QuietStep
<1>2. ASSUME NEW s \in Sessions,
             \/ PassGate(s) \/ Admit(s) \/ TakeFromPool(s) \/ MissAndDial(s) \/ DialFails(s) \/ Register(s)
             \/ ReturnReservation(s) \/ Reuse(s) \/ BecomesIdle(s)
             \/ Disconnect(s) \/ Park(s)
             \/ \E c \in Commands : StartCommand(c, s)
      PROVE  IInv'
  BY <1>2, PassGateInv, AdmitInv, TakeFromPoolInv, MissAndDialInv, DialFailsInv, RegisterInv,
     ReturnReservationInv, ReuseInv, BecomesIdleInv, DisconnectInv, ParkInv, StartCommandInv
<1>3. ASSUME \/ \E c \in Commands : EndCommand(c)
             \/ CleanupStale \/ DrainPool
             \/ \E x \in Transports : LinkDies(x)
             \/ \E w \in Callers : Deny(w) \/ Undeny(w)
      PROVE  IInv'
  BY <1>3, EndCommandInv, CleanupStaleInv, DrainPoolInv, LinkDiesInv, DenyInv, UndenyInv
<1> QED BY <1>1, <1>2, <1>3 DEF SshNext

\* The inductive invariant of the sessions and the pool.
THEOREM SshInvariant == SshSpec => []IInv
<1> QED BY InitInv, NextInv, PTL DEF SshSpec

\* The state of the session manager and of the pool keeps its types.
THEOREM SshTypes == SshSpec => []SshTypeOK
<1>1. IInv => SshTypeOK
  BY DEF IInv
<1> QED BY <1>1, SshInvariant, PTL

\* Sessions and connects under way from one address never exceed the largest
\* limit of a caller there, and the pending counter is the number of
\* reservations, whatever the limits and however connects, failures, reaps and
\* disconnects interleave (create_session).
THEOREM SshSessionCap == SshSpec => []SessionCap
<1>1. IInv => SessionCap
  <2> SUFFICES ASSUME IInv, NEW a \in Addresses
               PROVE  LET held == {s \in Sessions : Occupies(s) /\ AddressOfSession(s) = a}
                      IN /\ held = {} \/ \E w \in Callers : AddressOf[w] = a /\ Cardinality(held) <= Limit[w]
                         /\ pending[a] = Cardinality({s \in reserved : AddressOfSession(s) = a})
    BY DEF SessionCap
  <2>1. HeldAt(a) = {} \/ \E w \in Callers : AddressOf[w] = a /\ Cardinality(HeldAt(a)) <= Limit[w]
    BY DEF IInv, CapOK
  <2>2. {s \in reserved : AddressOfSession(s) = a} = reserved \cap At(a)
    BY DEF IInv, SshTypeOK, At
  <2>3. pending[a] = Cardinality(reserved \cap At(a))
    BY DEF IInv, ReservationsOK
  <2> QED BY <2>1, <2>2, <2>3 DEF HeldAt
<1> QED BY <1>1, SshInvariant, PTL

\* A set whose members are all equal has at most one.
LEMMA AtMostOne ==
  ASSUME NEW S, \A x, y \in S : x = y
  PROVE  Cardinality(S) \in {0, 1} /\ (S = {} => Cardinality(S) = 0)
<1>1. CASE S = {}
  BY <1>1, FS_EmptySet
<1>2. CASE S # {}
  <2>1. PICK x : S = {x}
    BY <1>2
  <2> QED BY <1>2, <2>1, FS_Singleton
<1> QED BY <1>1, <1>2

\* An authenticated transport is with one connect, session or disconnect, or
\* once in the pool, for any pool size and number of keys (acquire, release,
\* disconnect).
THEOREM SshOneHolder == SshSpec => []OneHolder
<1>1. IInv => OneHolder
  <2> SUFFICES ASSUME IInv, NEW x \in Transports
               PROVE  Cardinality({s \in Sessions : client[s] = x
                                      /\ phase[s] \in {"linked", "live", "parting"}})
                        + Cardinality({i \in 1 .. Len(pool) : pool[i] = x}) <= 1
    BY DEF OneHolder
  <2> DEFINE A == {s \in Sessions : client[s] = x /\ phase[s] \in {"linked", "live", "parting"}}
             B == {i \in 1 .. Len(pool) : pool[i] = x}
  <2>1. A \subseteq Holding /\ (\A r, s \in A : r = s)
    BY DEF IInv, HandsOK, Holding
  <2>2. \A i, j \in B : i = j
    BY DEF IInv, HandsOK
  <2>3. A = {} \/ B = {}
    BY DEF IInv, HandsOK, Holding
  <2> HIDE DEF A, B
  <2>4. /\ Cardinality(A) \in {0, 1} /\ (A = {} => Cardinality(A) = 0)
        /\ Cardinality(B) \in {0, 1} /\ (B = {} => Cardinality(B) = 0)
    BY <2>1, <2>2, AtMostOne
  <2>5. Cardinality(A) + Cardinality(B) <= 1
    BY <2>3, <2>4
  <2> QED BY <2>5 DEF A, B
<1> QED BY <1>1, SshInvariant, PTL

\* A session only ever runs on a transport that was authenticated with its own
\* credential for its own destination (pool_key).
THEOREM SshOwnCredential == SshSpec => []OwnCredential
<1>1. IInv => OwnCredential
  BY DEF IInv
<1> QED BY <1>1, SshInvariant, PTL

\* A denied caller's sessions are on the list of the denial, or their connect
\* had passed the gate before it (set_access_decision).
THEOREM SshDeniedListed == SshSpec => []DeniedSessionsListed
<1>1. IInv => DeniedSessionsListed
  BY DEF IInv, DeniedOK, DeniedSessionsListed, Live
<1> QED BY <1>1, SshInvariant, PTL
=============================================================================
