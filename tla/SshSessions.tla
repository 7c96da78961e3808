---------------------------- MODULE SshSessions -----------------------------
(***************************************************************************)
(* The SSH sessions of one gateway (app/ssh_manager.py), the pool of idle  *)
(* transports they come from and go to (app/ssh_pool.py), and the denial   *)
(* of a caller (app/access_control.py, app/routers/admin_access.py), which *)
(* closes that caller's sessions.                                          *)
(*                                                                         *)
(* Session map and pool have a lock each and no await is made under one,   *)
(* so what runs under a lock is one step.  Dialling, returning the         *)
(* reservation, and parking a transport are steps of their own.  A session *)
(* id is drawn once: a session is its connect, then its record, and a      *)
(* record that was removed is still in the hands of commands that run.     *)
(***************************************************************************)
EXTENDS Naturals, Sequences, FiniteSets

CONSTANTS
    Sessions,       \* session ids (bound: connects)
    Callers,        \* an actor at a source address
    Addresses,      \* source addresses
    AddressOf,      \* caller -> source address
    Limit,          \* caller -> max_sessions_per_ip or master_max_sessions_per_ip
    OwnerOf,        \* session -> the caller that connects
    KeyOf,          \* session -> its pool key
    PoolKeys,       \* host, user, credential fingerprint and pinned destination
    Transports,     \* SSH clients (bound: handshakes that succeed)
    NoTransport,
    PoolSize,       \* SSH_CONNECTION_POOL_SIZE
    Commands        \* commands that may run at the same time

ASSUME SshAssumption ==
    /\ AddressOf \in [Callers -> Addresses]
    /\ Limit \in [Callers -> Nat \ {0}]
    /\ OwnerOf \in [Sessions -> Callers] /\ KeyOf \in [Sessions -> PoolKeys]
    /\ PoolKeys # {} /\ PoolSize \in Nat \ {0} /\ NoTransport \notin Transports
    /\ IsFiniteSet(Sessions)

VARIABLES
    phase,      \* session -> where it is (SessionPhases)
    client,     \* session -> its transport
    reserved,   \* sessions whose connect holds a reservation
    pending,    \* _pending_sessions_by_ip
    idleFor,    \* sessions that have been idle for longer than their limit
    running,    \* command -> the sessions it runs on (none or one)
    link,       \* transport -> its state
    linkKey,    \* transport -> the key it was authenticated for
    pool,       \* idle transports, least recently used first
    denied,     \* callers that are denied
    doomed,     \* sessions a denial has listed and not disconnected yet
    late        \* ghost: sessions that passed the gate before a denial

sshVars == <<phase, client, reserved, pending, idleFor, running,
             link, linkKey, pool, denied, doomed, late>>

\* "checked": the gate of the route was passed; "admitted": create_session has
\* let it in; "linked": it has a transport; "live": it is in the session map;
\* "parting": disconnect has removed it and has not parked its transport.
SessionPhases == {"unused", "checked", "admitted", "linked", "live", "parting", "gone"}
LinkStates == {"fresh", "open", "dead", "closed"}

SshTypeOK ==
    /\ phase \in [Sessions -> SessionPhases]
    /\ client \in [Sessions -> Transports \cup {NoTransport}]
    /\ reserved \subseteq Sessions /\ pending \in [Addresses -> Nat]
    /\ idleFor \subseteq Sessions
    /\ running \in [Commands -> SUBSET Sessions]
    /\ link \in [Transports -> LinkStates] /\ linkKey \in [Transports -> PoolKeys]
    /\ pool \in Seq(Transports)
    /\ denied \subseteq Callers /\ doomed \subseteq Sessions /\ late \subseteq Sessions

SshInit ==
    /\ phase = [s \in Sessions |-> "unused"]
    /\ client = [s \in Sessions |-> NoTransport]
    /\ reserved = {} /\ pending = [a \in Addresses |-> 0]
    /\ idleFor = {} /\ running = [c \in Commands |-> {}]
    /\ link = [x \in Transports |-> "fresh"]
    /\ linkKey = [x \in Transports |-> CHOOSE k \in PoolKeys : TRUE]
    /\ pool = <<>> /\ denied = {} /\ doomed = {} /\ late = {}

AddressOfSession(s) == AddressOf[OwnerOf[s]]
Live == {s \in Sessions : phase[s] = "live"}
Busy(s) == \E c \in Commands : s \in running[c]
Pooled == {pool[i] : i \in 1 .. Len(pool)}

\* The clients of sessions that leave the map, and the transports closed with them.
Dropped(ss) == [s \in Sessions |-> IF s \in ss THEN NoTransport ELSE client[s]]

ClosedWith(ss) ==
    [x \in Transports |-> IF \E s \in ss : client[s] = x THEN "closed" ELSE link[x]]

----------------------------------------------------------------------------
(* Connecting *)

\* The access gate of /api/ssh/connect and of /api/ssh/prewarm.
PassGate(s) ==
    /\ phase[s] = "unused" /\ OwnerOf[s] \notin denied
    /\ phase' = [phase EXCEPT ![s] = "checked"]
    /\ UNCHANGED <<client, reserved, pending, idleFor, running,
                   link, linkKey, pool, denied, doomed, late>>

\* The condition of both reapers.
Stale(s) == s \in Live /\ s \in idleFor /\ ~Busy(s)

\* Mutant: connects under way are not counted.
Full_sessions_only(s, kept) ==
    Cardinality({r \in kept : AddressOfSession(r) = AddressOfSession(s)})
        >= Limit[OwnerOf[s]]

Full(s, kept) ==
    Cardinality({r \in kept : AddressOfSession(r) = AddressOfSession(s)})
        + pending[AddressOfSession(s)] >= Limit[OwnerOf[s]]

\* create_session, under the lock: it drops the stale sessions of the address,
\* then refuses or reserves.  A refusal leaves the dropped clients unclosed.
Admit(s) ==
    LET a == AddressOfSession(s)
        reaped == {r \in Sessions : Stale(r) /\ AddressOfSession(r) = a}
        refused == Full(s, Live \ reaped)
    IN /\ phase[s] = "checked"
       /\ phase' = [r \in Sessions |->
                      CASE r \in reaped -> "gone"
                        [] r = s        -> IF refused THEN "gone" ELSE "admitted"
                        [] OTHER        -> phase[r]]
       /\ IF refused
          THEN UNCHANGED <<reserved, pending, link>>
          ELSE /\ reserved' = reserved \cup {s}
               /\ pending' = [pending EXCEPT ![a] = @ + 1]
               /\ link' = ClosedWith(reaped)
       /\ idleFor' = idleFor \ reaped /\ doomed' = doomed \ reaped
       /\ late' = late \ (IF refused THEN reaped \cup {s} ELSE reaped)
       /\ client' = Dropped(reaped)
       /\ UNCHANGED <<running, linkKey, pool, denied>>

\* Positions of the pool that hold an idle transport of a key.
Slots(k) == {i \in 1 .. Len(pool) : linkKey[pool[i]] = k}
LiveSlots(k) == {i \in Slots(k) : link[pool[i]] = "open"}
Newest(I) == CHOOSE i \in I : \A j \in I : j <= i

Without(I) ==
    LET F[n \in 0 .. Len(pool)] ==
          IF n = 0 THEN <<>>
          ELSE IF n \in I THEN F[n - 1] ELSE Append(F[n - 1], pool[n])
    IN F[Len(pool)]

Discarded(I) ==
    [x \in Transports |-> IF \E i \in I : pool[i] = x THEN "closed" ELSE link[x]]

\* Mutant: the pool hands out the most recent transport, whatever its key.
HandedOut_any_key(k) == {i \in 1 .. Len(pool) : link[pool[i]] = "open"}

HandedOut(k) == LiveSlots(k)

\* Mutant: the transport is lent and stays in the pool.
AfterTake_lends(i, dropped) == Without(dropped)

AfterTake(i, dropped) == Without(dropped \cup {i})

\* ConnectionPool.acquire: the most recently used live transport of the key; the
\* dead ones above it are closed.
TakeFromPool(s) ==
    LET I == HandedOut(KeyOf[s])
        i == Newest(I)
        dropped == {j \in Slots(KeyOf[s]) : j > i}
    IN /\ phase[s] = "admitted" /\ I # {}
       /\ pool' = AfterTake(i, dropped)
       /\ link' = Discarded(dropped)
       /\ client' = [client EXCEPT ![s] = pool[i]]
       /\ phase' = [phase EXCEPT ![s] = "linked"]
       /\ UNCHANGED <<reserved, pending, idleFor, running, linkKey,
                      denied, doomed, late>>

\* A miss: all transports of the key are dead, or the newest is older than the
\* time to live and so are the others; they are closed.  Then the handshake, in
\* a thread, which succeeds
MissAndDial(s) ==
    LET fresh == {x \in Transports : link[x] = "fresh"}
        new == CHOOSE x \in fresh : TRUE
    IN
    /\ phase[s] = "admitted" /\ fresh # {}
    /\ pool' = Without(Slots(KeyOf[s]))
    /\ link' = [Discarded(Slots(KeyOf[s])) EXCEPT ![new] = "open"]
    /\ linkKey' = [linkKey EXCEPT ![new] = KeyOf[s]]
    /\ client' = [client EXCEPT ![s] = new]
    /\ phase' = [phase EXCEPT ![s] = "linked"]
    /\ UNCHANGED <<reserved, pending, idleFor, running, denied, doomed, late>>

\* or fails, or is refused by the circuit breaker.
DialFails(s) ==
    /\ phase[s] = "admitted"
    /\ pool' = Without(Slots(KeyOf[s]))
    /\ link' = Discarded(Slots(KeyOf[s]))
    /\ phase' = [phase EXCEPT ![s] = "gone"]
    /\ late' = late \ {s}
    /\ UNCHANGED <<client, reserved, pending, idleFor, running, linkKey, denied, doomed>>

Register(s) ==
    /\ phase[s] = "linked"
    /\ phase' = [phase EXCEPT ![s] = "live"]
    /\ UNCHANGED <<client, reserved, pending, idleFor, running, link,
                   linkKey, pool, denied, doomed, late>>

\* Mutant: a failed connect is subtracted where it fails and again at the end.
Subtracted_twice(s) == IF phase[s] = "live" THEN 1 ELSE 2

Subtracted(s) == 1

\* The finally of create_session.
ReturnReservation(s) ==
    /\ s \in reserved /\ phase[s] \notin {"admitted", "linked"}
    /\ reserved' = reserved \ {s}
    /\ pending' = [pending EXCEPT ![AddressOfSession(s)] = @ - Subtracted(s)]
    /\ UNCHANGED <<phase, client, idleFor, running, link, linkKey,
                   pool, denied, doomed, late>>

\* find_reusable_session hands a live session of the same caller and credential
\* to another connect.
Reuse(s) ==
    /\ s \in Live /\ link[client[s]] = "open" /\ OwnerOf[s] \notin denied
    /\ idleFor' = idleFor \ {s}
    /\ UNCHANGED <<phase, client, reserved, pending, running, link,
                   linkKey, pool, denied, doomed, late>>

----------------------------------------------------------------------------
(* Commands, idleness, disconnects *)

\* The command gate, then execute, execute_stream or an operation lease.
StartCommand(c, s) ==
    /\ s \in Live /\ running[c] = {} /\ OwnerOf[s] \notin denied
    /\ link[client[s]] = "open"
    /\ running' = [running EXCEPT ![c] = {s}]
    /\ idleFor' = idleFor \ {s}
    /\ UNCHANGED <<phase, client, reserved, pending, link, linkKey,
                   pool, denied, doomed, late>>

EndCommand(c) ==
    /\ running[c] # {}
    /\ idleFor' = idleFor \ running[c]
    /\ running' = [running EXCEPT ![c] = {}]
    /\ UNCHANGED <<phase, client, reserved, pending, link, linkKey,
                   pool, denied, doomed, late>>

\* The wall clock passes the idle limit of a session, used or not.
BecomesIdle(s) ==
    /\ s \in Live \ idleFor
    /\ idleFor' = idleFor \cup {s}
    /\ UNCHANGED <<phase, client, reserved, pending, running, link,
                   linkKey, pool, denied, doomed, late>>

\* cleanup_stale_sessions
CleanupStale ==
    LET stale == {s \in Sessions : Stale(s)}
    IN /\ stale # {}
       /\ phase' = [s \in Sessions |-> IF s \in stale THEN "gone" ELSE phase[s]]
       /\ link' = ClosedWith(stale)
       /\ idleFor' = idleFor \ stale /\ doomed' = doomed \ stale /\ late' = late \ stale
       /\ client' = Dropped(stale)
       /\ UNCHANGED <<reserved, pending, running, linkKey, pool, denied>>

\* disconnect, asked for by a client, by close_all or by a denial: the record
\* leaves the map,
Disconnect(s) ==
    /\ s \in Live
    /\ phase' = [phase EXCEPT ![s] = "parting"]
    /\ doomed' = doomed \ {s} /\ idleFor' = idleFor \ {s} /\ late' = late \ {s}
    /\ UNCHANGED <<client, reserved, pending, running, link, linkKey, pool, denied>>

Evicts == Len(pool) >= PoolSize

\* then its transport is parked, in place of the least recently used one when
\* the pool is full, or closed when it is dead.
Park(s) ==
    /\ phase[s] = "parting"
    /\ phase' = [phase EXCEPT ![s] = "gone"]
    /\ IF link[client[s]] = "open"
       THEN /\ pool' = Append(IF Evicts THEN Tail(pool) ELSE pool, client[s])
            /\ link' = IF Evicts THEN [link EXCEPT ![Head(pool)] = "closed"] ELSE link
       ELSE /\ link' = [link EXCEPT ![client[s]] = "closed"]
            /\ UNCHANGED pool
    /\ client' = Dropped({s})
    /\ UNCHANGED <<reserved, pending, idleFor, running,
                   linkKey, denied, doomed, late>>

\* close_pool
DrainPool ==
    /\ pool # <<>>
    /\ pool' = <<>> /\ link' = Discarded(1 .. Len(pool))
    /\ UNCHANGED <<phase, client, reserved, pending, idleFor, running,
                   linkKey, denied, doomed, late>>

\* The peer or the network ends a connection.
LinkDies(x) ==
    /\ link[x] = "open"
    /\ link' = [link EXCEPT ![x] = "dead"]
    /\ UNCHANGED <<phase, client, reserved, pending, idleFor, running,
                   linkKey, pool, denied, doomed, late>>

----------------------------------------------------------------------------
(* Denial *)

\* Mutant: sessions with a running command are spared.
Listed_idle_only(w) == {s \in Live : OwnerOf[s] = w /\ ~Busy(s)}

\* disconnect_sessions_for_actor_source lists the caller's sessions once.
Listed(w) == {s \in Live : OwnerOf[s] = w}

Deny(w) ==
    /\ w \notin denied
    /\ denied' = denied \cup {w}
    /\ doomed' = doomed \cup Listed(w)
    /\ late' = late \cup {s \in Sessions : OwnerOf[s] = w
                            /\ phase[s] \in {"checked", "admitted", "linked"}}
    /\ UNCHANGED <<phase, client, reserved, pending, idleFor, running,
                   link, linkKey, pool>>

\* The operator allows the caller again, clears the decision, or it expires.
Undeny(w) ==
    /\ w \in denied
    /\ denied' = denied \ {w}
    /\ UNCHANGED <<phase, client, reserved, pending, idleFor, running,
                   link, linkKey, pool, doomed, late>>

SshNext ==
    \/ \E s \in Sessions :
          \/ PassGate(s) \/ Admit(s) \/ TakeFromPool(s) \/ MissAndDial(s) \/ DialFails(s) \/ Register(s)
          \/ ReturnReservation(s) \/ Reuse(s) \/ BecomesIdle(s)
          \/ Disconnect(s) \/ Park(s)
          \/ \E c \in Commands : StartCommand(c, s)
    \/ \E c \in Commands : EndCommand(c)
    \/ CleanupStale \/ DrainPool
    \/ \E x \in Transports : LinkDies(x)
    \/ \E w \in Callers : Deny(w) \/ Undeny(w)

SshSpec == SshInit /\ [][SshNext]_sshVars

----------------------------------------------------------------------------
(* Properties *)

Occupies(s) == phase[s] \in {"admitted", "linked", "live"}

\* Sessions and connects under way from one address never exceed the largest
\* limit of a caller there, however connects, failures, reaps and disconnects
\* interleave, and the reservations that are counted are those of the connects
\* that have not returned (ssh_manager.py:366, 455).
SessionCap ==
    \A a \in Addresses :
        LET held == {s \in Sessions : Occupies(s) /\ AddressOfSession(s) = a}
        IN /\ held = {} \/ \E w \in Callers : AddressOf[w] = a /\ Cardinality(held) <= Limit[w]
           /\ pending[a] = Cardinality({s \in reserved : AddressOfSession(s) = a})

\* An authenticated transport is in one pair of hands: of a connect, a session,
\* a disconnect, or once in the pool (acquire, release, disconnect).
OneHolder ==
    \A x \in Transports :
        Cardinality({s \in Sessions : client[s] = x
                                      /\ phase[s] \in {"linked", "live", "parting"}})
          + Cardinality({i \in 1 .. Len(pool) : pool[i] = x}) <= 1

\* A session only ever runs on a transport that was authenticated with its own
\* credential for its own destination (pool_key).
OwnCredential ==
    \A s \in Sessions : phase[s] \in {"linked", "live"} =>
        linkKey[client[s]] = KeyOf[s]

\* A denied caller's sessions are on the list of the denial, or their connect
\* had passed the gate before it (set_access_decision).
DeniedSessionsListed ==
    \A s \in Live : OwnerOf[s] \in denied => s \in doomed \cup late
=============================================================================
