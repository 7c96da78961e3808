----------------------------- MODULE MCServices -----------------------------
(***************************************************************************)
(* Instances for TLC of the gateway's services that share no state in the  *)
(* models: circuit breakers, SSH sessions, access control and event hooks. *)
(* A behaviour is one of the service that focus names; the others stay in  *)
(* one initial state.                                                      *)
(***************************************************************************)
EXTENDS CircuitBreaker, SshSessions, AccessControl, EventHooks, TLC

CONSTANTS s1, s2, s3, w1, w2, a1, k1, k2

VARIABLE focus

SshAddresses == w1 :> a1 @@ w2 :> a1
SshOwners == s1 :> w1 @@ s2 :> w2 @@ s3 :> w2
SshKeys == s1 :> k1 @@ s2 :> k1 @@ s3 :> k2
SshLimits == w1 :> 1 @@ w2 :> 2

ServicesInit ==
    /\ focus \in {"breaker", "ssh", "access", "hooks"}
    /\ Init /\ SshInit /\ AccessInit /\ HookInit
    /\ focus # "breaker" => \A a, b \in Attempts : target[a] = target[b]

ServicesNext ==
    /\ \/ focus = "breaker" /\ Next /\ UNCHANGED <<sshVars, accessVars, hookVars>>
       \/ focus = "ssh" /\ SshNext /\ UNCHANGED <<vars, accessVars, hookVars>>
       \/ focus = "access" /\ AccessNext /\ UNCHANGED <<vars, sshVars, hookVars>>
       \/ focus = "hooks" /\ HookNext /\ UNCHANGED <<vars, sshVars, accessVars>>
    /\ UNCHANGED focus

ServicesSpec ==
    ServicesInit /\ [][ServicesNext]_<<focus, vars, sshVars, accessVars, hookVars>>

\* HookInstances and Hosts share their members, and so do Sends and ApprovalIds:
\* one permutation serves two services.
ServicesSymmetry == Permutations(HookInstances) \cup Permutations(Sends)

\* The type invariants of the services.
ServicesTypeOK == BreakerTypeOK /\ SshTypeOK /\ AccessTypeOK /\ HookTypeOK
=============================================================================
