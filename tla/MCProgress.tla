----------------------------- MODULE MCProgress -----------------------------
(***************************************************************************)
(* Instances for TLC of what must eventually happen in the fleet runtime   *)
(* and in the delivery of event hooks.  A behaviour is one of the part     *)
(* that focus names; the other stays in its initial state.                 *)
(***************************************************************************)
EXTENDS FleetRuntime, EventHooks, TLC

CONSTANTS c1, c2

VARIABLE focus

TaskJobs == Tasks \X Attempts
AllParts == Plane \cup Coordinators
Mixed == c1 :> 1 @@ c2 :> 2

ProgressInit == focus \in {"fleet", "hooks"} /\ Init /\ HookInit

ProgressNext ==
    /\ \/ focus = "fleet" /\ Next /\ UNCHANGED hookVars
       \/ focus = "hooks" /\ HookNext /\ UNCHANGED vars
    /\ UNCHANGED focus

Fleet == focus = "fleet"
Hooks == focus = "hooks"

\* Fairness and HookFairness, each in the behaviours that are about its part.
ProgressFairness ==
    /\ \A i \in Calls : WF_vars(Fleet /\ CallStep(i))
    /\ \A c \in Coordinators, j \in KeyedJobs :
          /\ SF_vars(Fleet /\ watch[c][j] = "observed" /\ NotifyObserver(c, j))
          /\ SF_vars(Fleet /\ WatcherSettles(c, j))
    /\ \A d \in Deliveries :
          /\ WF_hookVars(Hooks /\ GrowsOld(d)) /\ WF_hookVars(Hooks /\ RetryDue(d))
          /\ WF_hookVars(Hooks /\ LeaseAges(d))
    /\ \A i \in HookInstances :
          WF_hookVars(Hooks /\ ClaimRead(i)) /\ WF_hookVars(Hooks /\ ClaimCommit(i))
    /\ \A s \in Sends : WF_hookVars(Hooks /\ Answer(s)) /\ WF_hookVars(Hooks /\ Commit(s))

ProgressSpec ==
    ProgressInit /\ [][ProgressNext]_<<focus, vars, hookVars>> /\ ProgressFairness
=============================================================================
