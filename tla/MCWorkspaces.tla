---------------------------- MODULE MCWorkspaces ----------------------------
(***************************************************************************)
(* Instances for TLC of the MCP server's stores that must survive crashes: *)
(* the integration of files and the candidate clones.  A behaviour is one  *)
(* of the store that focus names; the other stays in one initial state.    *)
(***************************************************************************)
EXTENDS FileIntegration, CandidateClones, TLC

VARIABLE focus

WorkspacesInit ==
    /\ focus \in {"integration", "clones"}
    /\ IntegrationInit /\ ClonesInit
    /\ focus # "integration" => \A i, j \in Inodes : content[i] = content[j]
    /\ focus # "clones" => registered = {}

\* Bound: one clone at a time has its HEAD moved.  While it has, one call less is
\* made, nothing is delivered, and the clone has no uncommitted edit.
Moved == {b \in Bases : Exists(b) /\ (clones[b].branch # "own" \/ clones[b].extra)}

InBounds ==
    /\ Cardinality(Moved) <= 1
    /\ Moved # {} => rounds < MaxRounds /\ delivery = "absent"
    /\ \A b \in Moved : ~clones[b].edited

WorkspacesNext ==
    /\ \/ focus = "integration" /\ IntegrationNext /\ UNCHANGED cloneVars
       \/ focus = "clones" /\ ClonesNext /\ InBounds' /\ UNCHANGED integrationVars
    /\ UNCHANGED focus

WorkspacesSpec ==
    WorkspacesInit /\ [][WorkspacesNext]_<<focus, integrationVars, cloneVars>>

\* Calls and Tools share their members: one permutation serves both stores.
WorkspacesSymmetry ==
    Permutations(Contents) \cup Permutations(Calls) \cup Permutations(Bases)

\* The type invariants of the stores.
WorkspacesTypeOK == IntegrationTypeOK /\ ClonesTypeOK
=============================================================================
