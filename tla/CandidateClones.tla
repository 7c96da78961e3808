--------------------------- MODULE CandidateClones --------------------------
(***************************************************************************)
(* The durable writable clones that agents work in: preparing, adopting    *)
(* and cleaning up the clones of one lineage, that is of one source        *)
(* project and feature branch (examples/mcp_server/candidate_clone.py and  *)
(* its tools in mcp_infra/adapters/supervisor.py).                         *)
(*                                                                         *)
(* A clone is a directory that belongs to one base commit, an entry of the *)
(* project registry and a metadata file in its .git.  Calls of one lineage *)
(* exclude each other with a file lock, which the kernel releases when its *)
(* holder dies; agents edit a clone without that lock, and may run any     *)
(* git command in it, "checkout -b" too.  A commit stands for all that is  *)
(* reachable from it.  Source and remote answer; a probe that fails makes  *)
(* a call fail, which changes nothing.                                     *)
(***************************************************************************)
EXTENDS Naturals, FiniteSets

CONSTANTS
    Bases,      \* base commits; each is the identity of one clone directory
    Works,      \* commits that agents make in a clone
    Tools,      \* calls of the tools that may be under way at the same time
    NoTool,     \* nobody holds the lineage lock
    MaxDirs,    \* bound: inode numbers of clone directories
    MaxRounds   \* bound: calls of prepare and cleanup

ASSUME ClonesAssumption ==
    /\ IsFiniteSet(Bases) /\ Bases \cap Works = {}
    /\ NoTool \notin Tools /\ MaxDirs \in Nat \ {0} /\ MaxRounds \in Nat

VARIABLES
    clones,     \* base -> its clone directory
    registered, \* bases whose clone is in the project registry
    tombstones, \* base -> cleanup tombstone
    saved,      \* commits that the remote keeps, in an archive branch or merged
    delivery,   \* the remote branch: "absent", "published" or "open" (a pull request)
    lineage,    \* holder of the lineage lock
    tools,      \* tool call -> where it is
    editor,     \* who has a workspace open, "nobody", "tool" or "task", and which
    rounds      \* bounded counter: calls of prepare and cleanup

remoteVars == <<saved, delivery>>
cloneVars == <<clones, registered, tombstones, remoteVars, lineage, tools, editor, rounds>>

Commits == Bases \cup Works
Ways == {"archive", "merged", "abandon"}
Dirs == 1 .. MaxDirs
NoClone == [there |-> FALSE]
NoMetadata == [version |-> 0]
NoTombstone == [phase |-> "none"]
Waiting == [pc |-> "waiting"]
Nobody == [who |-> "nobody"]

Exists(b) == clones[b].there
InUse == {clones[b].ino : b \in {x \in Bases : Exists(x)}}

\* HEAD is on the feature branch, on another one, or on none.
Branches == {"own", "other", "detached"}

\* What a clone is when it is made: clean, on its branch, without other refs and
\* unreachable objects (extra).  Ghost strayed: it was on another branch while it
\* had no metadata.
Fresh(i, b) == [there |-> TRUE, ino |-> i, git |-> TRUE, head |-> b, branch |-> "own",
                edited |-> FALSE, extra |-> FALSE, broken |-> FALSE, meta |-> NoMetadata,
                trusted |-> FALSE, strayed |-> FALSE]

\* A directory that does not say of which lineage it is.
Astray(d) == d.git /\ d.meta = NoMetadata /\ d.branch = "other"
Noted(d) == [d EXCEPT !.strayed = @ \/ Astray(d)]

\* _candidate_has_active_evidence: the plan or the tasks of an agent
HasTask(b) == editor = [who |-> "task", base |-> b]

Intact(d) == d.there /\ d.git /\ ~d.broken
Dirty(d) == d.edited \/ d.broken

StepTo(t, pc) == tools' = [tools EXCEPT ![t].pc = pc]
Leaves(t) == /\ tools' = [tools EXCEPT ![t] = Waiting]
             /\ lineage' = IF lineage = t THEN NoTool ELSE lineage
Enters(t, call) == /\ tools[t] = Waiting /\ lineage = NoTool
                   /\ rounds < MaxRounds /\ rounds' = rounds + 1
                   /\ lineage' = t /\ tools' = [tools EXCEPT ![t] = call]

ClonesTypeOK ==
    /\ registered \subseteq Bases /\ saved \subseteq Works
    /\ delivery \in {"absent", "published", "open"}
    /\ rounds \in 0 .. MaxRounds /\ lineage \in Tools \cup {NoTool}
    /\ editor \in [who : {"tool", "task"}, base : Bases] \cup {Nobody}
    /\ \A b \in Bases : Exists(b) => /\ clones[b].ino \in Dirs /\ clones[b].head \in Commits
                                    /\ clones[b].branch \in Branches
    /\ \A t \in Tools : tools[t].pc \notin {"waiting", "adopt"} => lineage = t

\* Nothing, or one clone that an older version made and registered, without
\* metadata and with the origin of its source.
ClonesInit ==
    /\ clones \in [Bases -> {NoClone} \cup {[Fresh(1, b) EXCEPT !.trusted = TRUE] : b \in Bases}]
    /\ \A b \in Bases : Exists(b) => clones[b].head = b
    /\ Cardinality({b \in Bases : Exists(b)}) <= 1
    /\ registered = {b \in Bases : Exists(b)}
    /\ tombstones = [b \in Bases |-> NoTombstone]
    /\ saved = {} /\ delivery = "absent"
    /\ lineage = NoTool /\ tools = [t \in Tools |-> Waiting]
    /\ editor = Nobody /\ rounds = 0

-----------------------------------------------------------------------------
(* prepare_candidate_clone *)

\* mutant: a directory without metadata does not claim the lineage
Claimed_by_metadata(b) == \E x \in Bases \ {b} : Exists(x) /\ clones[x].meta # NoMetadata

\* _find_lineage_claimant: another clone of the lineage, or a directory that
\* may be one.  One without metadata whose HEAD is on another branch is passed
\* over; a detached HEAD, or one that cannot be read, is not.
Claimed(b) == \E x \in Bases \ {b} : Exists(x) /\ ~Astray(clones[x])

\* A clone that is there must be as it was made; it is recovered.  Otherwise it
\* is made, unless the lineage is claimed.
Prepare(t, b) ==
    /\ IF Exists(b) THEN /\ Intact(clones[b]) /\ ~Dirty(clones[b])
                         /\ clones[b].branch = "own" /\ clones[b].head = b
                    ELSE ~Claimed(b)
    /\ Enters(t, [pc |-> IF Exists(b) THEN "register" ELSE "clone", base |-> b,
                  recovers |-> Exists(b)])
    /\ UNCHANGED <<clones, registered, tombstones, remoteVars, editor>>

\* The clone is built under a temporary name, which a failure removes and the
\* next call too, and renamed.
Clone(t) ==
    LET b == tools[t].base IN
    /\ tools[t].pc = "clone"
    /\ \E i \in Dirs \ InUse : clones' = [clones EXCEPT ![b] = Fresh(i, b)]
    /\ StepTo(t, "register")
    /\ UNCHANGED <<registered, tombstones, remoteVars, lineage, editor, rounds>>

\* _register_candidate: an entry that exists already is kept.
RegisterClone(t) ==
    /\ tools[t].pc = "register"
    /\ registered' = registered \cup {tools[t].base}
    /\ StepTo(t, "metadata")
    /\ UNCHANGED <<clones, tombstones, remoteVars, lineage, editor, rounds>>

\* Metadata of a recovered clone must be there and agree; it is written anew.
WriteMetadata(t) ==
    LET b == tools[t].base
        made == [version |-> 1, head |-> clones[b].head]
    IN
    /\ tools[t].pc = "metadata"
    /\ clones' = IF tools[t].recovers => clones[b].meta = made
                 THEN [clones EXCEPT ![b].meta = made] ELSE clones
    /\ Leaves(t)
    /\ UNCHANGED <<registered, tombstones, remoteVars, editor, rounds>>

-----------------------------------------------------------------------------
(* adopt_candidate_lineage *)

\* The tombstone is read before the lock is taken.
Adopt(t, b) ==
    /\ tools[t] = Waiting /\ tombstones[b] = NoTombstone /\ Exists(b)
    /\ tools' = [tools EXCEPT ![t] = [pc |-> "adopt", base |-> b, head |-> clones[b].head]]
    /\ UNCHANGED <<clones, registered, tombstones, remoteVars, lineage, editor, rounds>>

\* _prove_candidate_identity_locked.
Proven(b, h) ==
    /\ Exists(b) /\ clones[b].git /\ clones[b].trusted
    /\ ~Dirty(clones[b]) /\ clones[b].branch = "own" /\ clones[b].head = h /\ ~HasTask(b)
    /\ clones[b].meta # NoMetadata => clones[b].meta.head = h
    /\ delivery # "open"

AdoptLocked(t) ==
    LET b == tools[t].base IN
    /\ tools[t].pc = "adopt" /\ lineage = NoTool
    /\ clones' = IF Proven(b, tools[t].head) /\ clones[b].meta = NoMetadata
                 THEN [clones EXCEPT ![b].meta = [version |-> 2, head |-> tools[t].head]]
                 ELSE clones
    /\ Leaves(t)
    /\ UNCHANGED <<registered, tombstones, remoteVars, editor, rounds>>

-----------------------------------------------------------------------------
(* candidate_cleanup *)

Tombstone(phase, h, way, i) == [phase |-> phase, head |-> h, way |-> way, ino |-> i]

\* The remote holds the commit: the archive branch and no delivery branch, or a
\* merged pull request; a clone that is abandoned needs no remote.
Evidence(h, way) ==
    /\ way # "abandon" => h \in saved
    /\ way # "merged" => delivery = "absent"

\* The tombstone is of the transaction that the caller names.  The key
\* abandon_unmodified is compared only by a caller that sends it.
Matches(s, h, way) ==
    /\ s # NoTombstone /\ s.head = h
    /\ s.way = way \/ (s.way = "abandon" /\ way = "merged")

\* A completed transaction of a directory that has been deleted since; inode 0:
\* its directory was not known.
Outdated(b) ==
    /\ tombstones[b].phase = "complete" /\ tombstones[b].ino \notin {0, clones[b].ino}
    /\ b \in registered

Leased(b, h, way) ==
    \/ tombstones[b] = NoTombstone \/ Outdated(b)
    \/ Matches(tombstones[b], h, way) /\ tombstones[b].ino = clones[b].ino

\* _is_resumable_partial_cleanup_tail, for the phase read at the beginning.
CleanupTail(b, phase) == phase = "registry_removed" /\ ~clones[b].git /\ b \notin registered

\* _verify_candidate_clean
CandidateClean(b, h) ==
    /\ clones[b].git /\ clones[b].meta # NoMetadata
    /\ ~Dirty(clones[b]) /\ clones[b].branch = "own" /\ clones[b].head = h /\ ~HasTask(b)

\* _require_unmodified_abandonment: the clone is at its base, and neither another
\* ref nor an unreachable object holds anything.
Unmodified(b, h) ==
    clones[b].meta = [version |-> 1, head |-> b] /\ h = b /\ ~clones[b].extra

\* All that allows a removal: verified twice, before the registry entry goes
\* and after.
Removable(b, h, way, phase) ==
    /\ Evidence(h, way) /\ delivery # "open"
    /\ \/ CleanupTail(b, phase)
       \/ CandidateClean(b, h) /\ (way = "abandon" => Unmodified(b, h))

\* The tombstone is written, "prepared", once the clone has been verified.  A
\* tombstone of the same transaction is resumed.
Cleanup(t, b, h, way) ==
    LET phase == IF Outdated(b) THEN "none" ELSE tombstones[b].phase IN
    /\ Exists(b) /\ Leased(b, h, way) /\ Removable(b, h, way, phase)
    /\ Enters(t, [pc |-> "unregister", base |-> b, head |-> h, way |-> way, ino |-> clones[b].ino,
                  phase |-> phase, raced |-> FALSE])
    /\ tombstones' = IF phase = "none"
                     THEN [tombstones EXCEPT ![b] = Tombstone("prepared", h, way, clones[b].ino)]
                     ELSE tombstones
    /\ UNCHANGED <<clones, registered, remoteVars, editor>>

\* The directory is gone: the transaction is finished without it.
CleanupGone(t, b, h, way) ==
    LET s == tombstones[b] IN
    /\ ~Exists(b)
    /\ s = NoTombstone \/ Matches(s, h, way)
    /\ b \in registered \/ s.phase \in {"prepared", "registry_removed"}
    /\ Evidence(h, way) /\ delivery # "open"
    /\ Enters(t, [pc |-> "unregister", base |-> b, head |-> h, way |-> way, ino |-> 0,
                  phase |-> s.phase, raced |-> FALSE])
    /\ tombstones' = IF s = NoTombstone
                     THEN [tombstones EXCEPT ![b] = Tombstone("prepared", h, way, 0)]
                     ELSE tombstones
    /\ UNCHANGED <<clones, registered, remoteVars, editor>>

\* unregister_project_exact
Unregister(t) ==
    /\ tools[t].pc = "unregister"
    /\ registered' = registered \ {tools[t].base}
    /\ StepTo(t, "mark")
    /\ UNCHANGED <<clones, tombstones, remoteVars, lineage, editor, rounds>>

\* mutant: the phase is recorded when the directory is gone
PhaseMarked_late(s) == s

\* The phase that lets a later call resume the removal.
PhaseMarked(s) == [s EXCEPT !.phase = "registry_removed"]

\* Without a directory the tombstone is complete and names no inode.
MarkRemoved(t) ==
    LET b == tools[t].base IN
    /\ tools[t].pc = "mark"
    /\ IF tools[t].ino = 0
       THEN /\ tombstones' = [tombstones EXCEPT
                                ![b] = Tombstone("complete", tools[t].head, tools[t].way, 0)]
            /\ Leaves(t)
       ELSE /\ tombstones' = [tombstones EXCEPT ![b] = PhaseMarked(@)]
            /\ StepTo(t, "verify") /\ UNCHANGED lineage
    /\ UNCHANGED <<clones, registered, remoteVars, editor, rounds>>

\* mutant: the clone is not verified again
Verified_once(t) == TRUE

\* Everything is verified again before the removal.
Verified(t) == Removable(tools[t].base, tools[t].head, tools[t].way, tools[t].phase)

VerifyAgain(t) ==
    /\ tools[t].pc = "verify"
    /\ IF Verified(t) THEN StepTo(t, "remove") /\ UNCHANGED lineage ELSE Leaves(t)
    /\ UNCHANGED <<clones, registered, tombstones, remoteVars, editor, rounds>>

\* What is left of a clone: all or part of .git, with the metadata or without, or
\* nothing of it.
Remains(d, b) ==
    {[d EXCEPT !.broken = TRUE], [d EXCEPT !.broken = TRUE, !.meta = NoMetadata],
     [Fresh(d.ino, b) EXCEPT !.broken = TRUE, !.git = FALSE, !.strayed = d.strayed]}

\* shutil.rmtree: files go one by one, then the directory.
RemoveTree(t) ==
    LET b == tools[t].base IN
    /\ tools[t].pc = "remove"
    /\ \/ /\ \E d \in Remains(clones[b], b) : clones' = [clones EXCEPT ![b] = Noted(d)]
          /\ UNCHANGED tools
       \/ clones' = [clones EXCEPT ![b] = NoClone] /\ StepTo(t, "complete")
    /\ UNCHANGED <<registered, tombstones, remoteVars, lineage, editor, rounds>>

Complete(t) ==
    /\ tools[t].pc = "complete"
    /\ tombstones' = [tombstones EXCEPT ![tools[t].base].phase = "complete"]
    /\ Leaves(t)
    /\ UNCHANGED <<clones, registered, remoteVars, editor, rounds>>

\* The process of a call dies, or a write or the removal fails: the call ends
\* where it is.
Dies(t) ==
    /\ tools[t] # Waiting /\ Leaves(t)
    /\ UNCHANGED <<clones, registered, tombstones, remoteVars, editor, rounds>>

-----------------------------------------------------------------------------
(* Agents and the remote *)

\* A workspace tool or an agent's task resolves the clone in the registry.  A
\* task leaves its plan in the clone until it ends.
OpenWorkspace(b, who) ==
    /\ editor = Nobody /\ b \in registered /\ Exists(b)
    /\ editor' = [who |-> who, base |-> b]
    /\ UNCHANGED <<clones, registered, tombstones, remoteVars, lineage, tools, rounds>>

\* What an agent makes of a clone: it edits files, commits them, or moves HEAD.
\* What HEAD leaves behind is in other refs or unreachable, also when HEAD returns.
EditsOf(d, b) ==
    {[d EXCEPT !.edited = TRUE]}
    \cup {[d EXCEPT !.edited = FALSE, !.head = w] : w \in Works}
    \cup {[d EXCEPT !.head = to.head, !.branch = to.branch, !.extra = TRUE] :
             to \in [head : Works \cup {b}, branch : Branches]}
    \cup {[d EXCEPT !.branch = br] : br \in {"own", "detached"}}

\* It does so whatever has happened in between.
Edit ==
    LET b == editor.base IN
    /\ editor # Nobody /\ Exists(b) /\ clones[b].git
    /\ \E d \in EditsOf(clones[b], b) : clones' = [clones EXCEPT ![b] = Noted(d)]
    /\ tools' = [t \in Tools |-> IF tools[t].pc = "remove" /\ tools[t].base = b
                                 THEN [tools[t] EXCEPT !.raced = TRUE] ELSE tools[t]]
    /\ UNCHANGED <<registered, tombstones, remoteVars, lineage, editor, rounds>>

CloseWorkspace ==
    /\ editor # Nobody /\ editor' = Nobody
    /\ UNCHANGED <<clones, registered, tombstones, remoteVars, lineage, tools, rounds>>

\* The head of a clone is pushed to an archive branch or merged.  A base is in
\* the source and is not archived.
Save(b) ==
    /\ Exists(b) /\ clones[b].git
    /\ saved' = saved \cup ({clones[b].head} \cap Works)
    /\ UNCHANGED <<clones, registered, tombstones, delivery, lineage, tools, editor, rounds>>

\* The delivery branch is published, proposed and deleted.
Deliver ==
    /\ delivery' \in {"absent", "published", "open"}
    /\ UNCHANGED <<clones, registered, tombstones, saved, lineage, tools, editor, rounds>>

ClonesNext ==
    \/ \E t \in Tools :
         \/ \E b \in Bases : \/ Prepare(t, b) \/ Adopt(t, b)
                             \/ \E h \in Commits, way \in Ways :
                                  Cleanup(t, b, h, way) \/ CleanupGone(t, b, h, way)
         \/ Clone(t) \/ RegisterClone(t) \/ WriteMetadata(t) \/ AdoptLocked(t)
         \/ Unregister(t) \/ MarkRemoved(t) \/ VerifyAgain(t) \/ RemoveTree(t)
         \/ Complete(t) \/ Dies(t)
    \/ \E b \in Bases : OpenWorkspace(b, "tool") \/ OpenWorkspace(b, "task") \/ Save(b)
    \/ Edit \/ CloseWorkspace \/ Deliver

ClonesSpec == ClonesInit /\ [][ClonesNext]_cloneVars

-----------------------------------------------------------------------------
\* A lineage has one clone, whatever calls died where: a second base is refused
\* as long as a directory of the lineage is there, with metadata or without.
\* Except for a directory that an agent, or a removal, took to another branch
\* while it had no metadata: it is taken for one of that branch, so a second
\* clone may be made, and both stay when its HEAD returns
\* (candidate_clone.py:1762, 1820).
OneClonePerLineage == Cardinality({b \in Bases : Exists(b) /\ ~clones[b].strayed}) <= 1

\* The first file of a clone is removed only when nothing in it is the only copy
\* of somebody's work: it has no uncommitted edit, and its head is the base or
\* is archived or merged; a clone that is abandoned has no other ref and no
\* unreachable object either, which a cleanup after an archive or a merge does
\* not look at.  Except for an edit that resolved the clone before it was
\* unregistered and lands between the last verification and the removal
\* (candidate_clone.py:1125, 3249, 3298).
RemovesSavedWork ==
    [][\A b \in Bases :
         Exists(b) /\ Intact(clones[b]) /\ (clones'[b].there => ~Intact(clones'[b])) =>
           \/ /\ ~clones[b].edited /\ clones[b].head \in Bases \cup saved
              /\ tools[lineage].way = "abandon" => ~clones[b].extra
           \/ tools[lineage].raced]_cloneVars

\* A removal that died half way, with .git gone, can be resumed: the clone is
\* out of the registry, and its tombstone is in the phase and of the inode that
\* the next cleanup asks for.  No call of prepare or adopt spoils that
\* (candidate_clone.py:1177).
TailResumable ==
    \A b \in Bases : Exists(b) /\ ~clones[b].git =>
      /\ b \notin registered
      /\ tombstones[b].phase = "registry_removed" /\ tombstones[b].ino = clones[b].ino
=============================================================================
