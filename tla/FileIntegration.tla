--------------------------- MODULE FileIntegration --------------------------
(***************************************************************************)
(* The supervisor's replacement of one file in place, with its journal,    *)
(* backup and recovery sweep                                               *)
(* (examples/mcp_server/supervisor_integration.py and its tools in         *)
(* mcp_infra/adapters/supervisor.py).                                      *)
(*                                                                         *)
(* One target path.  The path may come to name another inode (an editor or *)
(* Git replaces the file) while a call holds a descriptor of the old one.  *)
(* Calls run in several server threads and processes; integrations and     *)
(* recoveries of the target exclude each other with a file lock, which the *)
(* kernel releases when its holder dies.  Hashes are taken for the         *)
(* contents they are hashes of.                                            *)
(***************************************************************************)
EXTENDS Naturals, FiniteSets

CONSTANTS
    Calls,          \* calls of integrate_file and recover_pending under way
    Contents,       \* contents that a file may have
    MaxInodes,      \* bound: inodes that the path names, one after the other
    NoCall,         \* nobody holds the lock
    MaxIntegrations,\* bound: calls of integrate_file
    MaxTroubles     \* bound: crashes, power losses, I/O errors, replacements

ASSUME IntegrationAssumption ==
    /\ IsFiniteSet(Calls) /\ NoCall \notin Calls /\ "torn" \notin Contents
    /\ MaxInodes \in Nat \ {0} /\ MaxIntegrations \in Nat /\ MaxTroubles \in Nat

VARIABLES
    pathInode,  \* the inode that the target path names
    content,    \* inode -> its bytes: a content, or "torn" in the middle of a write
    journal,    \* <digest>.json
    backup,     \* <digest>.bak
    onDisk,     \* journal and backup as the last fsync of their directory left them
    lock,       \* holder of <digest>.lock
    call,       \* call -> where it is
    integrations, troubles,     \* bounded counters
    outcomes    \* history: inode -> contents that the reports so far allow

fileVars == <<pathInode, content, journal, backup, onDisk>>
integrationVars == <<fileVars, lock, call, integrations, troubles, outcomes>>

Inodes == 1 .. MaxInodes
NoFile == [there |-> FALSE]
Partial == [there |-> TRUE, whole |-> FALSE]
Backup(c) == [there |-> TRUE, whole |-> TRUE, of |-> c]
Journal(i, c, d) == [there |-> TRUE, whole |-> TRUE, ino |-> i, original |-> c, new |-> d]
Torn == "torn"
Ready == [pc |-> "ready"]

Working(c) == call[c] # Ready
At(c, pc) == call[c].pc = pc
Goto(c, pc) == call' = [call EXCEPT ![c].pc = pc]
Returns(c) == /\ call' = [call EXCEPT ![c] = Ready]
           /\ lock' = IF lock = c THEN NoCall ELSE lock

IntegrationTypeOK ==
    /\ pathInode \in Inodes /\ content \in [Inodes -> Contents \cup {Torn}]
    /\ lock \in Calls \cup {NoCall}
    /\ integrations \in 0 .. MaxIntegrations /\ troubles \in 0 .. MaxTroubles
    /\ outcomes \in [Inodes -> SUBSET (Contents \cup {Torn})]
    /\ \A c \in Calls : Working(c) /\ call[c].pc \notin {"lock", "recover"} => lock = c
    /\ backup.there /\ backup.whole => backup.of \in Contents

IntegrationInit ==
    /\ pathInode = 1 /\ content \in [Inodes -> Contents]
    /\ journal = NoFile /\ backup = NoFile
    /\ onDisk = [journal |-> NoFile, backup |-> NoFile]
    /\ lock = NoCall /\ call = [c \in Calls |-> Ready]
    /\ integrations = 0 /\ troubles = 0
    /\ outcomes = [i \in Inodes |-> {content[i]}]

-----------------------------------------------------------------------------
(* integrate_file *)

\* The preconditions that hold without the lock: the content is the expected
\* one.  A call that fails here changes nothing.
Integrate(c, new) ==
    /\ ~Working(c) /\ integrations < MaxIntegrations
    /\ content[pathInode] # Torn
    /\ call' = [call EXCEPT ![c] = [pc |-> "lock", fd |-> pathInode, expected |-> content[pathInode],
                                    original |-> content[pathInode], new |-> new]]
    /\ integrations' = integrations + 1
    /\ UNCHANGED <<fileVars, lock, troubles, outcomes>>

\* mutant: a shared lock
Lockable_shared(c) == TRUE

\* fcntl.flock(fd, LOCK_EX) in _target_lock
Lockable(c) == lock = NoCall

\* mutant: the hash is not verified again under the lock
SameAsExpected_unlocked(c) == content[pathInode] # Torn

\* The preconditions are verified again through the descriptor opened under the
\* lock.
SameAsExpected(c) == content[pathInode] = call[c].expected

\* The lock is free.  A pending journal or a backup that is there refuse the
\* call (JournalPendingError), another content too (HashMismatchError).
TakeLock(c) ==
    /\ At(c, "lock") /\ Lockable(c)
    /\ IF ~journal.there /\ SameAsExpected(c) /\ ~backup.there
       THEN /\ lock' = c
            /\ call' = [call EXCEPT ![c].pc = "backup", ![c].fd = pathInode,
                                    ![c].original = content[pathInode]]
       ELSE Returns(c)
    /\ UNCHANGED <<fileVars, integrations, troubles, outcomes>>

\* _write_backup: created, then written and synced.
WriteBackup(c) ==
    /\ At(c, "backup")
    /\ backup' = IF backup.there THEN Backup(call[c].original) ELSE Partial
    /\ Goto(c, IF backup.there THEN "journal" ELSE "backup")
    /\ UNCHANGED <<pathInode, content, journal, onDisk, lock, integrations, troubles, outcomes>>

\* _write_journal: created, then written and synced.
WriteJournal(c) ==
    /\ At(c, "journal")
    /\ journal' = IF journal.there THEN Journal(call[c].fd, call[c].original, call[c].new)
                                   ELSE Partial
    /\ Goto(c, IF journal.there THEN "sync" ELSE "journal")
    /\ UNCHANGED <<pathInode, content, backup, onDisk, lock, integrations, troubles, outcomes>>

\* mutant: the directory is not synced before the target is written
Synced_not == onDisk

\* _fsync_dir
Synced == [journal |-> journal, backup |-> backup]

\* _fsync_dir of the journal directory, after which the target may be written.
SyncJournal(c) ==
    /\ At(c, "sync")
    /\ onDisk' = Synced
    /\ Goto(c, "write")
    /\ UNCHANGED <<pathInode, content, journal, backup, lock, integrations, troubles, outcomes>>

\* _write_all of the new bytes through the descriptor: begun, then complete.
WriteTarget(c) ==
    LET i == call[c].fd IN
    /\ At(c, "write")
    /\ \/ /\ content[i] # Torn
          /\ content' = [content EXCEPT ![i] = Torn]
          /\ outcomes' = [outcomes EXCEPT ![i] = {call[c].original, call[c].new}]
          /\ UNCHANGED call
       \/ /\ content[i] = Torn
          /\ content' = [content EXCEPT ![i] = call[c].new]
          /\ Goto(c, "unlink journal")
          /\ UNCHANGED outcomes
    /\ UNCHANGED <<pathInode, journal, backup, onDisk, lock, integrations, troubles>>

\* _rollback after a failed write: the original bytes are written back and
\* verified.
Restore(c) ==
    LET i == call[c].fd IN
    /\ At(c, "restore")
    /\ \/ content[i] # Torn /\ content' = [content EXCEPT ![i] = Torn] /\ UNCHANGED call
       \/ /\ content[i] = Torn
          /\ content' = [content EXCEPT ![i] = call[c].original]
          /\ Goto(c, "unlink journal")
    /\ UNCHANGED <<pathInode, journal, backup, onDisk, lock, integrations, troubles, outcomes>>

-----------------------------------------------------------------------------
(* _cleanup_journal, at the end of an integration, a rollback or a recovery *)

UnlinkJournal(c) ==
    /\ At(c, "unlink journal")
    /\ journal' = NoFile
    /\ Goto(c, "unlink backup")
    /\ UNCHANGED <<pathInode, content, backup, onDisk, lock, integrations, troubles, outcomes>>

UnlinkBackup(c) ==
    /\ At(c, "unlink backup")
    /\ backup' = NoFile
    /\ Goto(c, "sync cleanup")
    /\ UNCHANGED <<pathInode, content, journal, onDisk, lock, integrations, troubles, outcomes>>

\* The call returns and reports what it has made of the file.
SyncCleanup(c) ==
    /\ At(c, "sync cleanup")
    /\ onDisk' = Synced
    /\ outcomes' = [outcomes EXCEPT ![call[c].fd] = {content[call[c].fd]}]
    /\ Returns(c)
    /\ UNCHANGED <<pathInode, content, journal, backup, integrations, troubles>>

-----------------------------------------------------------------------------
(* recover_pending *)

\* The journal is read and validated before the lock is taken.  One that is not
\* whole is kept and reported.
Recover(c) ==
    /\ ~Working(c)
    /\ journal.there /\ journal.whole
    /\ call' = [call EXCEPT ![c] = [pc |-> "recover", fd |-> journal.ino, expected |-> Torn,
                                    original |-> journal.original, new |-> journal.new]]
    /\ UNCHANGED <<fileVars, lock, integrations, troubles, outcomes>>

\* The backup can be read and is the original of the journal that was read.
Restorable(c) == backup = Backup(call[c].original)

\* The content shows that the integration finished or never began.
Finished(c) == content[pathInode] \in {call[c].new, call[c].original}

\* _recover_one.  A replaced inode and a backup that does not fit leave
\* everything as it is.
RecoverOne(c) ==
    /\ At(c, "recover") /\ Lockable(c)
    /\ IF pathInode = call[c].fd /\ (Finished(c) \/ Restorable(c))
       THEN /\ lock' = c
            /\ call' = [call EXCEPT ![c].pc = IF Finished(c) THEN "unlink journal" ELSE "restore",
                                    ![c].original = IF Finished(c) THEN @ ELSE backup.of]
       ELSE Returns(c)
    /\ UNCHANGED <<fileVars, integrations, troubles, outcomes>>

-----------------------------------------------------------------------------
(* Troubles *)

Trouble == troubles < MaxTroubles /\ troubles' = troubles + 1

\* An I/O error.  It ends the call; a journal that cannot be written takes the
\* backup with it; a target that cannot be written is restored.
IoError(c) ==
    /\ Trouble /\ lock = c
    /\ \/ /\ At(c, "write") /\ Goto(c, "restore") /\ UNCHANGED <<lock, backup>>
       \/ /\ At(c, "journal") /\ Returns(c) /\ backup' = NoFile
       \/ /\ ~At(c, "write") /\ ~At(c, "journal") /\ Returns(c) /\ UNCHANGED backup
    /\ UNCHANGED <<pathInode, content, journal, onDisk, integrations, outcomes>>

\* The process of a call dies.
Crash(c) ==
    /\ Trouble /\ Working(c) /\ Returns(c)
    /\ UNCHANGED <<fileVars, integrations, outcomes>>

\* The machine loses power: each directory entry is the one seen last or the one
\* synced last.  Contents that were written are taken to have reached the disk.
PowerLoss ==
    /\ Trouble
    /\ call' = [c \in Calls |-> Ready] /\ lock' = NoCall
    /\ journal' \in {journal, onDisk.journal} /\ backup' \in {backup, onDisk.backup}
    /\ onDisk' = [journal |-> journal', backup |-> backup']
    /\ UNCHANGED <<pathInode, content, integrations, outcomes>>

\* An editor or Git puts another file in the target's place.
ReplaceTarget ==
    /\ Trouble /\ pathInode < MaxInodes
    /\ pathInode' = pathInode + 1
    /\ UNCHANGED <<content, journal, backup, onDisk, lock, call, integrations, outcomes>>

IntegrationNext ==
    \/ \E c \in Calls :
         \/ \E new \in Contents : Integrate(c, new)
         \/ TakeLock(c) \/ WriteBackup(c) \/ WriteJournal(c) \/ SyncJournal(c)
         \/ WriteTarget(c) \/ Restore(c)
         \/ UnlinkJournal(c) \/ UnlinkBackup(c) \/ SyncCleanup(c)
         \/ Recover(c) \/ RecoverOne(c) \/ IoError(c) \/ Crash(c)
    \/ PowerLoss \/ ReplaceTarget

IntegrationSpec == IntegrationInit /\ [][IntegrationNext]_integrationVars

-----------------------------------------------------------------------------
\* The bytes of a file that was left in the middle of a write are never lost: the
\* backup is whole and holds a content that the file may have, whatever failed
\* or lost power, and whatever a sweep with an old journal in hand did
\* (supervisor_integration.py:355, 392, 578).
TornBackedUp ==
    content[pathInode] = Torn /\ (lock = NoCall \/ call[lock].fd # pathInode) =>
      \E c \in outcomes[pathInode] : backup = Backup(c)

\* The outcome that a call has reported is never undone by a late recovery or by
\* a writer that verified an older content: a file has the content that the
\* last call to return has reported, or one of the two contents of a write that
\* began since (supervisor_integration.py:439, 578).
OutcomeStands ==
    \A i \in Inodes : content[i] \in outcomes[i] \cup {Torn}

\* No change is lost to a writer that waited for the lock: an integration starts
\* to write over the content that its caller expected and no other
\* (supervisor_integration.py:475).
WritesExpected ==
    [][\A c \in Calls :
         At(c, "write") /\ content[call[c].fd] # Torn /\ content'[call[c].fd] = Torn =>
           content[call[c].fd] = call[c].expected]_integrationVars
=============================================================================
