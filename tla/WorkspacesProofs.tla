-------------------------- MODULE WorkspacesProofs --------------------------
(***************************************************************************)
(* Proofs about FileIntegration and CandidateClones, for any number of     *)
(* calls, contents, inodes, bases, commits and troubles, and of their      *)
(* composition MCWorkspaces.                                               *)
(***************************************************************************)
EXTENDS MCWorkspaces, FiniteSetTheorems, TLAPS

----------------------------------------------------------------------------
(* The integration of a file: its inductive invariant *)

Journals == {Journal(i, c, d) : i \in Inodes, c \in Contents, d \in Contents}
Backups == {Backup(c) : c \in Contents}
Writing == {"backup", "journal", "sync", "write"}
Cleaning == {"unlink journal", "unlink backup", "sync cleanup"}
CallStates == {Ready} \cup [pc : Writing \cup Cleaning \cup {"lock", "recover", "restore"},
                            fd : Inodes, expected : Contents \cup {Torn},
                            original : Contents, new : Contents]

FileTyped ==
    /\ pathInode \in Inodes /\ content \in [Inodes -> Contents \cup {Torn}]
    /\ lock \in Calls \cup {NoCall}
    /\ integrations \in 0 .. MaxIntegrations /\ troubles \in 0 .. MaxTroubles
    /\ outcomes \in [Inodes -> SUBSET (Contents \cup {Torn})]
    /\ journal \in {NoFile, Partial} \cup Journals
    /\ backup \in {NoFile, Partial} \cup Backups
    /\ onDisk \in [journal : {NoFile, Partial} \cup Journals, backup : {NoFile, Partial} \cup Backups]
    /\ call \in [Calls -> CallStates]
    /\ \A c \in Calls : (lock = c) <=> call[c].pc \notin {"ready", "lock", "recover"}

\* What a journal says of the file whose inode it names: its original is an
\* outcome, and the inode is not one of the future.
JournalOK(j) == j \in Journals => j.original \in outcomes[j.ino] /\ j.ino <= pathInode

BackupSynced == onDisk.backup = backup

\* A recovery that finds the backup of its journal restores an outcome; the
\* backup is on disk unless there is nothing to restore.
RecoveryOK(i, c) ==
    i = pathInode /\ backup = Backup(c) =>
        c \in outcomes[i] /\ (content[i] = c \/ BackupSynced)

\* What the holder of the lock knows of the inode that it has open,
HolderInode(r) ==
    /\ r.fd <= pathInode
    /\ \A i \in Inodes : i > r.fd => content[i] # Torn
    /\ journal \in Journals => journal.ino <= r.fd

\* of the journal and the backup,
HolderFiles(r) ==
    /\ r.pc = "backup" => journal = NoFile /\ backup \in {NoFile, Partial}
    /\ r.pc \in {"journal", "sync", "write", "restore"} => backup = Backup(r.original)
    /\ r.pc = "journal" => journal \in {NoFile, Partial}
    /\ r.pc \in {"sync", "write"} => journal = Journal(r.fd, r.original, r.new)
    /\ r.pc \in {"write", "restore"} => BackupSynced
    /\ r.pc = "write" => onDisk.journal = journal
    /\ r.pc \in {"unlink backup", "sync cleanup"} => journal = NoFile
    /\ r.pc = "sync cleanup" => backup = NoFile

\* and of the content.
HolderContent(r) ==
    /\ r.pc \in Writing => r.original = r.expected
    /\ r.pc \in Writing \cup {"restore"} => r.original \in outcomes[r.fd]
    /\ r.pc \in {"backup", "journal", "sync"} => content[r.fd] = r.original
    /\ r.pc = "write" => \/ content[r.fd] = Torn /\ r.new \in outcomes[r.fd]
                         \/ content[r.fd] # Torn /\ content[r.fd] = r.original
    /\ r.pc \in Cleaning => content[r.fd] # Torn

HolderOK(r) == HolderInode(r) /\ HolderFiles(r) /\ HolderContent(r)

\* The files: reported outcomes stand, a torn target has its backup on disk, and
\* the journals are those of the outcomes.
FilesOK ==
    /\ OutcomeStands
    /\ \A i \in Inodes : i > pathInode => content[i] # Torn
    /\ content[pathInode] = Torn =>
         BackupSynced /\ \E c \in outcomes[pathInode] : backup = Backup(c)
    /\ JournalOK(journal) /\ JournalOK(onDisk.journal)
    /\ journal \in Journals => RecoveryOK(journal.ino, journal.original)

\* A recovery that waits for the lock with a journal in hand.
WaiterOK(r) ==
    r.pc = "recover" => /\ RecoveryOK(r.fd, r.original)
                        /\ r.fd <= pathInode
                        /\ lock # NoCall => r.fd <= call[lock].fd

FileInv ==
    /\ FileTyped
    /\ FilesOK
    /\ \A c \in Calls : WaiterOK(call[c])
    /\ \A c \in Calls : lock = c => HolderOK(call[c])

----------------------------------------------------------------------------
(* The clones of a lineage: their inductive invariant *)

Phases == {"none", "prepared", "registry_removed", "complete"}
Directories == [there : {TRUE}, ino : Dirs, git : BOOLEAN, head : Commits, branch : Branches,
                edited : BOOLEAN, extra : BOOLEAN, broken : BOOLEAN,
                meta : {NoMetadata} \cup [version : {1, 2}, head : Commits],
                trusted : BOOLEAN, strayed : BOOLEAN]
CloneDirs == {NoClone} \cup Directories
Transactions == [phase : Phases, head : Commits, way : Ways, ino : Dirs \cup {0}]
Tombstones == {NoTombstone} \cup Transactions
Preparing == [pc : {"clone", "register", "metadata"}, base : Bases, recovers : BOOLEAN]
Adopting == [pc : {"adopt"}, base : Bases, head : Commits]
Removing == [pc : {"unregister", "mark", "verify", "remove", "complete"}, base : Bases,
             head : Commits, way : Ways, ino : Dirs \cup {0}, phase : Phases, raced : BOOLEAN]

ClonesTyped ==
    /\ clones \in [Bases -> CloneDirs]
    /\ registered \subseteq Bases /\ saved \subseteq Works
    /\ tombstones \in [Bases -> Tombstones]
    /\ delivery \in {"absent", "published", "open"}
    /\ rounds \in 0 .. MaxRounds /\ lineage \in Tools \cup {NoTool}
    /\ editor \in [who : {"tool", "task"}, base : Bases] \cup {Nobody}
    /\ tools \in [Tools -> {Waiting} \cup Preparing \cup Adopting \cup Removing]
    /\ \A t \in Tools : tools[t].pc \notin {"waiting", "adopt"} => lineage = t

\* What the holder of the lineage lock knows of its clone.
ToolOK(r) ==
    /\ r.pc = "clone" => \A b \in Bases : Exists(b) => b # r.base /\ clones[b].strayed
    /\ r.pc \in {"register", "metadata"} => Exists(r.base) /\ clones[r.base].git
    /\ r.pc \in {"unregister", "mark"} =>
         \/ r.ino = 0 /\ ~Exists(r.base)
         \/ Exists(r.base) /\ r.ino = clones[r.base].ino /\ tombstones[r.base].ino = clones[r.base].ino
            /\ tombstones[r.base] # NoTombstone
    /\ r.pc \in {"mark", "verify", "remove"} => r.base \notin registered
    /\ r.pc \in {"verify", "remove"} =>
         Exists(r.base) /\ tombstones[r.base].ino = clones[r.base].ino
         /\ tombstones[r.base].phase = "registry_removed"
    /\ r.pc = "remove" /\ ~r.raced /\ Intact(clones[r.base]) =>
         /\ ~clones[r.base].edited /\ clones[r.base].head \in Bases \cup saved
         /\ r.way = "abandon" => ~clones[r.base].extra
    /\ r.pc = "complete" => ~Exists(r.base) /\ tombstones[r.base] # NoTombstone

\* A directory that does not claim the lineage is noted, and of those that are
\* not there is one.
LineageOK ==
    /\ \A b \in Bases : Exists(b) /\ Astray(clones[b]) => clones[b].strayed
    /\ \A a, b \in Bases : Exists(a) /\ Exists(b) =>
         a = b \/ clones[a].strayed \/ clones[b].strayed

ClonesInv ==
    /\ ClonesTyped
    /\ LineageOK
    /\ TailResumable
    /\ \A t \in Tools : lineage = t => ToolOK(tools[t])

----------------------------------------------------------------------------
(* The integration of a file *)

\* The kinds of files are apart, and a journal and a backup hold what they were
\* made of.
LEMMA FileKinds ==
  /\ ~NoFile.there /\ Partial.there /\ ~Partial.whole /\ NoFile # Partial
  /\ \A c : /\ Backup(c).there /\ Backup(c).whole /\ Backup(c).of = c
            /\ Backup(c) # NoFile /\ Backup(c) # Partial
  /\ \A i, c, d : /\ Journal(i, c, d).there /\ Journal(i, c, d).whole /\ Journal(i, c, d).ino = i
                  /\ Journal(i, c, d).original = c /\ Journal(i, c, d).new = d
  /\ NoFile \notin Journals /\ Partial \notin Journals
<1>1. ~NoFile.there /\ Partial.there /\ ~Partial.whole
  BY DEF NoFile, Partial
<1>2. \A c : Backup(c).there /\ Backup(c).whole /\ Backup(c).of = c
  BY DEF Backup
<1>3. \A i, c, d : /\ Journal(i, c, d).there /\ Journal(i, c, d).whole /\ Journal(i, c, d).ino = i
                   /\ Journal(i, c, d).original = c /\ Journal(i, c, d).new = d
  BY DEF Journal
<1> QED BY <1>1, <1>2, <1>3 DEF Journals

\* A journal that is there, and one that is whole.
LEMMA JournalKinds ==
  ASSUME NEW j \in {NoFile, Partial} \cup Journals
  PROVE  /\ j.there <=> j # NoFile
         /\ j.there /\ j.whole => j \in Journals
         /\ j \in Journals => /\ j.there /\ j.whole /\ j.ino \in Inodes /\ j.original \in Contents
                              /\ j.new \in Contents /\ j = Journal(j.ino, j.original, j.new)
<1>1. CASE j \in {NoFile, Partial}
  BY <1>1, FileKinds
<1>2. CASE j \in Journals
  <2>1. PICK i \in Inodes, c \in Contents, d \in Contents : j = Journal(i, c, d)
    BY <1>2 DEF Journals
  <2> QED BY <2>1, FileKinds
<1> QED BY <1>1, <1>2

\* Where a call may be.
LEMMA CallKinds ==
  ASSUME FileTyped, NEW c \in Calls
  PROVE  /\ call[c] = Ready <=> call[c].pc = "ready"
         /\ call[c] # Ready =>
              /\ call[c].fd \in Inodes /\ call[c].expected \in Contents \cup {Torn}
              /\ call[c].original \in Contents /\ call[c].new \in Contents
              /\ call[c] \in [pc : Writing \cup Cleaning \cup {"lock", "recover", "restore"},
                              fd : Inodes, expected : Contents \cup {Torn},
                              original : Contents, new : Contents]
<1>1. Ready.pc = "ready"
  BY DEF Ready
<1>2. PICK R : R = [pc : Writing \cup Cleaning \cup {"lock", "recover", "restore"},
                    fd : Inodes, expected : Contents \cup {Torn},
                    original : Contents, new : Contents]
  OBVIOUS
<1>3. call[c] = Ready \/ call[c] \in R
  BY <1>2 DEF FileTyped, CallStates
<1>4. \A r \in R : /\ r.pc \in Writing \cup Cleaning \cup {"lock", "recover", "restore"}
                   /\ r.fd \in Inodes /\ r.expected \in Contents \cup {Torn}
                   /\ r.original \in Contents /\ r.new \in Contents
  BY <1>2
<1>5. \A r \in R : r.pc # "ready"
  BY <1>4 DEF Writing, Cleaning
<1> QED BY <1>1, <1>2, <1>3, <1>4, <1>5

\* A call that goes to another place and keeps the rest.
LEMMA GotoCall ==
  ASSUME FileTyped, NEW c \in Calls, call[c] # Ready, NEW p, Goto(c, p)
  PROVE  /\ call'[c].pc = p /\ call'[c].fd = call[c].fd /\ call'[c].expected = call[c].expected
         /\ call'[c].original = call[c].original /\ call'[c].new = call[c].new
         /\ \A d \in Calls : d # c => call'[d] = call[d]
         /\ p \in Writing \cup Cleaning \cup {"lock", "recover", "restore"} =>
              call' \in [Calls -> CallStates]
<1>1. call' = [call EXCEPT ![c].pc = p] /\ call \in [Calls -> CallStates]
  BY DEF Goto, FileTyped
<1>2. PICK r : r = call[c]
  OBVIOUS
<1>3. r \in [pc : Writing \cup Cleaning \cup {"lock", "recover", "restore"},
             fd : Inodes, expected : Contents \cup {Torn}, original : Contents, new : Contents]
  BY <1>2, CallKinds
<1> DEFINE q == [r EXCEPT !.pc = p]
<1>4. /\ q.pc = p /\ q.fd = r.fd /\ q.expected = r.expected /\ q.original = r.original /\ q.new = r.new
      /\ p \in Writing \cup Cleaning \cup {"lock", "recover", "restore"} => q \in CallStates
  <2>1. q.pc = p /\ q.fd = r.fd /\ q.expected = r.expected /\ q.original = r.original /\ q.new = r.new
    BY <1>3
  <2>2. ASSUME p \in Writing \cup Cleaning \cup {"lock", "recover", "restore"} PROVE q \in CallStates
    BY <1>3, <2>2 DEF CallStates
  <2> QED BY <2>1, <2>2
<1>5. call' = [call EXCEPT ![c] = q]
  BY <1>1, <1>2
<1> HIDE DEF q
<1>6. call'[c] = q /\ \A d \in Calls : d # c => call'[d] = call[d]
  BY <1>1, <1>5
<1>7. q \in CallStates => call' \in [Calls -> CallStates]
  BY <1>1, <1>5
<1> QED BY <1>2, <1>4, <1>6, <1>7

\* A holder that has not begun to write, or has ended, faces a target that is
\* not torn.
LEMMA NotTorn ==
  ASSUME FileInv, NEW c \in Calls, lock = c, call[c].pc \notin {"write", "restore"}
  PROVE  content[pathInode] # Torn
<1>1. FileTyped /\ HolderOK(call[c])
  BY DEF FileInv
<1>2. call[c] # Ready /\ call[c].pc \in {"backup", "journal", "sync"} \cup Cleaning
  BY <1>1, CallKinds DEF FileTyped, Writing, Ready
<1>3. call[c].fd \in Inodes /\ pathInode \in Inodes /\ call[c].original \in Contents
  BY <1>1, <1>2, CallKinds DEF FileTyped
<1>4. content[call[c].fd] # Torn
  BY <1>1, <1>2, <1>3, IntegrationAssumption DEF HolderOK, HolderContent, Torn
<1>5. call[c].fd = pathInode \/ pathInode > call[c].fd
  <2>1. call[c].fd <= pathInode
    BY <1>1 DEF HolderOK, HolderInode
  <2> QED BY <1>3, <2>1 DEF Inodes
<1> QED BY <1>1, <1>3, <1>4, <1>5 DEF HolderOK, HolderInode

\* A step that leaves the files alone.
LEMMA CallStep ==
  ASSUME FileInv, FileTyped', UNCHANGED <<pathInode, content, journal, backup, onDisk, outcomes>>,
         \A c \in Calls : call'[c].pc = "recover" =>
             /\ RecoveryOK(call'[c].fd, call'[c].original)
             /\ call'[c].fd <= pathInode
             /\ lock' # NoCall => call'[c].fd <= call'[lock'].fd,
         \A c \in Calls : lock' = c => HolderOK(call'[c])
  PROVE  FileInv'
<1>1. FilesOK'
  BY DEF FileInv, FilesOK, OutcomeStands, BackupSynced, JournalOK, RecoveryOK, Journals, Backup
<1>2. \A c \in Calls : WaiterOK(call[c])'
  BY DEF WaiterOK, RecoveryOK, BackupSynced
<1>3. ASSUME NEW c \in Calls, lock' = c PROVE HolderOK(call[c])'
  <2>1. PICK r : r = call'[c] /\ HolderOK(r)
    BY <1>3
  <2>2. /\ pathInode' = pathInode /\ content' = content /\ journal' = journal
        /\ BackupSynced' = BackupSynced /\ backup' = backup /\ onDisk' = onDisk
        /\ outcomes' = outcomes
    BY DEF BackupSynced
  <2>3. HolderInode(r)'
    BY <2>1, <2>2 DEF HolderOK, HolderInode, Journals
  <2>4. HolderFiles(r)'
    BY <2>1, <2>2 DEF HolderOK, HolderFiles, BackupSynced
  <2>5. HolderContent(r)'
    BY <2>1, <2>2 DEF HolderOK, HolderContent
  <2> QED BY <2>1, <2>3, <2>4, <2>5, ZenonT(60) DEF HolderOK, HolderInode, HolderFiles, HolderContent
<1> QED BY <1>1, <1>2, <1>3 DEF FileInv

\* A call that returns without having touched a file.
LEMMA ReturnsStep ==
  ASSUME FileInv, NEW c \in Calls, call[c] # Ready, Returns(c),
         UNCHANGED <<pathInode, content, journal, backup, onDisk, outcomes>>,
         integrations' \in 0 .. MaxIntegrations, troubles' \in 0 .. MaxTroubles
  PROVE  FileInv'
<1>1. FileTyped
  BY DEF FileInv
<1>2. /\ call'[c] = Ready /\ \A d \in Calls : d # c => call'[d] = call[d]
      /\ lock' = IF lock = c THEN NoCall ELSE lock
  BY <1>1 DEF Returns, FileTyped
<1>3. call' \in [Calls -> CallStates]
  BY <1>1 DEF Returns, FileTyped, CallStates
<1>4. Ready.pc = "ready"
  BY DEF Ready
<1>5. FileTyped'
  <2>1. \A d \in Calls : (lock' = d) <=> call'[d].pc \notin {"ready", "lock", "recover"}
    BY <1>1, <1>2, <1>4, IntegrationAssumption DEF FileTyped
  <2>2. lock' \in Calls \cup {NoCall}
    BY <1>1, <1>2 DEF FileTyped
  <2> QED BY <1>1, <1>3, <2>1, <2>2 DEF FileTyped, CallStates, Journals, Backups, Inodes, Ready
<1>6. \A d \in Calls : call'[d].pc = "recover" =>
             /\ RecoveryOK(call'[d].fd, call'[d].original)
             /\ call'[d].fd <= pathInode
             /\ lock' # NoCall => call'[d].fd <= call'[lock'].fd
  <2> SUFFICES ASSUME NEW d \in Calls, call'[d].pc = "recover"
               PROVE  /\ RecoveryOK(call'[d].fd, call'[d].original)
                      /\ call'[d].fd <= pathInode
                      /\ lock' # NoCall => call'[d].fd <= call'[lock'].fd
    OBVIOUS
  <2>1. call'[d] = call[d] /\ WaiterOK(call[d]) /\ call[d].pc = "recover"
    BY <1>2, <1>4 DEF FileInv
  <2>2. lock' # NoCall => lock' = lock /\ lock # c /\ lock \in Calls
    BY <1>1, <1>2 DEF FileTyped
  <2> QED BY <1>2, <2>1, <2>2 DEF WaiterOK
<1>7. \A d \in Calls : lock' = d => HolderOK(call'[d])
  BY <1>2, IntegrationAssumption DEF FileInv
<1> QED BY <1>5, <1>6, <1>7, CallStep

\* A file that a journal describes is not one of the future, so a holder whose
\* inode was replaced faces a target that nobody has begun to write.
LEMMA HolderTarget ==
  ASSUME FileInv, NEW c \in Calls, lock = c
  PROVE  /\ call[c] # Ready /\ call[c].fd \in Inodes /\ pathInode \in Inodes
         /\ call[c].original \in Contents /\ call[c].new \in Contents
         /\ call[c].fd = pathInode \/ content[pathInode] # Torn
         /\ call[c].fd <= pathInode
         /\ Torn \notin Contents
<1>1. FileTyped /\ HolderOK(call[c])
  BY DEF FileInv
<1>2. call[c] # Ready
  BY <1>1 DEF FileTyped, Ready
<1>3. /\ call[c].fd \in Inodes /\ pathInode \in Inodes
      /\ call[c].original \in Contents /\ call[c].new \in Contents
  BY <1>1, <1>2, CallKinds DEF FileTyped
<1>4. call[c].fd = pathInode \/ pathInode > call[c].fd
  BY <1>1, <1>3 DEF HolderOK, HolderInode, Inodes
<1>5. Torn \notin Contents
  BY IntegrationAssumption DEF Torn
<1>6. call[c].fd <= pathInode /\ (pathInode > call[c].fd => content[pathInode] # Torn)
  BY <1>1, <1>3 DEF HolderOK, HolderInode
<1> QED BY <1>2, <1>3, <1>4, <1>5, <1>6

\* A step of the holder of the lock, which keeps the lock.
LEMMA HolderStep ==
  ASSUME FileInv, NEW c \in Calls, lock = c, lock' = c, call' \in [Calls -> CallStates],
         call'[c].pc \notin {"ready", "lock", "recover"}, call'[c].fd = call[c].fd,
         \A d \in Calls : d # c => call'[d] = call[d],
         pathInode' = pathInode, content' \in [Inodes -> Contents \cup {Torn}],
         outcomes' \in [Inodes -> SUBSET (Contents \cup {Torn})],
         journal' \in {NoFile, Partial} \cup Journals,
         backup' \in {NoFile, Partial} \cup Backups,
         onDisk' \in [journal : {NoFile, Partial} \cup Journals, backup : {NoFile, Partial} \cup Backups],
         integrations' \in 0 .. MaxIntegrations, troubles' \in 0 .. MaxTroubles,
         FilesOK', HolderOK(call[c])',
         ASSUME NEW o \in Contents, backup' = Backup(o), call[c].fd = pathInode,
                backup = Backup(o) =>
                    o \in outcomes[pathInode] /\ (content[pathInode] = o \/ BackupSynced)
         PROVE  o \in outcomes'[pathInode] /\ (content'[pathInode] = o \/ onDisk'.backup = backup')
  PROVE  FileInv'
<1>1. FileTyped
  BY DEF FileInv
<1>2. FileTyped'
  <2>1. \A d \in Calls : (lock' = d) <=> call'[d].pc \notin {"ready", "lock", "recover"}
    BY <1>1 DEF FileTyped
  <2>2. pathInode' \in Inodes /\ lock' \in Calls \cup {NoCall}
    BY <1>1 DEF FileTyped
  <2> QED BY <2>1, <2>2 DEF FileTyped, CallStates, Journals, Backups, Inodes, Ready
<1>3. ASSUME NEW d \in Calls, call'[d].pc = "recover" PROVE WaiterOK(call[d])'
  <2>1. d # c /\ call'[d] = call[d]
    BY <1>3
  <2>2. PICK w : w = call[d]
    OBVIOUS
  <2>3. WaiterOK(w) /\ w.pc = "recover"
    BY <1>3, <2>1, <2>2 DEF FileInv
  <2>4. w # Ready
    BY <2>3 DEF Ready
  <2>5. w.fd \in Inodes /\ w.original \in Contents
    BY <1>1, <2>2, <2>4, CallKinds
  <2>6. w.fd <= pathInode /\ w.fd <= call[c].fd /\ RecoveryOK(w.fd, w.original)
    BY <2>3, IntegrationAssumption DEF WaiterOK
  <2>7. ASSUME w.fd = pathInode, backup' = Backup(w.original)
        PROVE  w.original \in outcomes'[w.fd] /\ (content'[w.fd] = w.original \/ onDisk'.backup = backup')
    <3>1. call[c].fd = pathInode
      BY <2>5, <2>6, <2>7, HolderTarget DEF Inodes
    <3>2. backup = Backup(w.original) =>
            /\ w.original \in outcomes[pathInode]
            /\ content[pathInode] = w.original \/ BackupSynced
      BY <2>6, <2>7 DEF RecoveryOK
    <3> QED BY <2>5, <2>7, <3>1, <3>2
  <2>8. RecoveryOK(w.fd, w.original)'
    BY <2>7 DEF RecoveryOK, BackupSynced, Backup
  <2>9. call'[d] = w /\ w.fd <= pathInode' /\ lock' = c /\ w.fd <= call'[c].fd
    BY <2>1, <2>2, <2>6
  <2> QED BY <2>8, <2>9 DEF WaiterOK, RecoveryOK, BackupSynced, Backup
<1>4. \A d \in Calls : WaiterOK(call[d])'
  BY <1>3 DEF WaiterOK
<1>5. \A d \in Calls : lock' = d => HolderOK(call[d])'
  OBVIOUS
<1> QED BY <1>2, <1>4, <1>5 DEF FileInv

LEMMA IntegrateStep ==
  ASSUME FileInv, NEW c \in Calls, NEW new \in Contents, Integrate(c, new)
  PROVE  FileInv'
<1>1. FileTyped /\ call[c] = Ready
  BY DEF FileInv, Integrate, Working
<1> DEFINE r == [pc |-> "lock", fd |-> pathInode, expected |-> content[pathInode],
                 original |-> content[pathInode], new |-> new]
<1>2. /\ r.pc = "lock" /\ r \in CallStates
  BY <1>1 DEF FileTyped, CallStates, Integrate
<1>3. call' = [call EXCEPT ![c] = r]
  BY DEF Integrate
<1> HIDE DEF r
<1>4. call'[c].pc = "lock" /\ call' \in [Calls -> CallStates] /\ \A d \in Calls : d # c => call'[d] = call[d]
  BY <1>1, <1>2, <1>3 DEF FileTyped
<1>5. lock # c /\ lock' = lock
  BY <1>1 DEF FileTyped, Ready, Integrate
<1>6. UNCHANGED <<pathInode, content, journal, backup, onDisk, outcomes, troubles>>
  BY DEF Integrate, fileVars
<1>7. integrations' \in 0 .. MaxIntegrations
  BY <1>1, IntegrationAssumption DEF Integrate, FileTyped
<1>8. FileTyped'
  BY <1>1, <1>4, <1>5, <1>6, <1>7 DEF FileTyped, CallStates, Journals, Backups, Inodes, Ready
<1>9. \A d \in Calls : call'[d].pc = "recover" =>
             /\ RecoveryOK(call'[d].fd, call'[d].original)
             /\ call'[d].fd <= pathInode
             /\ lock' # NoCall => call'[d].fd <= call'[lock'].fd
  <2> SUFFICES ASSUME NEW d \in Calls, call'[d].pc = "recover"
               PROVE  /\ RecoveryOK(call'[d].fd, call'[d].original)
                      /\ call'[d].fd <= pathInode
                      /\ lock' # NoCall => call'[d].fd <= call'[lock'].fd
    OBVIOUS
  <2>1. call'[d] = call[d] /\ WaiterOK(call[d]) /\ call[d].pc = "recover"
    BY <1>4 DEF FileInv
  <2>2. lock' # NoCall => lock' = lock /\ lock # c /\ lock \in Calls
    BY <1>1, <1>5 DEF FileTyped
  <2> QED BY <1>4, <2>1, <2>2 DEF WaiterOK
<1>10. \A d \in Calls : lock' = d => HolderOK(call'[d])
  BY <1>4, <1>5 DEF FileInv
<1> QED BY <1>6, <1>8, <1>9, <1>10, CallStep

LEMMA RecoverStep ==
  ASSUME FileInv, NEW c \in Calls, Recover(c)
  PROVE  FileInv'
<1>1. FileTyped /\ call[c] = Ready
  BY DEF FileInv, Recover, Working
<1>2. journal \in Journals
  BY <1>1, JournalKinds DEF FileTyped, Recover
<1>3. journal.ino \in Inodes /\ journal.original \in Contents /\ journal.new \in Contents
  BY <1>1, <1>2, JournalKinds DEF FileTyped
<1> DEFINE r == [pc |-> "recover", fd |-> journal.ino, expected |-> Torn,
                 original |-> journal.original, new |-> journal.new]
<1>4. r.pc = "recover" /\ r \in CallStates /\ r.fd = journal.ino /\ r.original = journal.original
  BY <1>3 DEF CallStates
<1>5. call' = [call EXCEPT ![c] = r]
  BY DEF Recover
<1> HIDE DEF r
<1>6. call'[c] = r /\ call' \in [Calls -> CallStates] /\ \A d \in Calls : d # c => call'[d] = call[d]
  BY <1>1, <1>4, <1>5 DEF FileTyped
<1>7. lock # c /\ lock' = lock
  BY <1>1 DEF FileTyped, Ready, Recover
<1>8. UNCHANGED <<pathInode, content, journal, backup, onDisk, outcomes, integrations, troubles>>
  BY DEF Recover, fileVars
<1>9. FileTyped'
  BY <1>1, <1>4, <1>6, <1>7, <1>8 DEF FileTyped, CallStates, Journals, Backups, Inodes, Ready
<1>10. \A d \in Calls : call'[d].pc = "recover" =>
             /\ RecoveryOK(call'[d].fd, call'[d].original)
             /\ call'[d].fd <= pathInode
             /\ lock' # NoCall => call'[d].fd <= call'[lock'].fd
  <2> SUFFICES ASSUME NEW d \in Calls, call'[d].pc = "recover"
               PROVE  /\ RecoveryOK(call'[d].fd, call'[d].original)
                      /\ call'[d].fd <= pathInode
                      /\ lock' # NoCall => call'[d].fd <= call'[lock'].fd
    OBVIOUS
  <2>1. lock' # NoCall => lock' = lock /\ lock # c /\ lock \in Calls /\ call'[lock] = call[lock]
    BY <1>1, <1>6, <1>7 DEF FileTyped
  <2>2. CASE d = c
    <3>1. call'[d].fd = journal.ino /\ call'[d].original = journal.original
      BY <1>4, <1>6, <2>2
    <3>2. RecoveryOK(journal.ino, journal.original) /\ journal.ino <= pathInode
      BY <1>2 DEF FileInv, FilesOK, JournalOK
    <3>3. lock' # NoCall => journal.ino <= call'[lock'].fd
      BY <1>2, <2>1 DEF FileInv, HolderOK, HolderInode
    <3> QED BY <3>1, <3>2, <3>3
  <2>3. CASE d # c
    <3>1. call'[d] = call[d] /\ WaiterOK(call[d]) /\ call[d].pc = "recover"
      BY <1>6, <2>3 DEF FileInv
    <3> QED BY <2>1, <3>1 DEF WaiterOK
  <2> QED BY <2>2, <2>3
<1>11. \A d \in Calls : lock' = d => HolderOK(call'[d])
  BY <1>6, <1>7 DEF FileInv
<1> QED BY <1>8, <1>9, <1>10, <1>11, CallStep

\* The call that takes the lock, which nobody holds.
LEMMA LockStep ==
  ASSUME FileInv, NEW c \in Calls, lock = NoCall, lock' = c, NEW r \in CallStates,
         call' = [call EXCEPT ![c] = r],
         r.pc \notin {"ready", "lock", "recover"}, r.fd = pathInode, HolderOK(r),
         UNCHANGED <<pathInode, content, journal, backup, onDisk, outcomes, integrations, troubles>>
  PROVE  FileInv'
<1>1. FileTyped
  BY DEF FileInv
<1>2. call'[c] = r /\ call' \in [Calls -> CallStates] /\ \A d \in Calls : d # c => call'[d] = call[d]
  BY <1>1 DEF FileTyped
<1>3. FileTyped'
  <2>1. \A d \in Calls : (lock' = d) <=> call'[d].pc \notin {"ready", "lock", "recover"}
    BY <1>1, <1>2, IntegrationAssumption DEF FileTyped
  <2> QED BY <1>1, <1>2, <2>1 DEF FileTyped, CallStates, Journals, Backups, Inodes, Ready
<1>4. \A d \in Calls : call'[d].pc = "recover" =>
             /\ RecoveryOK(call'[d].fd, call'[d].original)
             /\ call'[d].fd <= pathInode
             /\ lock' # NoCall => call'[d].fd <= call'[lock'].fd
  <2> SUFFICES ASSUME NEW d \in Calls, call'[d].pc = "recover"
               PROVE  /\ RecoveryOK(call'[d].fd, call'[d].original)
                      /\ call'[d].fd <= pathInode
                      /\ lock' # NoCall => call'[d].fd <= call'[lock'].fd
    OBVIOUS
  <2>1. call'[d] = call[d] /\ WaiterOK(call[d]) /\ call[d].pc = "recover"
    BY <1>2 DEF FileInv
  <2> QED BY <1>2, <2>1 DEF WaiterOK
<1>5. \A d \in Calls : lock' = d => HolderOK(call'[d])
  BY <1>2
<1> QED BY <1>3, <1>4, <1>5, CallStep

\* An integration that takes the lock finds the expected content, and neither a
\* journal nor a backup: the target is whole.
LEMMA TakeLockStep ==
  ASSUME FileInv, NEW c \in Calls, TakeLock(c)
  PROVE  FileInv'
<1>1. FileTyped /\ FilesOK /\ call[c].pc = "lock" /\ lock = NoCall
  BY DEF FileInv, TakeLock, At, Lockable
<1>2. PICK r : r = call[c]
  OBVIOUS
<1>3. call[c] # Ready
  BY <1>1 DEF Ready
<1>4. r \in [pc : Writing \cup Cleaning \cup {"lock", "recover", "restore"},
             fd : Inodes, expected : Contents \cup {Torn}, original : Contents, new : Contents]
  BY <1>1, <1>2, <1>3, CallKinds
<1>5. UNCHANGED <<pathInode, content, journal, backup, onDisk, outcomes, integrations, troubles>>
  BY DEF TakeLock, fileVars
<1>6. CASE ~journal.there /\ SameAsExpected(c) /\ ~backup.there
  <2>1. PICK p, o : p = pathInode /\ o = content[pathInode]
    OBVIOUS
  <2>2. journal = NoFile /\ backup \in {NoFile, Partial}
    BY <1>1, <1>6, JournalKinds, FileKinds DEF FileTyped, Backups
  <2>3. o # Torn
    BY <1>1, <1>6, <2>1, FileKinds DEF FilesOK
  <2>4. p \in Inodes /\ o \in Contents /\ o = r.expected /\ o \in outcomes[p]
    BY <1>1, <1>2, <1>6, <2>1, <2>3 DEF FileTyped, FilesOK, OutcomeStands, SameAsExpected
  <2> DEFINE q == [[[r EXCEPT !.pc = "backup"] EXCEPT !.fd = p] EXCEPT !.original = o]
  <2>5. /\ q.pc = "backup" /\ q.fd = p /\ q.original = o /\ q.expected = r.expected
        /\ q \in CallStates
    BY <1>4, <2>4 DEF CallStates, Writing
  <2>6. call' = [call EXCEPT ![c].pc = "backup", ![c].fd = pathInode,
                             ![c].original = content[pathInode]] /\ lock' = c
    BY <1>6 DEF TakeLock
  <2>7. call' = [call EXCEPT ![c] = q]
    BY <1>1, <1>2, <2>1, <2>6 DEF FileTyped
  <2> HIDE DEF q
  <2>8. HolderInode(q)
    <3>1. \A i \in Inodes : i > pathInode => content[i] # Torn
      BY <1>1 DEF FilesOK
    <3> QED BY <2>1, <2>2, <2>4, <2>5, <3>1, FileKinds DEF HolderInode, Inodes
  <2>9. HolderFiles(q)
    BY <2>2, <2>5 DEF HolderFiles
  <2>10. HolderContent(q)
    BY <2>1, <2>4, <2>5 DEF HolderContent, Cleaning
  <2> QED BY <1>1, <1>5, <2>1, <2>5, <2>6, <2>7, <2>8, <2>9, <2>10, LockStep DEF HolderOK
<1>7. CASE ~(~journal.there /\ SameAsExpected(c) /\ ~backup.there)
  <2>1. Returns(c)
    BY <1>7 DEF TakeLock
  <2> QED BY <1>1, <1>3, <1>5, <2>1, ReturnsStep DEF FileTyped
<1> QED BY <1>6, <1>7

\* A recovery that takes the lock finds the inode of its journal, and a content
\* that needs no repair or the backup of an outcome, which is on disk.
LEMMA RecoverOneStep ==
  ASSUME FileInv, NEW c \in Calls, RecoverOne(c)
  PROVE  FileInv'
<1>1. FileTyped /\ FilesOK /\ call[c].pc = "recover" /\ lock = NoCall /\ WaiterOK(call[c])
  BY DEF FileInv, RecoverOne, At, Lockable
<1>2. PICK r : r = call[c]
  OBVIOUS
<1>3. call[c] # Ready
  BY <1>1 DEF Ready
<1>4. r \in [pc : Writing \cup Cleaning \cup {"lock", "recover", "restore"},
             fd : Inodes, expected : Contents \cup {Torn}, original : Contents, new : Contents]
  BY <1>1, <1>2, <1>3, CallKinds
<1>5. UNCHANGED <<pathInode, content, journal, backup, onDisk, outcomes, integrations, troubles>>
  BY DEF RecoverOne, fileVars
<1>6. CASE pathInode = call[c].fd /\ (Finished(c) \/ Restorable(c))
  <2>1. PICK p : p = IF Finished(c) THEN "unlink journal" ELSE "restore"
    OBVIOUS
  <2>2. PICK o : o = IF Finished(c) THEN r.original ELSE backup.of
    OBVIOUS
  <2>3. r.original \in Contents /\ r.new \in Contents /\ r.fd \in Inodes
    BY <1>4
  <2>4. ~Finished(c) => backup = Backup(r.original)
    BY <1>2, <1>6 DEF Restorable
  <2>5. o = r.original
    BY <2>2, <2>4, FileKinds
  <2> DEFINE q == [[r EXCEPT !.pc = p] EXCEPT !.original = o]
  <2>6. /\ q.pc = p /\ q.fd = r.fd /\ q.original = r.original
        /\ q \in CallStates
    BY <1>4, <2>1, <2>5 DEF CallStates, Cleaning
  <2>7. call' = [call EXCEPT ![c].pc = IF Finished(c) THEN "unlink journal" ELSE "restore",
                             ![c].original = IF Finished(c) THEN @ ELSE backup.of] /\ lock' = c
    BY <1>6 DEF RecoverOne
  <2>8. call' = [call EXCEPT ![c] = q]
    BY <1>1, <1>2, <1>4, <2>1, <2>2, <2>7 DEF FileTyped
  <2> HIDE DEF q
  <2>9. r.fd = pathInode
    BY <1>2, <1>6
  <2>10. HolderInode(q)
    <3>1. \A i \in Inodes : i > pathInode => content[i] # Torn
      BY <1>1 DEF FilesOK
    <3>2. journal \in Journals => journal.ino <= pathInode
      BY <1>1 DEF FilesOK, JournalOK
    <3> QED BY <2>3, <2>6, <2>9, <3>1, <3>2 DEF HolderInode, Inodes
  <2>11. p = "restore" =>
           backup = Backup(r.original) /\ BackupSynced /\ r.original \in outcomes[r.fd]
    <3>1. ASSUME p = "restore" PROVE ~Finished(c)
      BY <2>1, <3>1
    <3>2. ASSUME ~Finished(c) PROVE content[pathInode] # r.original
      BY <1>2, <3>2 DEF Finished
    <3>3. RecoveryOK(r.fd, r.original)
      BY <1>1, <1>2 DEF WaiterOK
    <3> QED BY <2>4, <2>9, <3>1, <3>2, <3>3 DEF RecoveryOK
  <2>12. p = "unlink journal" => content[r.fd] # Torn
    <3>1. ASSUME p = "unlink journal" PROVE content[pathInode] \in {r.new, r.original}
      BY <1>2, <2>1, <3>1 DEF Finished
    <3> QED BY <2>3, <2>9, <3>1, IntegrationAssumption DEF Torn
  <2>13. p \in {"restore", "unlink journal"}
    BY <2>1
  <2>14. HolderFiles(q)
    BY <2>6, <2>11, <2>13 DEF HolderFiles
  <2>15. HolderContent(q)
    BY <2>6, <2>11, <2>12, <2>13 DEF HolderContent, Writing, Cleaning
  <2>16. q.pc \notin {"ready", "lock", "recover"} /\ q.fd = pathInode /\ HolderOK(q)
    BY <2>6, <2>9, <2>10, <2>13, <2>14, <2>15 DEF HolderOK
  <2> QED BY <1>1, <1>5, <2>6, <2>7, <2>8, <2>16, LockStep
<1>7. CASE ~(pathInode = call[c].fd /\ (Finished(c) \/ Restorable(c)))
  <2>1. Returns(c)
    BY <1>7 DEF RecoverOne
  <2> QED BY <1>1, <1>3, <1>5, <2>1, ReturnsStep DEF FileTyped
<1> QED BY <1>6, <1>7

LEMMA CrashStep ==
  ASSUME FileInv, NEW c \in Calls, Crash(c)
  PROVE  FileInv'
<1>1. call[c] # Ready /\ Returns(c) /\ FileTyped
  BY DEF Crash, Working, FileInv
<1>2. UNCHANGED <<pathInode, content, journal, backup, onDisk, outcomes, integrations>>
  BY DEF Crash, fileVars
<1>3. troubles' \in 0 .. MaxTroubles
  BY <1>1, IntegrationAssumption DEF Crash, Trouble, FileTyped
<1> QED BY <1>1, <1>2, <1>3, ReturnsStep DEF FileTyped

\* The path names an inode that no call and no journal knows.
LEMMA ReplaceTargetStep ==
  ASSUME FileInv, ReplaceTarget
  PROVE  FileInv'
<1>1. FileTyped /\ FilesOK
  BY DEF FileInv
<1>2. /\ pathInode \in Inodes /\ pathInode' \in Inodes /\ pathInode' = pathInode + 1
      /\ troubles' \in 0 .. MaxTroubles
  BY <1>1, IntegrationAssumption DEF ReplaceTarget, Trouble, FileTyped, Inodes
<1>3. /\ content' = content /\ journal' = journal /\ backup' = backup /\ onDisk' = onDisk
      /\ lock' = lock /\ call' = call /\ integrations' = integrations /\ outcomes' = outcomes
  BY DEF ReplaceTarget
<1>4. FileTyped'
  BY <1>1, <1>2, <1>3 DEF FileTyped, CallStates, Journals, Backups, Inodes, Ready
<1>5. \A i \in Inodes : (i <= pathInode => i <= pathInode' /\ i # pathInode')
                        /\ (i > pathInode' => i > pathInode)
  BY <1>2 DEF Inodes
<1>6. \A j \in Journals : j.ino \in Inodes
  BY JournalKinds
<1>7. pathInode' > pathInode /\ \A i \in Inodes : i > pathInode' => i > pathInode
  BY <1>2 DEF Inodes
<1>8. FilesOK'
  <2>1. OutcomeStands'
    BY <1>1, <1>3 DEF FilesOK, OutcomeStands, Inodes, Torn
  <2>2. content'[pathInode'] # Torn /\ \A i \in Inodes : i > pathInode' => content'[i] # Torn
    BY <1>1, <1>2, <1>3, <1>7 DEF FilesOK
  <2>3. JournalOK(journal)' /\ JournalOK(onDisk.journal)'
    BY <1>1, <1>3, <1>5, <1>6 DEF FilesOK, JournalOK, Journals
  <2>4. journal' \in Journals => journal'.ino # pathInode'
    BY <1>1, <1>3, <1>5, <1>6 DEF FilesOK, JournalOK
  <2>5. (journal \in Journals => RecoveryOK(journal.ino, journal.original))'
    BY <2>4 DEF RecoveryOK, Journals
  <2> QED BY <2>1, <2>2, <2>3, <2>5 DEF FilesOK
<1>9. ASSUME NEW d \in Calls PROVE WaiterOK(call[d])'
  <2>1. CASE call[d].pc = "recover"
    <3>1. call[d] # Ready /\ WaiterOK(call[d])
      BY <2>1 DEF Ready, FileInv
    <3>2. call[d].fd \in Inodes /\ call[d].fd <= pathInode /\ (lock # NoCall => call[d].fd <= call[lock].fd)
      BY <1>1, <2>1, <3>1, CallKinds DEF WaiterOK
    <3>3. call'[d].fd # pathInode' /\ call'[d].fd <= pathInode'
      BY <1>3, <1>5, <3>2
    <3> QED BY <1>3, <3>2, <3>3 DEF WaiterOK, RecoveryOK
  <2>2. CASE call[d].pc # "recover"
    BY <1>3, <2>2 DEF WaiterOK
  <2> QED BY <2>1, <2>2
<1>10. ASSUME NEW d \in Calls, lock' = d PROVE HolderOK(call[d])'
  <2>1. PICK r : r = call[d] /\ r = call'[d] /\ HolderOK(r)
    BY <1>3, <1>10 DEF FileInv
  <2>2. r.fd \in Inodes
    BY <1>3, <1>10, <2>1, HolderTarget
  <2>3. HolderInode(r)'
    BY <1>3, <1>5, <2>1, <2>2 DEF HolderOK, HolderInode, Journals
  <2>4. HolderFiles(r)'
    BY <1>3, <2>1 DEF HolderOK, HolderFiles, BackupSynced
  <2>5. HolderContent(r)'
    BY <1>3, <2>1 DEF HolderOK, HolderContent
  <2> QED BY <2>1, <2>3, <2>4, <2>5, ZenonT(60) DEF HolderOK, HolderInode, HolderFiles, HolderContent
<1> QED BY <1>4, <1>8, <1>9, <1>10 DEF FileInv

\* Whatever the disk kept of the directory, it is the backup of a torn target
\* and a journal of an outcome.
LEMMA PowerLossStep ==
  ASSUME FileInv, PowerLoss
  PROVE  FileInv'
<1>1. FileTyped /\ FilesOK
  BY DEF FileInv
<1>2. /\ pathInode' = pathInode /\ content' = content /\ integrations' = integrations
      /\ outcomes' = outcomes /\ lock' = NoCall
  BY DEF PowerLoss
<1>3. \A c \in Calls : call'[c] = Ready
  BY DEF PowerLoss
<1>4. call' \in [Calls -> CallStates]
  BY DEF PowerLoss, CallStates
<1>5. troubles' \in 0 .. MaxTroubles
  BY <1>1, IntegrationAssumption DEF PowerLoss, Trouble, FileTyped
<1>6. /\ journal' \in {NoFile, Partial} \cup Journals /\ backup' \in {NoFile, Partial} \cup Backups
      /\ journal' \in {journal, onDisk.journal} /\ backup' \in {backup, onDisk.backup}
  BY <1>1 DEF PowerLoss, FileTyped
<1>7. onDisk' = [journal |-> journal', backup |-> backup']
  BY DEF PowerLoss
<1>8. onDisk'.journal = journal' /\ onDisk'.backup = backup'
      /\ onDisk' \in [journal : {NoFile, Partial} \cup Journals, backup : {NoFile, Partial} \cup Backups]
  BY <1>6, <1>7
<1>9. Ready.pc = "ready" /\ NoCall \notin Calls
  BY IntegrationAssumption DEF Ready
<1>10. FileTyped'
  <2>1. \A c \in Calls : (lock' = c) <=> call'[c].pc \notin {"ready", "lock", "recover"}
    BY <1>2, <1>3, <1>9
  <2> QED BY <1>1, <1>2, <1>4, <1>5, <1>6, <1>8, <2>1 DEF FileTyped, CallStates, Journals, Backups, Inodes, Ready
<1>11. FilesOK'
  <2>1. OutcomeStands' /\ \A i \in Inodes : i > pathInode' => content'[i] # Torn
    BY <1>1, <1>2 DEF FilesOK, OutcomeStands
  <2>2. content'[pathInode'] = Torn =>
          BackupSynced' /\ \E c \in outcomes'[pathInode'] : backup' = Backup(c)
    BY <1>1, <1>2, <1>6, <1>8 DEF FilesOK, BackupSynced
  <2>3. PICK j : j = journal'
    OBVIOUS
  <2>4. j \in Journals => j.original \in outcomes[j.ino] /\ j.ino <= pathInode
    BY <1>1, <1>6, <2>3 DEF FilesOK, JournalOK
  <2>5. JournalOK(j)'
    BY <1>2, <2>4 DEF JournalOK, Journals
  <2>6. JournalOK(journal)' /\ JournalOK(onDisk.journal)'
    BY <1>8, <2>3, <2>5 DEF JournalOK
  <2>7. j \in Journals => RecoveryOK(j.ino, j.original)'
    BY <1>2, <1>8, <2>4 DEF RecoveryOK, BackupSynced
  <2>8. (journal \in Journals => RecoveryOK(journal.ino, journal.original))'
    BY <2>3, <2>7 DEF RecoveryOK, Journals
  <2> QED BY <2>1, <2>2, <2>6, <2>8 DEF FilesOK
<1>12. \A c \in Calls : WaiterOK(call[c])'
  BY <1>3, <1>9 DEF WaiterOK
<1>13. \A c \in Calls : lock' # c
  BY <1>2, <1>9
<1> QED BY <1>10, <1>11, <1>12, <1>13 DEF FileInv

LEMMA WriteBackupStep ==
  ASSUME FileInv, NEW c \in Calls, WriteBackup(c)
  PROVE  FileInv'
<1>1. FileTyped /\ FilesOK /\ call[c].pc = "backup"
  BY DEF FileInv, WriteBackup, At
<1>2. lock = c
  BY <1>1 DEF FileTyped
<1>3. HolderOK(call[c]) /\ call[c] # Ready
  BY <1>2, HolderTarget DEF FileInv
<1>4. PICK r : r = call[c]
  OBVIOUS
<1>5. PICK p : p = IF backup.there THEN "journal" ELSE "backup"
  OBVIOUS
<1>6. Goto(c, p)
  BY <1>5 DEF WriteBackup
<1>7. /\ call'[c].pc = p /\ call'[c].fd = r.fd /\ call'[c].expected = r.expected
      /\ call'[c].original = r.original /\ call'[c].new = r.new
      /\ \A d \in Calls : d # c => call'[d] = call[d]
      /\ call' \in [Calls -> CallStates]
  BY <1>1, <1>3, <1>4, <1>5, <1>6, GotoCall DEF Writing
<1>8. /\ pathInode' = pathInode /\ content' = content /\ journal' = journal /\ onDisk' = onDisk
      /\ lock' = lock /\ integrations' = integrations /\ troubles' = troubles /\ outcomes' = outcomes
  BY DEF WriteBackup
<1>9. /\ r.fd \in Inodes /\ pathInode \in Inodes /\ r.original \in Contents /\ Torn \notin Contents
      /\ r.fd <= pathInode
  BY <1>2, <1>4, HolderTarget
<1>10. /\ journal = NoFile /\ r.original = r.expected /\ r.original \in outcomes[r.fd]
       /\ content[r.fd] = r.original /\ backup \in {NoFile, Partial}
  BY <1>1, <1>3, <1>4 DEF HolderOK, HolderFiles, HolderContent, Writing
<1>11. backup' = (IF backup.there THEN Backup(r.original) ELSE Partial)
       /\ (p = "journal" => backup' = Backup(r.original)) /\ (p = "backup" => backup' = Partial)
       /\ p \in {"journal", "backup"}
  BY <1>4, <1>5 DEF WriteBackup
<1>12. backup' \in {NoFile, Partial} \cup Backups
  BY <1>9, <1>11 DEF Backups
<1>13. content[pathInode] # Torn
  BY <1>1, <1>2, NotTorn
<1>14. FilesOK'
  <2>1. OutcomeStands' /\ \A i \in Inodes : i > pathInode' => content'[i] # Torn
    BY <1>1, <1>8 DEF FilesOK, OutcomeStands
  <2>2. JournalOK(onDisk.journal)'
    BY <1>1, <1>8 DEF FilesOK, JournalOK, Journals
  <2>3. journal' \notin Journals
    BY <1>8, <1>10, FileKinds
  <2> QED BY <1>8, <1>13, <2>1, <2>2, <2>3 DEF FilesOK, JournalOK
<1>15. HolderOK(call[c])'
  <2>1. HolderInode(call[c])'
    BY <1>3, <1>4, <1>7, <1>8 DEF HolderOK, HolderInode, Journals
  <2>2. HolderFiles(call[c])'
    BY <1>7, <1>8, <1>10, <1>11 DEF HolderFiles
  <2>3. HolderContent(call[c])'
    BY <1>7, <1>8, <1>10, <1>11 DEF HolderContent, Cleaning
  <2> QED BY <2>1, <2>2, <2>3 DEF HolderOK
<1>16. ASSUME NEW o \in Contents, backup' = Backup(o), call[c].fd = pathInode
       PROVE  o \in outcomes'[pathInode] /\ (content'[pathInode] = o \/ onDisk'.backup = backup')
  <2>1. o = r.original
    BY <1>11, <1>16, FileKinds
  <2> QED BY <1>4, <1>8, <1>10, <1>16, <2>1
<1>17. call'[c].pc \notin {"ready", "lock", "recover"} /\ call'[c].fd = call[c].fd /\ lock' = c
  BY <1>2, <1>4, <1>7, <1>8, <1>11
<1>18. /\ content' \in [Inodes -> Contents \cup {Torn}]
       /\ outcomes' \in [Inodes -> SUBSET (Contents \cup {Torn})]
       /\ journal' \in {NoFile, Partial} \cup Journals
       /\ onDisk' \in [journal : {NoFile, Partial} \cup Journals, backup : {NoFile, Partial} \cup Backups]
       /\ integrations' \in 0 .. MaxIntegrations /\ troubles' \in 0 .. MaxTroubles
  BY <1>1, <1>8 DEF FileTyped
<1> QED BY <1>2, <1>7, <1>8, <1>12, <1>14, <1>15, <1>16, <1>17, <1>18, HolderStep

LEMMA WriteJournalStep ==
  ASSUME FileInv, NEW c \in Calls, WriteJournal(c)
  PROVE  FileInv'
<1>1. FileTyped /\ FilesOK /\ call[c].pc = "journal"
  BY DEF FileInv, WriteJournal, At
<1>2. lock = c
  BY <1>1 DEF FileTyped
<1>3. HolderOK(call[c]) /\ call[c] # Ready
  BY <1>2, HolderTarget DEF FileInv
<1>4. PICK r : r = call[c]
  OBVIOUS
<1>5. PICK p : p = IF journal.there THEN "sync" ELSE "journal"
  OBVIOUS
<1>6. Goto(c, p)
  BY <1>5 DEF WriteJournal
<1>7. /\ call'[c].pc = p /\ call'[c].fd = r.fd /\ call'[c].expected = r.expected
      /\ call'[c].original = r.original /\ call'[c].new = r.new
      /\ \A d \in Calls : d # c => call'[d] = call[d]
      /\ call' \in [Calls -> CallStates]
  BY <1>1, <1>3, <1>4, <1>5, <1>6, GotoCall DEF Writing
<1>8. /\ pathInode' = pathInode /\ content' = content /\ backup' = backup /\ onDisk' = onDisk
      /\ lock' = lock /\ integrations' = integrations /\ troubles' = troubles /\ outcomes' = outcomes
  BY DEF WriteJournal
<1>9. /\ r.fd \in Inodes /\ pathInode \in Inodes /\ r.original \in Contents /\ r.new \in Contents
      /\ Torn \notin Contents /\ r.fd <= pathInode
  BY <1>2, <1>4, HolderTarget
<1>10. /\ r.original = r.expected /\ r.original \in outcomes[r.fd]
       /\ content[r.fd] = r.original /\ backup = Backup(r.original)
  BY <1>1, <1>3, <1>4 DEF HolderOK, HolderFiles, HolderContent, Writing
<1>11. PICK J : J = Journal(r.fd, r.original, r.new)
  OBVIOUS
<1>12. J \in Journals /\ J.ino = r.fd /\ J.original = r.original
  BY <1>9, <1>11, FileKinds DEF Journals
<1>13. /\ journal' = (IF journal.there THEN J ELSE Partial)
       /\ p = "sync" => journal' = J
       /\ p = "journal" => journal' = Partial
       /\ p \in {"sync", "journal"}
  BY <1>4, <1>5, <1>11 DEF WriteJournal
<1>14. journal' \in {NoFile, Partial} \cup Journals
  BY <1>12, <1>13
<1>15. content[pathInode] # Torn
  BY <1>1, <1>2, NotTorn
<1>16. FilesOK'
  <2>1. OutcomeStands' /\ \A i \in Inodes : i > pathInode' => content'[i] # Torn
    BY <1>1, <1>8 DEF FilesOK, OutcomeStands
  <2>2. JournalOK(onDisk.journal)'
    BY <1>1, <1>8 DEF FilesOK, JournalOK, Journals
  <2>3. journal' \in Journals => journal' = J
    BY <1>13, FileKinds
  <2>4. JournalOK(journal)'
    BY <1>8, <1>9, <1>10, <1>12, <2>3 DEF JournalOK, Journals
  <2>5. RecoveryOK(J.ino, J.original)'
    BY <1>8, <1>10, <1>12 DEF RecoveryOK
  <2>6. (journal \in Journals => RecoveryOK(journal.ino, journal.original))'
    BY <2>3, <2>5 DEF RecoveryOK, Journals
  <2> QED BY <1>8, <1>15, <2>1, <2>2, <2>4, <2>6 DEF FilesOK
<1>17. HolderOK(call[c])'
  <2>1. HolderInode(call[c])'
    <3>1. \A i \in Inodes : i > r.fd => content[i] # Torn
      BY <1>3, <1>4 DEF HolderOK, HolderInode
    <3>2. journal' \in Journals => journal'.ino <= r.fd
      BY <1>9, <1>12, <1>13, FileKinds DEF Inodes
    <3> QED BY <1>7, <1>8, <1>9, <3>1, <3>2 DEF HolderInode, Journals
  <2>2. HolderFiles(call[c])'
    BY <1>7, <1>8, <1>10, <1>11, <1>13 DEF HolderFiles
  <2>3. HolderContent(call[c])'
    BY <1>7, <1>8, <1>10, <1>13 DEF HolderContent, Cleaning
  <2> QED BY <2>1, <2>2, <2>3 DEF HolderOK
<1>18. call'[c].pc \notin {"ready", "lock", "recover"} /\ call'[c].fd = call[c].fd /\ lock' = c
  BY <1>2, <1>4, <1>7, <1>8, <1>13
<1>19. /\ content' \in [Inodes -> Contents \cup {Torn}]
       /\ outcomes' \in [Inodes -> SUBSET (Contents \cup {Torn})]
       /\ backup' \in {NoFile, Partial} \cup Backups
       /\ onDisk' \in [journal : {NoFile, Partial} \cup Journals, backup : {NoFile, Partial} \cup Backups]
       /\ integrations' \in 0 .. MaxIntegrations /\ troubles' \in 0 .. MaxTroubles
  BY <1>1, <1>8 DEF FileTyped
<1> QED BY <1>2, <1>7, <1>8, <1>14, <1>16, <1>17, <1>18, <1>19, HolderStep DEF BackupSynced

LEMMA SyncJournalStep ==
  ASSUME FileInv, NEW c \in Calls, SyncJournal(c)
  PROVE  FileInv'
<1>1. FileTyped /\ FilesOK /\ call[c].pc = "sync"
  BY DEF FileInv, SyncJournal, At
<1>2. lock = c
  BY <1>1 DEF FileTyped
<1>3. HolderOK(call[c]) /\ call[c] # Ready
  BY <1>2, HolderTarget DEF FileInv
<1>4. PICK r : r = call[c]
  OBVIOUS
<1>5. /\ r.fd \in Inodes /\ pathInode \in Inodes /\ r.original \in Contents /\ r.new \in Contents
      /\ Torn \notin Contents /\ r.fd <= pathInode
      /\ r.fd = pathInode \/ content[pathInode] # Torn
  BY <1>2, <1>4, HolderTarget
<1>6. /\ call'[c].pc = "write" /\ call'[c].fd = r.fd /\ call'[c].expected = r.expected
      /\ call'[c].original = r.original /\ call'[c].new = r.new
      /\ \A d \in Calls : d # c => call'[d] = call[d]
      /\ call' \in [Calls -> CallStates]
  <2>1. Goto(c, "write")
    BY DEF SyncJournal
  <2> QED BY <1>1, <1>3, <1>4, <2>1, GotoCall DEF Writing, Cleaning
<1>7. /\ pathInode' = pathInode /\ content' = content /\ journal' = journal /\ backup' = backup
      /\ lock' = lock /\ integrations' = integrations /\ troubles' = troubles /\ outcomes' = outcomes
      /\ onDisk' = [journal |-> journal, backup |-> backup]
  BY DEF SyncJournal, Synced
<1>8. /\ onDisk'.journal = journal /\ onDisk'.backup = backup
      /\ onDisk' \in [journal : {NoFile, Partial} \cup Journals, backup : {NoFile, Partial} \cup Backups]
  BY <1>1, <1>7 DEF FileTyped
<1>9. /\ r.original = r.expected /\ r.original \in outcomes[r.fd] /\ content[r.fd] = r.original
      /\ backup = Backup(r.original) /\ journal = Journal(r.fd, r.original, r.new)
  BY <1>1, <1>3, <1>4 DEF HolderOK, HolderFiles, HolderContent, Writing
<1>10. content[pathInode] # Torn
  BY <1>1, <1>2, NotTorn
<1>11. FilesOK'
  <2>1. OutcomeStands' /\ \A i \in Inodes : i > pathInode' => content'[i] # Torn
    BY <1>1, <1>7 DEF FilesOK, OutcomeStands
  <2>2. JournalOK(journal)'
    BY <1>1, <1>7 DEF FilesOK, JournalOK, Journals
  <2>3. JournalOK(onDisk.journal)'
    BY <1>7, <1>8, <2>2 DEF JournalOK
  <2>4. (journal \in Journals => RecoveryOK(journal.ino, journal.original))'
    <3>1. journal \in Journals => journal.original \in outcomes[journal.ino]
      BY <1>1 DEF FilesOK, JournalOK
    <3> QED BY <1>7, <1>8, <3>1 DEF RecoveryOK, BackupSynced, Journals
  <2> QED BY <1>7, <1>10, <2>1, <2>2, <2>3, <2>4 DEF FilesOK
<1>12. HolderOK(call[c])'
  <2>1. HolderInode(call[c])'
    BY <1>3, <1>4, <1>6, <1>7 DEF HolderOK, HolderInode, Journals
  <2>2. HolderFiles(call[c])'
    BY <1>6, <1>7, <1>8, <1>9 DEF HolderFiles, BackupSynced
  <2>3. HolderContent(call[c])'
    BY <1>5, <1>6, <1>7, <1>9 DEF HolderContent, Cleaning
  <2> QED BY <2>1, <2>2, <2>3 DEF HolderOK
<1>13. ASSUME NEW o \in Contents, backup' = Backup(o), call[c].fd = pathInode,
              backup = Backup(o) =>
                    o \in outcomes[pathInode] /\ (content[pathInode] = o \/ BackupSynced)
       PROVE  o \in outcomes'[pathInode] /\ (content'[pathInode] = o \/ onDisk'.backup = backup')
  BY <1>7, <1>8, <1>13
<1>14. call'[c].pc \notin {"ready", "lock", "recover"} /\ call'[c].fd = call[c].fd /\ lock' = c
  BY <1>2, <1>4, <1>6, <1>7
<1>15. /\ content' \in [Inodes -> Contents \cup {Torn}]
       /\ outcomes' \in [Inodes -> SUBSET (Contents \cup {Torn})]
       /\ journal' \in {NoFile, Partial} \cup Journals
       /\ backup' \in {NoFile, Partial} \cup Backups
       /\ integrations' \in 0 .. MaxIntegrations /\ troubles' \in 0 .. MaxTroubles
  BY <1>1, <1>7 DEF FileTyped
<1> QED BY <1>2, <1>6, <1>7, <1>8, <1>11, <1>12, <1>13, <1>14, <1>15, HolderStep

LEMMA UnlinkJournalStep ==
  ASSUME FileInv, NEW c \in Calls, UnlinkJournal(c)
  PROVE  FileInv'
<1>1. FileTyped /\ FilesOK /\ call[c].pc = "unlink journal"
  BY DEF FileInv, UnlinkJournal, At
<1>2. lock = c
  BY <1>1 DEF FileTyped
<1>3. HolderOK(call[c]) /\ call[c] # Ready
  BY <1>2, HolderTarget DEF FileInv
<1>4. PICK r : r = call[c]
  OBVIOUS
<1>5. /\ r.fd \in Inodes /\ pathInode \in Inodes /\ r.original \in Contents /\ r.new \in Contents
      /\ Torn \notin Contents /\ r.fd <= pathInode
      /\ r.fd = pathInode \/ content[pathInode] # Torn
  BY <1>2, <1>4, HolderTarget
<1>6. /\ call'[c].pc = "unlink backup" /\ call'[c].fd = r.fd /\ call'[c].expected = r.expected
      /\ call'[c].original = r.original /\ call'[c].new = r.new
      /\ \A d \in Calls : d # c => call'[d] = call[d]
      /\ call' \in [Calls -> CallStates]
  <2>1. Goto(c, "unlink backup")
    BY DEF UnlinkJournal
  <2> QED BY <1>1, <1>3, <1>4, <2>1, GotoCall DEF Writing, Cleaning
<1>7. /\ pathInode' = pathInode /\ content' = content /\ backup' = backup /\ onDisk' = onDisk
      /\ lock' = lock /\ integrations' = integrations /\ troubles' = troubles /\ outcomes' = outcomes
      /\ journal' = NoFile
  BY DEF UnlinkJournal
<1>8. content[r.fd] # Torn
  BY <1>1, <1>3, <1>4 DEF HolderOK, HolderContent, Cleaning
<1>9. content[pathInode] # Torn
  BY <1>1, <1>2, NotTorn
<1>10. FilesOK'
  <2>1. OutcomeStands' /\ \A i \in Inodes : i > pathInode' => content'[i] # Torn
    BY <1>1, <1>7 DEF FilesOK, OutcomeStands
  <2>2. JournalOK(onDisk.journal)'
    BY <1>1, <1>7 DEF FilesOK, JournalOK
  <2>3. journal' \notin Journals
    BY <1>7, FileKinds
  <2> QED BY <1>7, <1>9, <2>1, <2>2, <2>3 DEF FilesOK, JournalOK
<1>11. HolderOK(call[c])'
  <2>1. HolderInode(call[c])'
    BY <1>3, <1>4, <1>6, <1>7, FileKinds DEF HolderOK, HolderInode
  <2>2. HolderFiles(call[c])'
    BY <1>6, <1>7 DEF HolderFiles
  <2>3. HolderContent(call[c])'
    BY <1>6, <1>7, <1>8 DEF HolderContent, Writing
  <2> QED BY <2>1, <2>2, <2>3 DEF HolderOK
<1>12. call'[c].pc \notin {"ready", "lock", "recover"} /\ call'[c].fd = call[c].fd /\ lock' = c
  BY <1>2, <1>4, <1>6, <1>7
<1>13. /\ content' \in [Inodes -> Contents \cup {Torn}]
       /\ outcomes' \in [Inodes -> SUBSET (Contents \cup {Torn})]
       /\ journal' \in {NoFile, Partial} \cup Journals
       /\ backup' \in {NoFile, Partial} \cup Backups
       /\ onDisk' \in [journal : {NoFile, Partial} \cup Journals, backup : {NoFile, Partial} \cup Backups]
       /\ integrations' \in 0 .. MaxIntegrations /\ troubles' \in 0 .. MaxTroubles
  BY <1>1, <1>7 DEF FileTyped
<1> QED BY <1>2, <1>6, <1>7, <1>10, <1>11, <1>12, <1>13, HolderStep DEF BackupSynced

LEMMA UnlinkBackupStep ==
  ASSUME FileInv, NEW c \in Calls, UnlinkBackup(c)
  PROVE  FileInv'
<1>1. FileTyped /\ FilesOK /\ call[c].pc = "unlink backup"
  BY DEF FileInv, UnlinkBackup, At
<1>2. lock = c
  BY <1>1 DEF FileTyped
<1>3. HolderOK(call[c]) /\ call[c] # Ready
  BY <1>2, HolderTarget DEF FileInv
<1>4. PICK r : r = call[c]
  OBVIOUS
<1>5. /\ r.fd \in Inodes /\ pathInode \in Inodes /\ r.original \in Contents /\ r.new \in Contents
      /\ Torn \notin Contents /\ r.fd <= pathInode
      /\ r.fd = pathInode \/ content[pathInode] # Torn
  BY <1>2, <1>4, HolderTarget
<1>6. /\ call'[c].pc = "sync cleanup" /\ call'[c].fd = r.fd /\ call'[c].expected = r.expected
      /\ call'[c].original = r.original /\ call'[c].new = r.new
      /\ \A d \in Calls : d # c => call'[d] = call[d]
      /\ call' \in [Calls -> CallStates]
  <2>1. Goto(c, "sync cleanup")
    BY DEF UnlinkBackup
  <2> QED BY <1>1, <1>3, <1>4, <2>1, GotoCall DEF Writing, Cleaning
<1>7. /\ pathInode' = pathInode /\ content' = content /\ journal' = journal /\ onDisk' = onDisk
      /\ lock' = lock /\ integrations' = integrations /\ troubles' = troubles /\ outcomes' = outcomes
      /\ backup' = NoFile
  BY DEF UnlinkBackup
<1>8. content[r.fd] # Torn /\ journal = NoFile
  BY <1>1, <1>3, <1>4 DEF HolderOK, HolderContent, HolderFiles, Cleaning
<1>9. content[pathInode] # Torn
  BY <1>1, <1>2, NotTorn
<1>10. FilesOK'
  <2>1. OutcomeStands' /\ \A i \in Inodes : i > pathInode' => content'[i] # Torn
    BY <1>1, <1>7 DEF FilesOK, OutcomeStands
  <2>2. JournalOK(onDisk.journal)'
    BY <1>1, <1>7 DEF FilesOK, JournalOK
  <2>3. journal' \notin Journals
    BY <1>7, <1>8, FileKinds
  <2> QED BY <1>7, <1>9, <2>1, <2>2, <2>3 DEF FilesOK, JournalOK
<1>11. HolderOK(call[c])'
  <2>1. HolderInode(call[c])'
    BY <1>3, <1>4, <1>6, <1>7 DEF HolderOK, HolderInode
  <2>2. HolderFiles(call[c])'
    BY <1>6, <1>7, <1>8 DEF HolderFiles
  <2>3. HolderContent(call[c])'
    BY <1>6, <1>7, <1>8 DEF HolderContent, Writing
  <2> QED BY <2>1, <2>2, <2>3 DEF HolderOK
<1>12. \A o : backup' # Backup(o)
  BY <1>7, FileKinds
<1>13. call'[c].pc \notin {"ready", "lock", "recover"} /\ call'[c].fd = call[c].fd /\ lock' = c
  BY <1>2, <1>4, <1>6, <1>7
<1>14. /\ content' \in [Inodes -> Contents \cup {Torn}]
       /\ outcomes' \in [Inodes -> SUBSET (Contents \cup {Torn})]
       /\ journal' \in {NoFile, Partial} \cup Journals
       /\ backup' \in {NoFile, Partial} \cup Backups
       /\ onDisk' \in [journal : {NoFile, Partial} \cup Journals, backup : {NoFile, Partial} \cup Backups]
       /\ integrations' \in 0 .. MaxIntegrations /\ troubles' \in 0 .. MaxTroubles
  BY <1>1, <1>7 DEF FileTyped
<1> QED BY <1>2, <1>6, <1>7, <1>10, <1>11, <1>12, <1>13, <1>14, HolderStep

\* The inodes of the future are not one that is open.
LEMMA LaterInodes ==
  ASSUME NEW p \in Inodes, NEW d \in Inodes, d <= p
  PROVE  \A i \in Inodes : (i > p => i # d) /\ (i > d => i # d)
BY DEF Inodes

\* The holder changes the inode that it has open, or what is reported of it, with
\* its backup on disk.
Wrote(c, x, S) ==
  /\ c \in Calls /\ lock = c /\ lock' = c /\ call[c].pc \in {"write", "restore"}
  /\ call' \in [Calls -> CallStates] /\ call'[c].pc \in {"write", "restore", "unlink journal"}
  /\ call'[c].fd = call[c].fd /\ \A d \in Calls : d # c => call'[d] = call[d]
  /\ x \in Contents \cup {Torn} /\ content' = [content EXCEPT ![call[c].fd] = x]
  /\ S \in SUBSET (Contents \cup {Torn}) /\ outcomes' = [outcomes EXCEPT ![call[c].fd] = S]
  /\ x = Torn \/ x \in S
  /\ call[c].original \in S
  /\ call[c].pc = "restore" => S = outcomes[call[c].fd]
  /\ UNCHANGED <<pathInode, journal, backup, onDisk, integrations, troubles>>
  /\ HolderFiles(call[c])' /\ HolderContent(call[c])'

LEMMA WriteStep ==
  ASSUME FileInv, NEW c, NEW x, NEW S, Wrote(c, x, S)
  PROVE  FileInv'
<1> USE DEF Wrote
<1>1. FileTyped /\ FilesOK /\ HolderOK(call[c])
  BY DEF FileInv
<1>2. PICK r : r = call[c]
  OBVIOUS
<1>3. /\ r.fd \in Inodes /\ pathInode \in Inodes /\ r.original \in Contents /\ r.new \in Contents
      /\ Torn \notin Contents /\ r.fd <= pathInode
      /\ r.fd = pathInode \/ content[pathInode] # Torn
  BY <1>2, HolderTarget
<1>4. /\ backup = Backup(r.original) /\ onDisk.backup = backup
      /\ r.pc = "write" => journal = Journal(r.fd, r.original, r.new) /\ onDisk.journal = journal
  BY <1>1, <1>2 DEF HolderOK, HolderFiles, BackupSynced
<1>5. /\ pathInode' = pathInode /\ journal' = journal /\ backup' = backup /\ onDisk' = onDisk
      /\ content'[r.fd] = x /\ outcomes'[r.fd] = S
      /\ \A i \in Inodes : i # r.fd => content'[i] = content[i] /\ outcomes'[i] = outcomes[i]
  BY <1>1, <1>2, <1>3 DEF FileTyped
<1>6. /\ content' \in [Inodes -> Contents \cup {Torn}]
      /\ outcomes' \in [Inodes -> SUBSET (Contents \cup {Torn})]
  BY <1>1, <1>3 DEF FileTyped
<1>7. PICK j, k : j = journal /\ k = onDisk.journal
  OBVIOUS
<1>8. ASSUME NEW g \in {j, k}, g \in Journals
      PROVE  g.ino \in Inodes /\ g.original \in outcomes'[g.ino] /\ g.ino <= pathInode
  <2>1. g.ino \in Inodes /\ g.original \in outcomes[g.ino] /\ g.ino <= pathInode
    BY <1>1, <1>7, <1>8, JournalKinds DEF FilesOK, JournalOK
  <2>2. CASE g.ino = r.fd /\ r.pc = "write"
    <3>1. g = Journal(r.fd, r.original, r.new)
      BY <1>4, <1>7, <2>2
    <3>2. g.original = r.original
      BY <3>1 DEF Journal
    <3>3. outcomes'[g.ino] = S /\ r.original \in S
      BY <1>2, <1>5, <2>2
    <3> QED BY <2>1, <3>2, <3>3
  <2>3. CASE g.ino = r.fd /\ r.pc = "restore"
    BY <1>2, <1>5, <2>1, <2>3
  <2>4. CASE g.ino # r.fd
    BY <1>5, <2>1, <2>4
  <2> QED BY <1>2, <2>2, <2>3, <2>4
<1>9. FilesOK'
  <2>1. OutcomeStands'
    <3>1. \A i \in Inodes : content'[i] \in outcomes'[i] \cup {Torn}
      BY <1>1, <1>5 DEF FilesOK, OutcomeStands
    <3> QED BY <3>1 DEF OutcomeStands
  <2>2. \A i \in Inodes : i > pathInode' => content'[i] # Torn
    <3>1. \A i \in Inodes : i > pathInode => i # r.fd
      BY <1>3, LaterInodes
    <3> QED BY <1>1, <1>5, <3>1 DEF FilesOK
  <2>3. content'[pathInode'] = Torn =>
          BackupSynced' /\ \E o \in outcomes'[pathInode'] : backup' = Backup(o)
    BY <1>2, <1>3, <1>4, <1>5 DEF BackupSynced
  <2>4. JournalOK(j)' /\ JournalOK(k)'
    BY <1>5, <1>8 DEF JournalOK
  <2>5. JournalOK(journal)' /\ JournalOK(onDisk.journal)'
    BY <1>5, <1>7, <2>4 DEF JournalOK
  <2>6. (journal \in Journals => RecoveryOK(journal.ino, journal.original))'
    BY <1>4, <1>5, <1>7, <1>8 DEF RecoveryOK, BackupSynced
  <2> QED BY <2>1, <2>2, <2>3, <2>5, <2>6 DEF FilesOK
<1>10. HolderInode(call[c])'
  <2>1. \A i \in Inodes : i > r.fd => content[i] # Torn /\ i # r.fd
    <3>1. \A i \in Inodes : i > r.fd => i # r.fd
      BY <1>3, LaterInodes
    <3> QED BY <1>1, <1>2, <3>1 DEF HolderOK, HolderInode
  <2>2. journal \in Journals => journal.ino <= r.fd
    BY <1>1, <1>2 DEF HolderOK, HolderInode
  <2> QED BY <1>2, <1>3, <1>5, <2>1, <2>2 DEF HolderInode
<1>11. ASSUME NEW o \in Contents, backup' = Backup(o), call[c].fd = pathInode
       PROVE  o \in outcomes'[pathInode] /\ (content'[pathInode] = o \/ onDisk'.backup = backup')
  <2>1. o = r.original
    <3>1. Backup(o).of = o /\ Backup(r.original).of = r.original
      BY FileKinds
    <3>2. Backup(o) = Backup(r.original)
      BY <1>4, <1>5, <1>11
    <3> QED BY <3>1, <3>2
  <2> QED BY <1>2, <1>4, <1>5, <1>11, <2>1
<1>12. /\ journal' \in {NoFile, Partial} \cup Journals
       /\ backup' \in {NoFile, Partial} \cup Backups
       /\ onDisk' \in [journal : {NoFile, Partial} \cup Journals, backup : {NoFile, Partial} \cup Backups]
       /\ integrations' \in 0 .. MaxIntegrations /\ troubles' \in 0 .. MaxTroubles
  BY <1>1 DEF FileTyped
<1> QED BY <1>5, <1>6, <1>9, <1>10, <1>11, <1>12, HolderStep DEF HolderOK

LEMMA WriteTargetStep ==
  ASSUME FileInv, NEW c \in Calls, WriteTarget(c)
  PROVE  FileInv'
<1>1. FileTyped /\ FilesOK /\ call[c].pc = "write"
  BY DEF FileInv, WriteTarget, At
<1>2. lock = c
  BY <1>1 DEF FileTyped
<1>3. HolderOK(call[c]) /\ call[c] # Ready
  BY <1>2, HolderTarget DEF FileInv
<1>4. PICK r : r = call[c]
  OBVIOUS
<1>5. /\ r.fd \in Inodes /\ pathInode \in Inodes /\ r.original \in Contents /\ r.new \in Contents
      /\ Torn \notin Contents /\ r.fd <= pathInode
      /\ r.fd = pathInode \/ content[pathInode] # Torn
  BY <1>2, <1>4, HolderTarget
<1>6. /\ pathInode' = pathInode /\ journal' = journal /\ backup' = backup /\ onDisk' = onDisk
      /\ lock' = lock /\ integrations' = integrations /\ troubles' = troubles
  BY DEF WriteTarget
<1>7. /\ r.original = r.expected /\ backup = Backup(r.original) /\ BackupSynced
      /\ journal = Journal(r.fd, r.original, r.new) /\ onDisk.journal = journal
      /\ r.original \in outcomes[r.fd] /\ (content[r.fd] = Torn => r.new \in outcomes[r.fd])
  BY <1>1, <1>3, <1>4 DEF HolderOK, HolderFiles, HolderContent, Writing
<1>8. CASE content[r.fd] # Torn
  <2>1. /\ content' = [content EXCEPT ![r.fd] = Torn] /\ call' = call
        /\ outcomes' = [outcomes EXCEPT ![r.fd] = {r.original, r.new}]
    BY <1>4, <1>8 DEF WriteTarget
  <2>2. content'[r.fd] = Torn /\ r.new \in outcomes'[r.fd] /\ r.original \in outcomes'[r.fd]
    BY <1>1, <1>5, <2>1 DEF FileTyped
  <2>3. HolderFiles(call[c])'
    BY <1>1, <1>4, <1>6, <1>7, <2>1 DEF HolderFiles, BackupSynced
  <2>4. HolderContent(call[c])'
    BY <1>1, <1>4, <1>7, <2>1, <2>2 DEF HolderContent, Cleaning
  <2>5. {r.original, r.new} \in SUBSET (Contents \cup {Torn}) /\ call' \in [Calls -> CallStates]
    BY <1>1, <1>5, <2>1 DEF FileTyped
  <2>6. Wrote(c, Torn, {r.original, r.new})
    BY <1>1, <1>2, <1>4, <1>6, <2>1, <2>3, <2>4, <2>5 DEF Wrote
  <2> QED BY <2>6, WriteStep
<1>9. CASE content[r.fd] = Torn
  <2>1. /\ content' = [content EXCEPT ![r.fd] = r.new] /\ outcomes' = outcomes
        /\ Goto(c, "unlink journal")
    BY <1>4, <1>9 DEF WriteTarget
  <2>2. /\ call'[c].pc = "unlink journal" /\ call'[c].fd = r.fd
        /\ \A d \in Calls : d # c => call'[d] = call[d]
        /\ call' \in [Calls -> CallStates]
    BY <1>1, <1>3, <1>4, <2>1, GotoCall DEF Cleaning
  <2>3. content'[r.fd] = r.new /\ content'[r.fd] # Torn
    BY <1>1, <1>5, <2>1 DEF FileTyped
  <2>4. HolderFiles(call[c])'
    BY <2>2 DEF HolderFiles
  <2>5. HolderContent(call[c])'
    BY <2>2, <2>3 DEF HolderContent, Writing
  <2>6. PICK S : S = outcomes[r.fd]
    OBVIOUS
  <2>7. outcomes' = [outcomes EXCEPT ![r.fd] = S] /\ S \in SUBSET (Contents \cup {Torn})
    BY <1>1, <1>5, <2>1, <2>6 DEF FileTyped
  <2>8. r.new \in Contents \cup {Torn} /\ r.new \in S /\ r.original \in S /\ r.pc = "write"
    BY <1>1, <1>4, <1>5, <1>7, <1>9, <2>6
  <2>9. Wrote(c, r.new, S)
    BY <1>1, <1>2, <1>4, <1>6, <2>1, <2>2, <2>4, <2>5, <2>7, <2>8 DEF Wrote
  <2> QED BY <2>9, WriteStep
<1> QED BY <1>8, <1>9

LEMMA RestoreStep ==
  ASSUME FileInv, NEW c \in Calls, Restore(c)
  PROVE  FileInv'
<1>1. FileTyped /\ FilesOK /\ call[c].pc = "restore"
  BY DEF FileInv, Restore, At
<1>2. lock = c
  BY <1>1 DEF FileTyped
<1>3. HolderOK(call[c]) /\ call[c] # Ready
  BY <1>2, HolderTarget DEF FileInv
<1>4. PICK r : r = call[c]
  OBVIOUS
<1>5. /\ r.fd \in Inodes /\ pathInode \in Inodes /\ r.original \in Contents /\ r.new \in Contents
      /\ Torn \notin Contents /\ r.fd <= pathInode
      /\ r.fd = pathInode \/ content[pathInode] # Torn
  BY <1>2, <1>4, HolderTarget
<1>6. /\ pathInode' = pathInode /\ journal' = journal /\ backup' = backup /\ onDisk' = onDisk
      /\ lock' = lock /\ integrations' = integrations /\ troubles' = troubles /\ outcomes' = outcomes
  BY DEF Restore
<1>7. backup = Backup(r.original) /\ BackupSynced /\ r.original \in outcomes[r.fd]
  BY <1>1, <1>3, <1>4 DEF HolderOK, HolderFiles, HolderContent, Writing
<1>8. PICK S : S = outcomes[r.fd]
  OBVIOUS
<1>9. outcomes' = [outcomes EXCEPT ![r.fd] = S] /\ S \in SUBSET (Contents \cup {Torn})
  BY <1>1, <1>5, <1>6, <1>8 DEF FileTyped
<1>10. CASE content[r.fd] # Torn
  <2>1. content' = [content EXCEPT ![r.fd] = Torn] /\ call' = call
    BY <1>4, <1>10 DEF Restore
  <2>2. HolderFiles(call[c])'
    BY <1>1, <1>4, <1>6, <1>7, <2>1 DEF HolderFiles, BackupSynced
  <2>3. HolderContent(call[c])'
    BY <1>1, <1>4, <1>6, <1>7, <2>1 DEF HolderContent, Cleaning, Writing
  <2>4. call' \in [Calls -> CallStates]
    BY <1>1, <2>1 DEF FileTyped
  <2>5. /\ call[c].pc \in {"write", "restore"} /\ call'[c].pc \in {"write", "restore", "unlink journal"}
        /\ call'[c].fd = call[c].fd /\ \A d \in Calls : d # c => call'[d] = call[d]
        /\ lock' = c
    BY <1>1, <1>2, <1>6, <2>1
  <2>6. /\ content' = [content EXCEPT ![call[c].fd] = Torn] /\ Torn \in Contents \cup {Torn}
        /\ outcomes' = [outcomes EXCEPT ![call[c].fd] = S]
        /\ call[c].original \in S /\ S = outcomes[call[c].fd]
    BY <1>4, <1>7, <1>8, <1>9, <2>1
  <2>7. Wrote(c, Torn, S)
    BY <1>2, <1>6, <1>9, <2>2, <2>3, <2>4, <2>5, <2>6 DEF Wrote
  <2> QED BY <2>7, WriteStep
<1>11. CASE content[r.fd] = Torn
  <2>1. /\ content' = [content EXCEPT ![r.fd] = r.original]
        /\ Goto(c, "unlink journal")
    BY <1>4, <1>11 DEF Restore
  <2>2. /\ call'[c].pc = "unlink journal" /\ call'[c].fd = r.fd
        /\ \A d \in Calls : d # c => call'[d] = call[d]
        /\ call' \in [Calls -> CallStates]
    BY <1>1, <1>3, <1>4, <2>1, GotoCall DEF Cleaning
  <2>3. content'[r.fd] = r.original /\ content'[r.fd] # Torn
    BY <1>1, <1>5, <2>1 DEF FileTyped
  <2>4. HolderFiles(call[c])'
    BY <2>2 DEF HolderFiles
  <2>5. HolderContent(call[c])'
    BY <2>2, <2>3 DEF HolderContent, Writing
  <2>6. /\ call[c].pc \in {"write", "restore"} /\ call'[c].pc \in {"write", "restore", "unlink journal"}
        /\ call'[c].fd = call[c].fd /\ lock' = c
    BY <1>1, <1>2, <1>4, <1>6, <2>2
  <2>7. /\ content' = [content EXCEPT ![call[c].fd] = r.original]
        /\ r.original \in Contents \cup {Torn} /\ r.original \in S
        /\ outcomes' = [outcomes EXCEPT ![call[c].fd] = S]
        /\ call[c].original \in S /\ S = outcomes[call[c].fd]
    BY <1>4, <1>5, <1>7, <1>8, <1>9, <2>1
  <2>8. Wrote(c, r.original, S)
    BY <1>2, <1>6, <1>9, <2>2, <2>4, <2>5, <2>6, <2>7 DEF Wrote
  <2> QED BY <2>8, WriteStep
<1> QED BY <1>10, <1>11

\* What the call reports is what the file holds, and no journal or backup is left.
LEMMA SyncCleanupStep ==
  ASSUME FileInv, NEW c \in Calls, SyncCleanup(c)
  PROVE  FileInv'
<1>1. FileTyped /\ FilesOK /\ call[c].pc = "sync cleanup"
  BY DEF FileInv, SyncCleanup, At
<1>2. lock = c
  BY <1>1 DEF FileTyped
<1>3. HolderOK(call[c]) /\ call[c] # Ready
  BY <1>2, HolderTarget DEF FileInv
<1>4. PICK r : r = call[c]
  OBVIOUS
<1>5. /\ r.fd \in Inodes /\ pathInode \in Inodes /\ r.original \in Contents /\ r.new \in Contents
      /\ Torn \notin Contents /\ r.fd <= pathInode
      /\ r.fd = pathInode \/ content[pathInode] # Torn
  BY <1>2, <1>4, HolderTarget
<1>6. /\ pathInode' = pathInode /\ content' = content /\ journal' = journal /\ backup' = backup
      /\ integrations' = integrations /\ troubles' = troubles
      /\ outcomes' = [outcomes EXCEPT ![r.fd] = {content[r.fd]}]
      /\ onDisk' = [journal |-> journal, backup |-> backup]
  BY <1>4 DEF SyncCleanup, Synced
<1>7. journal = NoFile /\ backup = NoFile /\ content[r.fd] # Torn
  BY <1>1, <1>3, <1>4 DEF HolderOK, HolderFiles, HolderContent, Cleaning
<1>8. call' = [call EXCEPT ![c] = Ready] /\ lock' = NoCall
  BY <1>2 DEF SyncCleanup, Returns
<1>9. /\ call'[c] = Ready /\ \A d \in Calls : d # c => call'[d] = call[d]
      /\ call' \in [Calls -> CallStates]
  BY <1>1, <1>8 DEF FileTyped, CallStates
<1>10. /\ onDisk'.journal = NoFile
       /\ onDisk' \in [journal : {NoFile, Partial} \cup Journals, backup : {NoFile, Partial} \cup Backups]
  BY <1>6, <1>7
<1>11. /\ outcomes' \in [Inodes -> SUBSET (Contents \cup {Torn})]
       /\ outcomes'[r.fd] = {content[r.fd]}
       /\ \A i \in Inodes : i # r.fd => outcomes'[i] = outcomes[i]
  BY <1>1, <1>5, <1>6 DEF FileTyped
<1>12. FileTyped'
  <2>1. \A d \in Calls : (lock' = d) <=> call'[d].pc \notin {"ready", "lock", "recover"}
    BY <1>1, <1>2, <1>8, <1>9, IntegrationAssumption DEF FileTyped, Ready
  <2> QED BY <1>1, <1>6, <1>8, <1>9, <1>10, <1>11, <2>1 DEF FileTyped
<1>13. content[pathInode] # Torn
  BY <1>1, <1>2, NotTorn
<1>14. FilesOK'
  <2>1. \A i \in Inodes : content'[i] \in outcomes'[i] \cup {Torn}
    BY <1>1, <1>6, <1>11 DEF FilesOK, OutcomeStands
  <2>2. \A i \in Inodes : i > pathInode' => content'[i] # Torn
    BY <1>1, <1>6 DEF FilesOK
  <2>3. journal' \notin Journals /\ onDisk'.journal \notin Journals
    BY <1>6, <1>7, <1>10, FileKinds
  <2> QED BY <1>6, <1>13, <2>1, <2>2, <2>3 DEF FilesOK, JournalOK, OutcomeStands
<1>15. ASSUME NEW d \in Calls PROVE WaiterOK(call[d])'
  <2>1. CASE call'[d].pc = "recover"
    <3>1. call'[d] = call[d] /\ WaiterOK(call[d])
      BY <1>9, <2>1 DEF Ready, FileInv
    <3>2. call[d].fd <= pathInode
      BY <2>1, <3>1 DEF WaiterOK
    <3>3. \A o : backup' # Backup(o)
      BY <1>6, <1>7, FileKinds
    <3> QED BY <1>6, <1>8, <3>1, <3>2, <3>3 DEF WaiterOK, RecoveryOK, Backup
  <2>2. CASE call'[d].pc # "recover"
    BY <2>2 DEF WaiterOK
  <2> QED BY <2>1, <2>2
<1>16. \A d \in Calls : lock' # d
  BY <1>8, IntegrationAssumption
<1> QED BY <1>12, <1>14, <1>15, <1>16 DEF FileInv

LEMMA IoErrorStep ==
  ASSUME FileInv, NEW c \in Calls, IoError(c)
  PROVE  FileInv'
<1>1. FileTyped /\ FilesOK /\ lock = c
  BY DEF FileInv, IoError
<1>2. HolderOK(call[c]) /\ call[c] # Ready
  BY <1>1, HolderTarget DEF FileInv
<1>3. /\ pathInode' = pathInode /\ content' = content /\ journal' = journal /\ onDisk' = onDisk
      /\ outcomes' = outcomes /\ integrations' = integrations
  BY DEF IoError
<1>4. troubles' \in 0 .. MaxTroubles
  BY <1>1, IntegrationAssumption DEF IoError, Trouble, FileTyped
<1>5. CASE At(c, "write") /\ Goto(c, "restore") /\ UNCHANGED <<lock, backup>>
  <2>1. PICK r : r = call[c] /\ r.pc = "write"
    BY <1>5 DEF At
  <2>2. /\ call'[c].pc = "restore" /\ call'[c].fd = r.fd /\ call'[c].original = r.original
        /\ \A d \in Calls : d # c => call'[d] = call[d]
        /\ call' \in [Calls -> CallStates]
    BY <1>1, <1>2, <1>5, <2>1, GotoCall
  <2>3. /\ backup = Backup(r.original) /\ BackupSynced /\ r.original \in outcomes[r.fd]
        /\ HolderInode(r)
    BY <1>2, <2>1 DEF HolderOK, HolderFiles, HolderContent, Writing
  <2>4. FileTyped'
    <3>1. \A d \in Calls : (lock' = d) <=> call'[d].pc \notin {"ready", "lock", "recover"}
      BY <1>1, <1>5, <2>2 DEF FileTyped
    <3> QED BY <1>1, <1>3, <1>4, <1>5, <2>2, <3>1 DEF FileTyped
  <2>5. HolderOK(call'[c])
    <3>1. HolderInode(call'[c])
      BY <2>2, <2>3 DEF HolderInode
    <3>2. HolderFiles(call'[c])
      BY <2>2, <2>3 DEF HolderFiles
    <3>3. HolderContent(call'[c])
      BY <2>2, <2>3 DEF HolderContent, Writing, Cleaning
    <3> QED BY <3>1, <3>2, <3>3 DEF HolderOK
  <2>6. \A d \in Calls : call'[d].pc = "recover" =>
             /\ RecoveryOK(call'[d].fd, call'[d].original)
             /\ call'[d].fd <= pathInode
             /\ lock' # NoCall => call'[d].fd <= call'[lock'].fd
    <3> SUFFICES ASSUME NEW d \in Calls, call'[d].pc = "recover"
                 PROVE  /\ RecoveryOK(call'[d].fd, call'[d].original)
                        /\ call'[d].fd <= pathInode
                        /\ lock' # NoCall => call'[d].fd <= call'[lock'].fd
      OBVIOUS
    <3>1. call'[d] = call[d] /\ WaiterOK(call[d]) /\ call[d].pc = "recover"
      BY <2>2 DEF FileInv
    <3>2. call'[lock'].fd = call[lock].fd /\ lock # NoCall
      BY <1>1, <1>5, <2>1, <2>2, IntegrationAssumption
    <3> QED BY <3>1, <3>2 DEF WaiterOK
  <2>7. \A d \in Calls : lock' = d => HolderOK(call'[d])
    BY <1>1, <1>5, <2>5
  <2> QED BY <1>3, <1>5, <2>4, <2>6, <2>7, CallStep
<1>6. CASE At(c, "journal") /\ Returns(c) /\ backup' = NoFile
  <2>1. call[c].pc = "journal"
    BY <1>6 DEF At
  <2>2. journal \notin Journals
    BY <1>2, <2>1, FileKinds DEF HolderOK, HolderFiles
  <2>3. content[pathInode] # Torn
    BY <1>1, <2>1, NotTorn
  <2>4. call' = [call EXCEPT ![c] = Ready] /\ lock' = NoCall
    BY <1>1, <1>6 DEF Returns
  <2>5. /\ call'[c] = Ready /\ \A d \in Calls : d # c => call'[d] = call[d]
        /\ call' \in [Calls -> CallStates]
    BY <1>1, <2>4 DEF FileTyped, CallStates
  <2>6. FileTyped'
    <3>1. \A d \in Calls : (lock' = d) <=> call'[d].pc \notin {"ready", "lock", "recover"}
      BY <1>1, <2>4, <2>5, IntegrationAssumption DEF FileTyped, Ready
    <3> QED BY <1>1, <1>3, <1>4, <1>6, <2>4, <2>5, <3>1 DEF FileTyped
  <2>7. FilesOK'
    <3>1. OutcomeStands' /\ \A i \in Inodes : i > pathInode' => content'[i] # Torn
      BY <1>1, <1>3 DEF FilesOK, OutcomeStands
    <3>2. JournalOK(onDisk.journal)'
      BY <1>1, <1>3 DEF FilesOK, JournalOK
    <3> QED BY <1>3, <2>2, <2>3, <3>1, <3>2 DEF FilesOK, JournalOK
  <2>8. ASSUME NEW d \in Calls PROVE WaiterOK(call[d])'
    <3>1. CASE call'[d].pc = "recover"
      <4>1. call'[d] = call[d] /\ WaiterOK(call[d])
        BY <2>5, <3>1 DEF Ready, FileInv
      <4>2. call[d].fd <= pathInode
        BY <3>1, <4>1 DEF WaiterOK
      <4>3. \A o : backup' # Backup(o)
        BY <1>6, FileKinds
      <4> QED BY <1>3, <2>4, <4>1, <4>2, <4>3 DEF WaiterOK, RecoveryOK, Backup
    <3>2. CASE call'[d].pc # "recover"
      BY <3>2 DEF WaiterOK
    <3> QED BY <3>1, <3>2
  <2>9. \A d \in Calls : lock' # d
    BY <2>4, IntegrationAssumption
  <2> QED BY <2>6, <2>7, <2>8, <2>9 DEF FileInv
<1>7. CASE ~At(c, "write") /\ ~At(c, "journal") /\ Returns(c) /\ UNCHANGED backup
  BY <1>1, <1>2, <1>3, <1>4, <1>7, ReturnsStep DEF FileTyped
<1> QED BY <1>5, <1>6, <1>7 DEF IoError

\* Initially the file is whole, and nobody has begun.
LEMMA FileInitInv == IntegrationInit => FileInv
<1> SUFFICES ASSUME IntegrationInit PROVE FileInv
  OBVIOUS
<1>1. /\ pathInode = 1 /\ content \in [Inodes -> Contents] /\ journal = NoFile /\ backup = NoFile
      /\ lock = NoCall /\ call = [c \in Calls |-> Ready] /\ integrations = 0 /\ troubles = 0
      /\ outcomes = [i \in Inodes |-> {content[i]}]
      /\ onDisk = [journal |-> NoFile, backup |-> NoFile]
  BY DEF IntegrationInit
<1>2. Ready.pc = "ready" /\ NoCall \notin Calls /\ Torn \notin Contents
  BY IntegrationAssumption DEF Ready, Torn
<1>3. pathInode \in Inodes /\ integrations \in 0 .. MaxIntegrations /\ troubles \in 0 .. MaxTroubles
  BY <1>1, IntegrationAssumption DEF Inodes
<1>4. /\ onDisk.journal = NoFile
      /\ onDisk \in [journal : {NoFile, Partial} \cup Journals, backup : {NoFile, Partial} \cup Backups]
  BY <1>1
<1>5. content \in [Inodes -> Contents \cup {Torn}] /\ outcomes \in [Inodes -> SUBSET (Contents \cup {Torn})]
  BY <1>1
<1>6. call \in [Calls -> CallStates] /\ \A c \in Calls : call[c] = Ready
  BY <1>1 DEF CallStates
<1>7. FileTyped
  BY <1>1, <1>2, <1>3, <1>4, <1>5, <1>6 DEF FileTyped
<1>8. FilesOK
  <2>1. \A i \in Inodes : content[i] \in outcomes[i] /\ content[i] # Torn
    BY <1>1, <1>2
  <2> QED BY <1>1, <1>3, <1>4, <2>1, FileKinds DEF FilesOK, JournalOK, OutcomeStands
<1>9. \A c \in Calls : WaiterOK(call[c])
  BY <1>2, <1>6 DEF WaiterOK
<1>10. \A c \in Calls : lock # c
  BY <1>1, <1>2
<1> QED BY <1>7, <1>8, <1>9, <1>10 DEF FileInv

\* Every step of a call, every trouble and every stutter keeps the invariant.
LEMMA FileNextInv == FileInv /\ [IntegrationNext]_integrationVars => FileInv'
<1> SUFFICES ASSUME FileInv, [IntegrationNext]_integrationVars PROVE FileInv'
  OBVIOUS
<1>1. CASE UNCHANGED integrationVars
  <2>1. /\ UNCHANGED <<pathInode, content, journal, backup, onDisk, outcomes>>
        /\ call' = call /\ lock' = lock /\ integrations' = integrations /\ troubles' = troubles
    BY <1>1 DEF integrationVars, fileVars
  <2>2. FileTyped'
    BY <2>1 DEF FileInv, FileTyped
  <2>3. \A c \in Calls : lock' = c => HolderOK(call'[c])
    BY <2>1 DEF FileInv
  <2>4. \A c \in Calls : call'[c].pc = "recover" =>
             /\ RecoveryOK(call'[c].fd, call'[c].original)
             /\ call'[c].fd <= pathInode
             /\ lock' # NoCall => call'[c].fd <= call'[lock'].fd
    BY <2>1 DEF FileInv, WaiterOK
  <2> QED BY <2>1, <2>2, <2>3, <2>4, CallStep
<1>2. ASSUME NEW c \in Calls, NEW new \in Contents, Integrate(c, new) PROVE FileInv'
  BY <1>2, IntegrateStep
<1>3. ASSUME NEW c \in Calls, TakeLock(c) PROVE FileInv'
  BY <1>3, TakeLockStep
<1>4. ASSUME NEW c \in Calls, WriteBackup(c) \/ WriteJournal(c) \/ SyncJournal(c) PROVE FileInv'
  BY <1>4, WriteBackupStep, WriteJournalStep, SyncJournalStep
<1>5. ASSUME NEW c \in Calls, WriteTarget(c) \/ Restore(c) PROVE FileInv'
  BY <1>5, WriteTargetStep, RestoreStep
<1>6. ASSUME NEW c \in Calls, UnlinkJournal(c) \/ UnlinkBackup(c) \/ SyncCleanup(c) PROVE FileInv'
  BY <1>6, UnlinkJournalStep, UnlinkBackupStep, SyncCleanupStep
<1>7. ASSUME NEW c \in Calls, Recover(c) \/ RecoverOne(c) PROVE FileInv'
  BY <1>7, RecoverStep, RecoverOneStep
<1>8. ASSUME NEW c \in Calls, IoError(c) \/ Crash(c) PROVE FileInv'
  BY <1>8, IoErrorStep, CrashStep
<1>9. CASE PowerLoss
  BY <1>9, PowerLossStep
<1>10. CASE ReplaceTarget
  BY <1>10, ReplaceTargetStep
<1> QED BY <1>1, <1>2, <1>3, <1>4, <1>5, <1>6, <1>7, <1>8, <1>9, <1>10 DEF IntegrationNext

\* The inductive invariant of the integration of a file: the lock excludes the
\* other calls, the target is written only behind a journal and a backup that
\* are on disk, and a recovery with an old journal in hand finds a backup that is
\* an outcome or none that is its own.
THEOREM FileInvariant == IntegrationSpec => []FileInv
<1>1. IntegrationInit => FileInv
  BY FileInitInv
<1>2. FileInv /\ [IntegrationNext]_integrationVars => FileInv'
  BY FileNextInv
<1> QED BY <1>1, <1>2, PTL DEF IntegrationSpec

\* The bytes of a file that was left in the middle of a write are in the backup,
\* whatever failed or lost power (supervisor_integration.py:355, 392, 578).
THEOREM FileTornBackedUp == IntegrationSpec => []TornBackedUp
<1>1. FileInv => TornBackedUp
  BY DEF FileInv, FilesOK, TornBackedUp
<1> QED BY <1>1, FileInvariant, PTL

\* The outcome that a call has reported stands: a late recovery or a writer that
\* verified an older content never undoes it (supervisor_integration.py:439, 578).
THEOREM FileOutcomeStands == IntegrationSpec => []OutcomeStands
<1>1. FileInv => OutcomeStands
  BY DEF FileInv, FilesOK
<1> QED BY <1>1, FileInvariant, PTL

\* An integration starts to write over the content that its caller expected and
\* no other (supervisor_integration.py:475).
THEOREM FileWritesExpected == IntegrationSpec => WritesExpected
<1>1. FileInv /\ [IntegrationNext]_integrationVars =>
        [\A c \in Calls :
           At(c, "write") /\ content[call[c].fd] # Torn /\ content'[call[c].fd] = Torn =>
             content[call[c].fd] = call[c].expected]_integrationVars
  <2> SUFFICES ASSUME FileInv, NEW c \in Calls, At(c, "write"), content[call[c].fd] # Torn
               PROVE  content[call[c].fd] = call[c].expected
    OBVIOUS
  <2>1. call[c].pc = "write"
    BY DEF At
  <2>2. HolderOK(call[c])
    BY <2>1 DEF FileInv, FileTyped
  <2> QED BY <2>1, <2>2 DEF HolderOK, HolderContent, Writing
<1> QED BY <1>1, FileInvariant, PTL DEF IntegrationSpec, WritesExpected

\* The types of the integration's variables.
THEOREM FileTypes == IntegrationSpec => []IntegrationTypeOK
<1>1. FileInv => IntegrationTypeOK
  <2> SUFFICES ASSUME FileInv PROVE IntegrationTypeOK
    OBVIOUS
  <2>1. FileTyped
    BY DEF FileInv
  <2>2. \A c \in Calls : Working(c) /\ call[c].pc \notin {"lock", "recover"} => lock = c
    BY <2>1, CallKinds DEF FileTyped, Working
  <2>3. backup.there /\ backup.whole => backup.of \in Contents
    BY <2>1, FileKinds DEF FileTyped, Backups
  <2> QED BY <2>1, <2>2, <2>3 DEF FileTyped, IntegrationTypeOK
<1> QED BY <1>1, FileInvariant, PTL

----------------------------------------------------------------------------
(* The clones of a lineage *)

\* What the directory of a base may be.
LEMMA CloneKinds ==
  ASSUME ClonesTyped, NEW b \in Bases
  PROVE  /\ Exists(b) \in BOOLEAN
         /\ Exists(b) => /\ clones[b] \in Directories /\ clones[b].there = TRUE
                         /\ clones[b].ino \in Dirs /\ clones[b].head \in Commits
                         /\ clones[b].branch \in Branches
                         /\ clones[b].git \in BOOLEAN /\ clones[b].ino # 0
         /\ ~Exists(b) => clones[b] = NoClone /\ ~Intact(clones[b])
<1>1. clones[b] = NoClone \/ clones[b] \in Directories
  BY DEF ClonesTyped, CloneDirs
<1>2. \A d \in Directories : /\ d.there = TRUE /\ d.ino \in Dirs /\ d.head \in Commits
                              /\ d.branch \in Branches /\ d.git \in BOOLEAN
  BY DEF Directories
<1>3. NoClone.there = FALSE /\ ~Intact(NoClone)
  BY DEF NoClone, Intact
<1>4. 0 \notin Dirs
  BY DEF Dirs
<1> QED BY <1>1, <1>2, <1>3, <1>4 DEF Exists

\* What a tombstone may be.
LEMMA TombstoneKinds ==
  ASSUME ClonesTyped, NEW b \in Bases
  PROVE  /\ tombstones[b] = NoTombstone => tombstones[b].phase = "none"
         /\ tombstones[b] # NoTombstone => tombstones[b] \in Transactions
         /\ tombstones[b].phase \in Phases
<1>1. tombstones[b] = NoTombstone \/ tombstones[b] \in Transactions
  BY DEF ClonesTyped, Tombstones
<1>2. NoTombstone.phase = "none"
  BY DEF NoTombstone
<1>3. \A s \in Transactions : s.phase \in Phases
  BY DEF Transactions
<1> QED BY <1>1, <1>2, <1>3 DEF Phases

\* Where a tool may be.
LEMMA ToolKinds ==
  ASSUME ClonesTyped, NEW t \in Tools
  PROVE  /\ tools[t] = Waiting <=> tools[t].pc = "waiting"
         /\ tools[t].pc \in {"clone", "register", "metadata"} =>
              tools[t] \in Preparing /\ tools[t].base \in Bases
         /\ tools[t].pc = "adopt" => tools[t] \in Adopting /\ tools[t].base \in Bases /\ tools[t].head \in Commits
         /\ tools[t].pc \in {"unregister", "mark", "verify", "remove", "complete"} =>
              /\ tools[t] \in Removing /\ tools[t].base \in Bases
              /\ tools[t].head \in Commits /\ tools[t].way \in Ways
         /\ tools[t].pc \in {"waiting", "clone", "register", "metadata", "adopt", "unregister",
                             "mark", "verify", "remove", "complete"}
<1>1. tools[t] = Waiting \/ tools[t] \in Preparing \/ tools[t] \in Adopting \/ tools[t] \in Removing
  BY DEF ClonesTyped
<1>2. Waiting.pc = "waiting"
  BY DEF Waiting
<1>3. \A r \in Preparing : r.pc \in {"clone", "register", "metadata"} /\ r.base \in Bases
  BY DEF Preparing
<1>4. \A r \in Adopting : r.pc = "adopt" /\ r.base \in Bases /\ r.head \in Commits
  BY DEF Adopting
<1>5. \A r \in Removing : /\ r.pc \in {"unregister", "mark", "verify", "remove", "complete"}
                          /\ r.base \in Bases /\ r.head \in Commits /\ r.way \in Ways
  BY DEF Removing
<1> QED BY <1>1, <1>2, <1>3, <1>4, <1>5

\* A tool that prepares or removes holds the lineage.
LEMMA ToolHolds ==
  ASSUME ClonesInv, NEW t \in Tools, tools[t].pc \notin {"waiting", "adopt"}
  PROVE  lineage = t /\ ToolOK(tools[t]) /\ lineage # NoTool
BY ClonesAssumption DEF ClonesInv, ClonesTyped

\* A tool that goes on and keeps the rest.
LEMMA StepToTool ==
  ASSUME ClonesTyped, NEW t \in Tools, NEW p, StepTo(t, p),
         \/ tools[t] \in Preparing /\ p \in {"clone", "register", "metadata"}
         \/ tools[t] \in Removing /\ p \in {"unregister", "mark", "verify", "remove", "complete"}
  PROVE  /\ tools'[t].pc = p /\ tools'[t].base = tools[t].base
         /\ tools[t] \in Removing => /\ tools'[t].ino = tools[t].ino /\ tools'[t].way = tools[t].way
                                     /\ tools'[t].raced = tools[t].raced
         /\ \A u \in Tools : u # t => tools'[u] = tools[u]
         /\ tools' \in [Tools -> {Waiting} \cup Preparing \cup Adopting \cup Removing]
<1>1. tools' = [tools EXCEPT ![t].pc = p] /\ tools \in [Tools -> {Waiting} \cup Preparing \cup Adopting \cup Removing]
  BY DEF StepTo, ClonesTyped
<1>2. PICK r : r = tools[t]
  OBVIOUS
<1> DEFINE q == [r EXCEPT !.pc = p]
<1>3. /\ q.pc = p /\ q.base = r.base
      /\ r \in Removing => q.ino = r.ino /\ q.way = r.way /\ q.raced = r.raced
  <2>1. CASE r \in Preparing
    <3>1. r.pc \in {"clone", "register", "metadata"} /\ q.pc = p /\ q.base = r.base
      BY <2>1 DEF Preparing
    <3>2. r \notin Removing
      BY <3>1 DEF Removing
    <3> QED BY <3>1, <3>2
  <2>2. CASE r \in Removing
    BY <2>2 DEF Removing
  <2> QED BY <1>2, <2>1, <2>2
<1>4. q \in Preparing \cup Removing
  BY <1>2 DEF Preparing, Removing
<1>5. tools' = [tools EXCEPT ![t] = q]
  BY <1>1, <1>2
<1> HIDE DEF q
<1>6. tools'[t] = q /\ \A u \in Tools : u # t => tools'[u] = tools[u]
  BY <1>1, <1>5
<1>7. tools' \in [Tools -> {Waiting} \cup Preparing \cup Adopting \cup Removing]
  BY <1>1, <1>4, <1>5
<1> QED BY <1>2, <1>3, <1>6, <1>7

\* A tool that leaves.
LEMMA LeavesTool ==
  ASSUME ClonesTyped, NEW t \in Tools, Leaves(t)
  PROVE  /\ tools'[t] = Waiting /\ \A u \in Tools : u # t => tools'[u] = tools[u]
         /\ tools' \in [Tools -> {Waiting} \cup Preparing \cup Adopting \cup Removing]
         /\ lineage' = (IF lineage = t THEN NoTool ELSE lineage)
         /\ lineage' \in Tools \cup {NoTool}
         /\ \A u \in Tools : tools'[u].pc \notin {"waiting", "adopt"} => lineage' = u
<1>1. /\ tools' = [tools EXCEPT ![t] = Waiting] /\ lineage' = (IF lineage = t THEN NoTool ELSE lineage)
      /\ tools \in [Tools -> {Waiting} \cup Preparing \cup Adopting \cup Removing]
      /\ lineage \in Tools \cup {NoTool}
  BY DEF Leaves, ClonesTyped
<1>2. tools'[t] = Waiting /\ \A u \in Tools : u # t => tools'[u] = tools[u]
  BY <1>1
<1>3. tools' \in [Tools -> {Waiting} \cup Preparing \cup Adopting \cup Removing]
  BY <1>1
<1>4. Waiting.pc = "waiting"
  BY DEF Waiting
<1>5. \A u \in Tools : tools'[u].pc \notin {"waiting", "adopt"} => lineage' = u
  BY <1>1, <1>2, <1>4 DEF ClonesTyped
<1> QED BY <1>1, <1>2, <1>3, <1>5

\* A tool that enters takes the lineage, which nobody holds.
LEMMA EntersTool ==
  ASSUME ClonesTyped, NEW t \in Tools, NEW r \in Preparing \cup Removing, Enters(t, r)
  PROVE  /\ tools'[t] = r /\ \A u \in Tools : u # t => tools'[u] = tools[u]
         /\ tools' \in [Tools -> {Waiting} \cup Preparing \cup Adopting \cup Removing]
         /\ lineage' = t /\ rounds' \in 0 .. MaxRounds
         /\ \A u \in Tools : tools'[u].pc \notin {"waiting", "adopt"} => lineage' = u
<1>1. /\ tools' = [tools EXCEPT ![t] = r] /\ lineage' = t /\ lineage = NoTool
      /\ tools \in [Tools -> {Waiting} \cup Preparing \cup Adopting \cup Removing]
  BY DEF Enters, ClonesTyped
<1>2. tools'[t] = r /\ \A u \in Tools : u # t => tools'[u] = tools[u]
  BY <1>1
<1>3. tools' \in [Tools -> {Waiting} \cup Preparing \cup Adopting \cup Removing]
  BY <1>1
<1>4. rounds' \in 0 .. MaxRounds
  BY ClonesAssumption DEF Enters, ClonesTyped
<1>5. \A u \in Tools : tools'[u].pc \notin {"waiting", "adopt"} => lineage' = u
  BY <1>1, <1>2, ClonesAssumption DEF ClonesTyped
<1> QED BY <1>1, <1>2, <1>3, <1>4, <1>5

\* A step that makes no clone, and notes what does not claim the lineage.
LEMMA LineageKept ==
  ASSUME ClonesInv,
         \A b \in Bases : clones'[b].there =>
           /\ Exists(b)
           /\ clones[b].strayed => clones'[b].strayed
           /\ Astray(clones'[b]) => Astray(clones[b]) \/ clones'[b].strayed
  PROVE  LineageOK'
<1>1. ASSUME NEW b \in Bases, clones'[b].there, Astray(clones'[b]) PROVE clones'[b].strayed
  BY <1>1 DEF ClonesInv, LineageOK
<1>2. ASSUME NEW a \in Bases, NEW b \in Bases, clones'[a].there, clones'[b].there
      PROVE  a = b \/ clones'[a].strayed \/ clones'[b].strayed
  BY <1>2 DEF ClonesInv, LineageOK
<1> QED BY <1>1, <1>2 DEF LineageOK, Exists

\* A step that leaves the clones, the registry and the tombstones alone.
LEMMA QuietClones ==
  ASSUME ClonesInv, ClonesTyped', UNCHANGED <<clones, registered, tombstones>>, saved \subseteq saved',
         \A t \in Tools : lineage' = t => ToolOK(tools'[t])
  PROVE  ClonesInv'
<1>1. clones' = clones /\ registered' = registered /\ tombstones' = tombstones
  OBVIOUS
<1>2. \A b : Exists(b)' <=> Exists(b)
  BY <1>1 DEF Exists
<1>3. LineageOK'
  BY <1>1, <1>2 DEF ClonesInv, LineageOK
<1>4. TailResumable'
  BY <1>1, <1>2 DEF ClonesInv, TailResumable
<1>5. ASSUME NEW t \in Tools, lineage' = t PROVE ToolOK(tools[t])'
  <2>1. PICK r : r = tools'[t] /\ ToolOK(r)
    BY <1>5
  <2>2. ToolOK(r)'
    BY <1>1, <1>2, <2>1 DEF ToolOK, Intact
  <2> QED BY <2>1, <2>2 DEF ToolOK, Exists, Intact
<1> QED BY <1>3, <1>4, <1>5 DEF ClonesInv

\* A tool that leaves, having changed at most its own clone's metadata or the
\* tombstone of a base that has no clone.
LEMMA LeavesClones ==
  ASSUME ClonesInv, NEW t \in Tools, Leaves(t), lineage \in {t, NoTool},
         UNCHANGED <<registered, saved, delivery, editor, rounds>>,
         clones' \in [Bases -> CloneDirs], tombstones' \in [Bases -> Tombstones],
         \A b \in Bases : /\ clones'[b].there = clones[b].there
                          /\ Exists(b) => /\ clones'[b].git = clones[b].git
                                          /\ clones'[b].ino = clones[b].ino
                                          /\ clones'[b].strayed = clones[b].strayed
                                          /\ Astray(clones'[b]) => Astray(clones[b])
                                          /\ tombstones'[b] = tombstones[b]
  PROVE  ClonesInv'
<1>1. ClonesTyped
  BY DEF ClonesInv
<1>2. /\ lineage' = NoTool
      /\ tools' \in [Tools -> {Waiting} \cup Preparing \cup Adopting \cup Removing]
      /\ \A u \in Tools : tools'[u].pc \notin {"waiting", "adopt"} => lineage' = u
  BY <1>1, LeavesTool
<1>3. ClonesTyped'
  BY <1>1, <1>2 DEF ClonesTyped
<1>4. \A b \in Bases : Exists(b)' <=> Exists(b)
  BY DEF Exists
<1>5. LineageOK'
  BY <1>4, LineageKept DEF Exists
<1>6. TailResumable'
  BY <1>4 DEF ClonesInv, TailResumable
<1>7. \A u \in Tools : lineage' # u
  BY <1>2, ClonesAssumption
<1> QED BY <1>3, <1>5, <1>6, <1>7 DEF ClonesInv

\* A clone as it is made.
LEMMA FreshClone ==
  ASSUME NEW i \in Dirs, NEW b \in Bases
  PROVE  /\ Fresh(i, b) \in Directories /\ Fresh(i, b).there = TRUE /\ Fresh(i, b).git = TRUE
         /\ Fresh(i, b).ino = i /\ Fresh(i, b).strayed = FALSE /\ ~Astray(Fresh(i, b))
<1>1. b \in Commits /\ "own" \in Branches
  BY DEF Commits, Branches
<1>2. /\ Fresh(i, b).there = TRUE /\ Fresh(i, b).git = TRUE /\ Fresh(i, b).ino = i
      /\ Fresh(i, b).strayed = FALSE /\ Fresh(i, b).branch = "own"
  BY DEF Fresh
<1>3. Fresh(i, b) \in Directories
  BY <1>1 DEF Fresh, Directories
<1> QED BY <1>2, <1>3 DEF Astray

LEMMA PrepareStep ==
  ASSUME ClonesInv, NEW t \in Tools, NEW b \in Bases, Prepare(t, b)
  PROVE  ClonesInv'
<1>1. ClonesTyped
  BY DEF ClonesInv
<1>2. PICK r : r = [pc |-> IF Exists(b) THEN "register" ELSE "clone", base |-> b, recovers |-> Exists(b)]
  OBVIOUS
<1>3. /\ r.base = b /\ r.pc = IF Exists(b) THEN "register" ELSE "clone"
      /\ r.recovers = Exists(b)
  BY <1>2
<1>4. r \in Preparing
  BY <1>1, <1>2, CloneKinds DEF Preparing
<1>5. Enters(t, r)
  BY <1>2 DEF Prepare
<1>6. UNCHANGED <<clones, registered, tombstones, saved, delivery, editor>>
  BY DEF Prepare, remoteVars
<1>7. /\ tools'[t] = r /\ lineage' = t /\ rounds' \in 0 .. MaxRounds
      /\ tools' \in [Tools -> {Waiting} \cup Preparing \cup Adopting \cup Removing]
      /\ \A u \in Tools : tools'[u].pc \notin {"waiting", "adopt"} => lineage' = u
  BY <1>1, <1>4, <1>5, EntersTool
<1>8. ClonesTyped'
  BY <1>1, <1>6, <1>7 DEF ClonesTyped
<1>9. ToolOK(r)
  <2>1. CASE Exists(b)
    <3>1. clones[b].git
      BY <2>1 DEF Prepare, Intact
    <3>2. r.pc = "register"
      BY <1>3, <2>1
    <3> QED BY <1>3, <2>1, <3>1, <3>2 DEF ToolOK
  <2>2. CASE ~Exists(b)
    <3>1. \A x \in Bases : Exists(x) => x # b /\ Astray(clones[x])
      BY <2>2 DEF Prepare, Claimed
    <3>2. \A x \in Bases : Exists(x) => x # r.base /\ clones[x].strayed
      BY <1>3, <3>1 DEF ClonesInv, LineageOK
    <3>3. r.pc = "clone"
      BY <1>3, <2>2
    <3> QED BY <3>2, <3>3 DEF ToolOK
  <2> QED BY <2>1, <2>2
<1> QED BY <1>6, <1>7, <1>8, <1>9, QuietClones

\* A clone is made when none claims the lineage.
LEMMA CloneStep ==
  ASSUME ClonesInv, NEW t \in Tools, Clone(t)
  PROVE  ClonesInv'
<1>1. ClonesTyped /\ tools[t].pc = "clone"
  BY DEF ClonesInv, Clone
<1>2. lineage = t /\ ToolOK(tools[t])
  BY <1>1, ToolHolds
<1>3. PICK b : b = tools[t].base
  OBVIOUS
<1>4. b \in Bases /\ tools[t] \in Preparing
  BY <1>1, <1>3, ToolKinds
<1>5. \A x \in Bases : Exists(x) => x # b /\ clones[x].strayed
  BY <1>1, <1>2, <1>3 DEF ToolOK
<1>6. PICK i \in Dirs \ InUse : clones' = [clones EXCEPT ![b] = Fresh(i, b)]
  BY <1>3 DEF Clone
<1>7. /\ Fresh(i, b) \in Directories /\ Fresh(i, b).there = TRUE /\ Fresh(i, b).git = TRUE
      /\ ~Astray(Fresh(i, b))
  BY <1>4, FreshClone
<1>8. PICK d : d = Fresh(i, b) /\ d \in Directories /\ d.there = TRUE /\ d.git = TRUE /\ ~Astray(d)
  BY <1>7
<1>9. clones' \in [Bases -> CloneDirs] /\ clones'[b] = d /\ \A x \in Bases : x # b => clones'[x] = clones[x]
  BY <1>1, <1>4, <1>6, <1>8 DEF ClonesTyped, CloneDirs
<1>10. /\ tools'[t].pc = "register" /\ tools'[t].base = b
       /\ \A u \in Tools : u # t => tools'[u] = tools[u]
       /\ tools' \in [Tools -> {Waiting} \cup Preparing \cup Adopting \cup Removing]
  <2>1. StepTo(t, "register")
    BY DEF Clone
  <2> QED BY <1>1, <1>3, <1>4, <2>1, StepToTool
<1>11. UNCHANGED <<registered, tombstones, saved, delivery, lineage, editor, rounds>>
  BY DEF Clone, remoteVars
<1>12. ClonesTyped'
  <2>1. \A u \in Tools : tools'[u].pc \notin {"waiting", "adopt"} => lineage' = u
    BY <1>1, <1>2, <1>10, <1>11 DEF ClonesTyped
  <2> QED BY <1>1, <1>9, <1>10, <1>11, <2>1 DEF ClonesTyped
<1>13. \A x \in Bases : Exists(x)' <=> Exists(x) \/ x = b
  BY <1>8, <1>9 DEF Exists
<1>14. LineageOK'
  <2>1. \A x \in Bases : Exists(x)' /\ Astray(clones'[x]) => clones'[x].strayed
    BY <1>5, <1>8, <1>9, <1>13
  <2>2. \A x, y \in Bases : Exists(x)' /\ Exists(y)' =>
          x = y \/ clones'[x].strayed \/ clones'[y].strayed
    BY <1>5, <1>9, <1>13
  <2> QED BY <2>1, <2>2 DEF LineageOK
<1>15. TailResumable'
  BY <1>5, <1>8, <1>9, <1>11, <1>13 DEF ClonesInv, TailResumable
<1>16. ToolOK(tools[t])'
  BY <1>4, <1>8, <1>9, <1>10, <1>13 DEF ToolOK
<1>17. \A u \in Tools : lineage' = u => u = t
  BY <1>2, <1>11
<1> QED BY <1>12, <1>14, <1>15, <1>16, <1>17 DEF ClonesInv

LEMMA RegisterCloneStep ==
  ASSUME ClonesInv, NEW t \in Tools, RegisterClone(t)
  PROVE  ClonesInv'
<1>1. ClonesTyped /\ tools[t].pc = "register"
  BY DEF ClonesInv, RegisterClone
<1>2. lineage = t /\ ToolOK(tools[t])
  BY <1>1, ToolHolds
<1>3. PICK b : b = tools[t].base
  OBVIOUS
<1>4. b \in Bases /\ tools[t] \in Preparing /\ Exists(b) /\ clones[b].git
  BY <1>1, <1>2, <1>3, ToolKinds DEF ToolOK
<1>5. /\ tools'[t].pc = "metadata" /\ tools'[t].base = b
      /\ \A u \in Tools : u # t => tools'[u] = tools[u]
      /\ tools' \in [Tools -> {Waiting} \cup Preparing \cup Adopting \cup Removing]
  <2>1. StepTo(t, "metadata")
    BY DEF RegisterClone
  <2> QED BY <1>1, <1>3, <1>4, <2>1, StepToTool
<1>6. /\ clones' = clones /\ tombstones' = tombstones /\ registered' = registered \cup {b}
      /\ UNCHANGED <<saved, delivery, lineage, editor, rounds>>
  BY <1>3 DEF RegisterClone, remoteVars
<1>7. ClonesTyped'
  <2>1. \A u \in Tools : tools'[u].pc \notin {"waiting", "adopt"} => lineage' = u
    BY <1>1, <1>2, <1>5, <1>6 DEF ClonesTyped
  <2> QED BY <1>1, <1>4, <1>5, <1>6, <2>1 DEF ClonesTyped
<1>8. \A x : Exists(x)' <=> Exists(x)
  BY <1>6 DEF Exists
<1>9. LineageOK'
  BY <1>6, <1>8 DEF ClonesInv, LineageOK
<1>10. TailResumable'
  BY <1>4, <1>6, <1>8 DEF ClonesInv, TailResumable
<1>11. ToolOK(tools[t])'
  BY <1>4, <1>5, <1>6, <1>8 DEF ToolOK
<1>12. \A u \in Tools : lineage' = u => u = t
  BY <1>2, <1>6
<1> QED BY <1>7, <1>9, <1>10, <1>11, <1>12 DEF ClonesInv

\* A directory whose metadata is written keeps the rest.
LEMMA MetadataChange ==
  ASSUME ClonesTyped, NEW b \in Bases, Exists(b), NEW m \in [version : {1, 2}, head : Commits],
         NEW C, C = [clones EXCEPT ![b].meta = m]
  PROVE  /\ C \in [Bases -> CloneDirs]
         /\ C[b].there = clones[b].there /\ C[b].git = clones[b].git /\ C[b].ino = clones[b].ino
         /\ C[b].broken = clones[b].broken /\ C[b].strayed = clones[b].strayed /\ ~Astray(C[b])
         /\ \A x \in Bases : x # b => C[x] = clones[x]
<1>1. PICK d : d = clones[b] /\ d \in Directories
  BY CloneKinds
<1> DEFINE e == [d EXCEPT !.meta = m]
<1>2. /\ e.there = d.there /\ e.git = d.git /\ e.ino = d.ino /\ e.broken = d.broken
      /\ e.strayed = d.strayed /\ e.meta = m
  BY <1>1 DEF Directories
<1>3. e \in Directories
  BY <1>1 DEF Directories
<1>4. C = [clones EXCEPT ![b] = e]
  BY <1>1
<1> HIDE DEF e
<1>5. ~Astray(e)
  <2>1. m.version # NoMetadata.version
    BY DEF NoMetadata
  <2> QED BY <1>2, <2>1 DEF Astray
<1>6. C[b] = e /\ C \in [Bases -> CloneDirs] /\ \A x \in Bases : x # b => C[x] = clones[x]
  BY <1>3, <1>4 DEF ClonesTyped, CloneDirs
<1> QED BY <1>1, <1>2, <1>5, <1>6

LEMMA WriteMetadataStep ==
  ASSUME ClonesInv, NEW t \in Tools, WriteMetadata(t)
  PROVE  ClonesInv'
<1>1. ClonesTyped /\ tools[t].pc = "metadata"
  BY DEF ClonesInv, WriteMetadata
<1>2. lineage = t /\ ToolOK(tools[t])
  BY <1>1, ToolHolds
<1>3. PICK b, m : b = tools[t].base /\ m = [version |-> 1, head |-> clones[b].head]
  OBVIOUS
<1>4. b \in Bases /\ Exists(b)
  BY <1>1, <1>2, <1>3, ToolKinds DEF ToolOK
<1>5. m \in [version : {1, 2}, head : Commits]
  BY <1>1, <1>3, <1>4, CloneKinds
<1>6. clones' = [clones EXCEPT ![b].meta = m] \/ clones' = clones
  BY <1>3 DEF WriteMetadata
<1>7. /\ clones' \in [Bases -> CloneDirs]
      /\ \A x \in Bases : /\ clones'[x].there = clones[x].there
                          /\ clones'[x].git = clones[x].git /\ clones'[x].ino = clones[x].ino
                          /\ clones'[x].strayed = clones[x].strayed
                          /\ Astray(clones'[x]) => Astray(clones[x])
  BY <1>1, <1>4, <1>5, <1>6, MetadataChange DEF ClonesTyped
<1>8. Leaves(t) /\ UNCHANGED <<registered, tombstones, saved, delivery, editor, rounds>>
  BY DEF WriteMetadata, remoteVars
<1> QED BY <1>1, <1>2, <1>7, <1>8, LeavesClones DEF ClonesTyped

LEMMA AdoptLockedStep ==
  ASSUME ClonesInv, NEW t \in Tools, AdoptLocked(t)
  PROVE  ClonesInv'
<1>1. ClonesTyped /\ tools[t].pc = "adopt" /\ lineage = NoTool
  BY DEF ClonesInv, AdoptLocked
<1>2. PICK b, m : b = tools[t].base /\ m = [version |-> 2, head |-> tools[t].head]
  OBVIOUS
<1>3. b \in Bases /\ m \in [version : {1, 2}, head : Commits]
  BY <1>1, <1>2, ToolKinds
<1>4. (Exists(b) /\ clones' = [clones EXCEPT ![b].meta = m]) \/ clones' = clones
  BY <1>2 DEF AdoptLocked, Proven
<1>5. /\ clones' \in [Bases -> CloneDirs]
      /\ \A x \in Bases : /\ clones'[x].there = clones[x].there
                          /\ clones'[x].git = clones[x].git /\ clones'[x].ino = clones[x].ino
                          /\ clones'[x].strayed = clones[x].strayed
                          /\ Astray(clones'[x]) => Astray(clones[x])
  BY <1>1, <1>3, <1>4, MetadataChange DEF ClonesTyped
<1>6. Leaves(t) /\ UNCHANGED <<registered, tombstones, saved, delivery, editor, rounds>>
  BY DEF AdoptLocked, remoteVars
<1> QED BY <1>1, <1>5, <1>6, LeavesClones DEF ClonesTyped

LEMMA AdoptStep ==
  ASSUME ClonesInv, NEW t \in Tools, NEW b \in Bases, Adopt(t, b)
  PROVE  ClonesInv'
<1>1. ClonesTyped /\ tools[t] = Waiting /\ Exists(b)
  BY DEF ClonesInv, Adopt
<1>2. PICK r : r = [pc |-> "adopt", base |-> b, head |-> clones[b].head]
  OBVIOUS
<1>3. r \in Adopting /\ r.pc = "adopt"
  BY <1>1, <1>2, CloneKinds DEF Adopting
<1>4. tools' = [tools EXCEPT ![t] = r]
  BY <1>2 DEF Adopt
<1>5. /\ tools'[t] = r /\ \A u \in Tools : u # t => tools'[u] = tools[u]
      /\ tools' \in [Tools -> {Waiting} \cup Preparing \cup Adopting \cup Removing]
  BY <1>1, <1>3, <1>4 DEF ClonesTyped
<1>6. UNCHANGED <<clones, registered, tombstones, saved, delivery, lineage, editor, rounds>>
  BY DEF Adopt, remoteVars
<1>7. ClonesTyped'
  <2>1. \A u \in Tools : tools'[u].pc \notin {"waiting", "adopt"} => lineage' = u
    BY <1>1, <1>3, <1>5, <1>6 DEF ClonesTyped
  <2> QED BY <1>1, <1>5, <1>6, <2>1 DEF ClonesTyped
<1>8. ToolOK(r)
  BY <1>3 DEF ToolOK
<1>9. \A u \in Tools : lineage' = u => ToolOK(tools'[u])
  BY <1>5, <1>6, <1>8 DEF ClonesInv
<1> QED BY <1>6, <1>7, <1>9, QuietClones

LEMMA DiesStep ==
  ASSUME ClonesInv, NEW t \in Tools, Dies(t)
  PROVE  ClonesInv'
<1>1. ClonesTyped /\ Leaves(t)
  BY DEF ClonesInv, Dies
<1>2. UNCHANGED <<clones, registered, tombstones, saved, delivery, editor, rounds>>
  BY DEF Dies, remoteVars
<1>3. /\ tools'[t] = Waiting /\ \A u \in Tools : u # t => tools'[u] = tools[u]
      /\ tools' \in [Tools -> {Waiting} \cup Preparing \cup Adopting \cup Removing]
      /\ lineage' = (IF lineage = t THEN NoTool ELSE lineage)
      /\ lineage' \in Tools \cup {NoTool}
      /\ \A u \in Tools : tools'[u].pc \notin {"waiting", "adopt"} => lineage' = u
  BY <1>1, LeavesTool
<1>4. ClonesTyped'
  BY <1>1, <1>2, <1>3 DEF ClonesTyped
<1>5. \A u \in Tools : lineage' = u => ToolOK(tools'[u])
  BY <1>3, ClonesAssumption DEF ClonesInv
<1> QED BY <1>2, <1>4, <1>5, QuietClones

\* A cleanup that begins, or resumes, has a tombstone of the directory that is
\* there.
LEMMA CleanupStep ==
  ASSUME ClonesInv, NEW t \in Tools, NEW b \in Bases, NEW h \in Commits, NEW way \in Ways,
         Cleanup(t, b, h, way)
  PROVE  ClonesInv'
<1>1. ClonesTyped /\ Exists(b)
  BY DEF ClonesInv, Cleanup
<1>2. PICK phase : phase = IF Outdated(b) THEN "none" ELSE tombstones[b].phase
  OBVIOUS
<1>3. PICK i : i = clones[b].ino
  OBVIOUS
<1>4. phase \in Phases /\ i \in Dirs /\ i # 0
  BY <1>1, <1>2, <1>3, TombstoneKinds, CloneKinds DEF Phases
<1>5. PICK r : r = [pc |-> "unregister", base |-> b, head |-> h, way |-> way, ino |-> i,
                    phase |-> phase, raced |-> FALSE]
  OBVIOUS
<1>6. r \in Removing /\ r.pc = "unregister" /\ r.base = b /\ r.ino = i
  BY <1>4, <1>5 DEF Removing
<1>7. Enters(t, r)
  BY <1>2, <1>3, <1>5 DEF Cleanup
<1>8. /\ tools'[t] = r /\ lineage' = t /\ rounds' \in 0 .. MaxRounds
      /\ tools' \in [Tools -> {Waiting} \cup Preparing \cup Adopting \cup Removing]
      /\ \A u \in Tools : tools'[u].pc \notin {"waiting", "adopt"} => lineage' = u
  BY <1>1, <1>6, <1>7, EntersTool
<1>9. clones' = clones /\ registered' = registered /\ UNCHANGED <<saved, delivery, editor>>
  BY DEF Cleanup, remoteVars
<1>10. PICK s : s = Tombstone("prepared", h, way, i)
  OBVIOUS
<1>11. s \in Transactions /\ s.ino = i /\ s.phase = "prepared" /\ s # NoTombstone
  BY <1>4, <1>10 DEF Transactions, Tombstone, Phases, NoTombstone
<1>12. tombstones' = IF phase = "none" THEN [tombstones EXCEPT ![b] = s] ELSE tombstones
  BY <1>2, <1>3, <1>10 DEF Cleanup
<1>13. /\ tombstones' \in [Bases -> Tombstones]
       /\ \A x \in Bases : x # b => tombstones'[x] = tombstones[x]
       /\ tombstones'[b] = IF phase = "none" THEN s ELSE tombstones[b]
  BY <1>1, <1>11, <1>12 DEF ClonesTyped, Tombstones
<1>14. tombstones'[b] # NoTombstone /\ tombstones'[b].ino = clones[b].ino
  <2>1. CASE phase = "none"
    BY <1>3, <1>11, <1>13, <2>1
  <2>2. CASE phase # "none"
    <3>1. ~Outdated(b) /\ tombstones[b].phase # "none"
      BY <1>2, <2>2
    <3>2. tombstones[b] # NoTombstone
      BY <1>1, <3>1, TombstoneKinds
    <3>3. tombstones[b].ino = clones[b].ino
      BY <3>1, <3>2 DEF Cleanup, Leased
    <3> QED BY <1>13, <2>2, <3>2, <3>3
  <2> QED BY <2>1, <2>2
<1>15. ClonesTyped'
  BY <1>1, <1>8, <1>9, <1>13 DEF ClonesTyped
<1>16. \A x : Exists(x)' <=> Exists(x)
  BY <1>9 DEF Exists
<1>17. LineageOK'
  BY <1>9, <1>16 DEF ClonesInv, LineageOK
<1>18. TailResumable'
  <2>1. ~clones[b].git => phase = "registry_removed"
    BY <1>2 DEF Cleanup, Removable, CleanupTail, CandidateClean
  <2>2. ~clones[b].git => tombstones'[b] = tombstones[b]
    BY <1>13, <2>1
  <2> QED BY <1>9, <1>13, <1>16, <2>2 DEF ClonesInv, TailResumable
<1>19. ToolOK(tools[t])'
  BY <1>1, <1>3, <1>6, <1>8, <1>9, <1>14, <1>16 DEF ToolOK
<1>20. \A u \in Tools : lineage' = u => u = t
  BY <1>8
<1> QED BY <1>15, <1>17, <1>18, <1>19, <1>20 DEF ClonesInv

LEMMA CleanupGoneStep ==
  ASSUME ClonesInv, NEW t \in Tools, NEW b \in Bases, NEW h \in Commits, NEW way \in Ways,
         CleanupGone(t, b, h, way)
  PROVE  ClonesInv'
<1>1. ClonesTyped /\ ~Exists(b)
  BY DEF ClonesInv, CleanupGone
<1>2. PICK r : r = [pc |-> "unregister", base |-> b, head |-> h, way |-> way, ino |-> 0,
                    phase |-> tombstones[b].phase, raced |-> FALSE]
  OBVIOUS
<1>3. r \in Removing /\ r.pc = "unregister" /\ r.base = b /\ r.ino = 0
  BY <1>1, <1>2, TombstoneKinds DEF Removing
<1>4. Enters(t, r)
  BY <1>2 DEF CleanupGone
<1>5. /\ tools'[t] = r /\ lineage' = t /\ rounds' \in 0 .. MaxRounds
      /\ tools' \in [Tools -> {Waiting} \cup Preparing \cup Adopting \cup Removing]
      /\ \A u \in Tools : tools'[u].pc \notin {"waiting", "adopt"} => lineage' = u
  BY <1>1, <1>3, <1>4, EntersTool
<1>6. clones' = clones /\ registered' = registered /\ UNCHANGED <<saved, delivery, editor>>
  BY DEF CleanupGone, remoteVars
<1>7. PICK s : s = Tombstone("prepared", h, way, 0)
  OBVIOUS
<1>8. s \in Transactions
  BY <1>7 DEF Transactions, Tombstone, Phases
<1>9. tombstones' = [tombstones EXCEPT ![b] = s] \/ tombstones' = tombstones
  BY <1>7 DEF CleanupGone
<1>10. /\ tombstones' \in [Bases -> Tombstones]
       /\ \A x \in Bases : x # b => tombstones'[x] = tombstones[x]
  BY <1>1, <1>8, <1>9 DEF ClonesTyped, Tombstones
<1>11. ClonesTyped'
  BY <1>1, <1>5, <1>6, <1>10 DEF ClonesTyped
<1>12. \A x : Exists(x)' <=> Exists(x)
  BY <1>6 DEF Exists
<1>13. LineageOK'
  BY <1>6, <1>12 DEF ClonesInv, LineageOK
<1>14. TailResumable'
  BY <1>1, <1>6, <1>10, <1>12 DEF ClonesInv, TailResumable
<1>15. ToolOK(tools[t])'
  BY <1>1, <1>3, <1>5, <1>12 DEF ToolOK
<1>16. \A u \in Tools : lineage' = u => u = t
  BY <1>5
<1> QED BY <1>11, <1>13, <1>14, <1>15, <1>16 DEF ClonesInv

LEMMA UnregisterStep ==
  ASSUME ClonesInv, NEW t \in Tools, Unregister(t)
  PROVE  ClonesInv'
<1>1. ClonesTyped /\ tools[t].pc = "unregister"
  BY DEF ClonesInv, Unregister
<1>2. lineage = t /\ ToolOK(tools[t])
  BY <1>1, ToolHolds
<1>3. PICK b, i : b = tools[t].base /\ i = tools[t].ino
  OBVIOUS
<1>4. b \in Bases /\ tools[t] \in Removing
  BY <1>1, <1>3, ToolKinds
<1>5. \/ i = 0 /\ ~Exists(b)
      \/ /\ Exists(b) /\ i = clones[b].ino /\ tombstones[b].ino = clones[b].ino
         /\ tombstones[b] # NoTombstone
  BY <1>1, <1>2, <1>3 DEF ToolOK
<1>6. /\ tools'[t].pc = "mark" /\ tools'[t].base = b /\ tools'[t].ino = i
      /\ \A u \in Tools : u # t => tools'[u] = tools[u]
      /\ tools' \in [Tools -> {Waiting} \cup Preparing \cup Adopting \cup Removing]
  <2>1. StepTo(t, "mark")
    BY DEF Unregister
  <2> QED BY <1>1, <1>3, <1>4, <2>1, StepToTool
<1>7. /\ clones' = clones /\ tombstones' = tombstones /\ registered' = registered \ {b}
      /\ UNCHANGED <<saved, delivery, lineage, editor, rounds>>
  BY <1>3 DEF Unregister, remoteVars
<1>8. ClonesTyped'
  <2>1. \A u \in Tools : tools'[u].pc \notin {"waiting", "adopt"} => lineage' = u
    BY <1>1, <1>2, <1>6, <1>7 DEF ClonesTyped
  <2>2. registered' \subseteq Bases
    BY <1>1, <1>7 DEF ClonesTyped
  <2> QED BY <1>1, <1>6, <1>7, <2>1, <2>2 DEF ClonesTyped
<1>9. \A x : Exists(x)' <=> Exists(x)
  BY <1>7 DEF Exists
<1>10. LineageOK'
  BY <1>7, <1>9 DEF ClonesInv, LineageOK
<1>11. TailResumable'
  BY <1>7, <1>9 DEF ClonesInv, TailResumable
<1>12. ToolOK(tools[t])'
  BY <1>5, <1>6, <1>7, <1>9 DEF ToolOK
<1>13. \A u \in Tools : lineage' = u => u = t
  BY <1>2, <1>7
<1> QED BY <1>8, <1>10, <1>11, <1>12, <1>13 DEF ClonesInv

LEMMA MarkRemovedStep ==
  ASSUME ClonesInv, NEW t \in Tools, MarkRemoved(t)
  PROVE  ClonesInv'
<1>1. ClonesTyped /\ tools[t].pc = "mark"
  BY DEF ClonesInv, MarkRemoved
<1>2. lineage = t /\ ToolOK(tools[t])
  BY <1>1, ToolHolds
<1>3. PICK b, i : b = tools[t].base /\ i = tools[t].ino
  OBVIOUS
<1>4. b \in Bases /\ tools[t] \in Removing /\ tools[t].head \in Commits /\ tools[t].way \in Ways
  BY <1>1, <1>3, ToolKinds
<1>5. \/ i = 0 /\ ~Exists(b)
      \/ /\ Exists(b) /\ i = clones[b].ino /\ tombstones[b].ino = clones[b].ino
         /\ tombstones[b] # NoTombstone
  BY <1>1, <1>2, <1>3 DEF ToolOK
<1>6. b \notin registered
  BY <1>1, <1>2, <1>3 DEF ToolOK
<1>7. /\ clones' = clones /\ registered' = registered
      /\ UNCHANGED <<saved, delivery, editor, rounds>>
  BY DEF MarkRemoved, remoteVars
<1>8. CASE i = 0
  <2>1. ~Exists(b)
    BY <1>1, <1>4, <1>5, <1>8, CloneKinds
  <2>2. PICK s : s = Tombstone("complete", tools[t].head, tools[t].way, 0)
    OBVIOUS
  <2>3. s \in Transactions
    BY <1>4, <2>2 DEF Transactions, Tombstone, Phases
  <2>4. tombstones' = [tombstones EXCEPT ![b] = s] /\ Leaves(t)
    BY <1>3, <1>8, <2>2 DEF MarkRemoved
  <2>5. /\ tombstones' \in [Bases -> Tombstones]
        /\ \A x \in Bases : x # b => tombstones'[x] = tombstones[x]
    BY <1>1, <2>3, <2>4 DEF ClonesTyped, Tombstones
  <2> QED BY <1>1, <1>2, <1>7, <2>1, <2>4, <2>5, LeavesClones DEF ClonesTyped
<1>9. CASE i # 0
  <2>1. Exists(b) /\ tombstones[b].ino = clones[b].ino /\ tombstones[b] # NoTombstone
    BY <1>5, <1>9
  <2>2. PICK s : s = tombstones[b] /\ s \in Transactions
    BY <1>1, <1>4, <2>1, TombstoneKinds
  <2> DEFINE q == [s EXCEPT !.phase = "registry_removed"]
  <2>3. q.phase = "registry_removed" /\ q.ino = s.ino /\ q \in Transactions
    BY <2>2 DEF Transactions, Phases
  <2>4. tombstones' = [tombstones EXCEPT ![b] = q] /\ StepTo(t, "verify") /\ lineage' = lineage
    BY <1>1, <1>3, <1>4, <1>9, <2>2 DEF MarkRemoved, PhaseMarked, ClonesTyped
  <2> HIDE DEF q
  <2>5. /\ tombstones' \in [Bases -> Tombstones] /\ tombstones'[b] = q
        /\ \A x \in Bases : x # b => tombstones'[x] = tombstones[x]
    BY <1>1, <1>4, <2>3, <2>4 DEF ClonesTyped, Tombstones
  <2>6. /\ tools'[t].pc = "verify" /\ tools'[t].base = b /\ tools'[t].ino = i
        /\ \A u \in Tools : u # t => tools'[u] = tools[u]
        /\ tools' \in [Tools -> {Waiting} \cup Preparing \cup Adopting \cup Removing]
    BY <1>1, <1>3, <1>4, <2>4, StepToTool
  <2>7. ClonesTyped'
    <3>1. \A u \in Tools : tools'[u].pc \notin {"waiting", "adopt"} => lineage' = u
      BY <1>1, <1>2, <2>4, <2>6 DEF ClonesTyped
    <3> QED BY <1>1, <1>7, <2>4, <2>5, <2>6, <3>1 DEF ClonesTyped
  <2>8. \A x : Exists(x)' <=> Exists(x)
    BY <1>7 DEF Exists
  <2>9. LineageOK'
    BY <1>7, <2>8 DEF ClonesInv, LineageOK
  <2>10. TailResumable'
    BY <1>6, <1>7, <2>1, <2>2, <2>3, <2>5, <2>8 DEF ClonesInv, TailResumable
  <2>11. ToolOK(tools[t])'
    BY <1>6, <1>7, <2>1, <2>2, <2>3, <2>5, <2>6, <2>8 DEF ToolOK
  <2>12. \A u \in Tools : lineage' = u => u = t
    BY <1>2, <2>4
  <2> QED BY <2>7, <2>9, <2>10, <2>11, <2>12 DEF ClonesInv
<1> QED BY <1>8, <1>9

\* What the second verification establishes: a clone that is whole holds nothing
\* that is not saved.
LEMMA VerifyAgainStep ==
  ASSUME ClonesInv, NEW t \in Tools, VerifyAgain(t)
  PROVE  ClonesInv'
<1>1. ClonesTyped /\ tools[t].pc = "verify"
  BY DEF ClonesInv, VerifyAgain
<1>2. lineage = t /\ ToolOK(tools[t])
  BY <1>1, ToolHolds
<1>3. PICK b : b = tools[t].base
  OBVIOUS
<1>4. b \in Bases /\ tools[t] \in Removing /\ tools[t].way \in Ways
  BY <1>1, <1>3, ToolKinds
<1>5. UNCHANGED <<clones, registered, tombstones, saved, delivery, editor, rounds>>
  BY DEF VerifyAgain, remoteVars
<1>6. CASE Verified(t)
  <2>1. StepTo(t, "remove") /\ lineage' = lineage
    BY <1>6 DEF VerifyAgain
  <2>2. /\ tools'[t].pc = "remove" /\ tools'[t].base = b /\ tools'[t].way = tools[t].way
        /\ \A u \in Tools : u # t => tools'[u] = tools[u]
        /\ tools' \in [Tools -> {Waiting} \cup Preparing \cup Adopting \cup Removing]
    BY <1>1, <1>3, <1>4, <2>1, StepToTool
  <2>3. ClonesTyped'
    <3>1. \A u \in Tools : tools'[u].pc \notin {"waiting", "adopt"} => lineage' = u
      BY <1>1, <1>2, <2>1, <2>2 DEF ClonesTyped
    <3> QED BY <1>1, <1>5, <2>1, <2>2, <3>1 DEF ClonesTyped
  <2>4. Intact(clones[b]) => /\ ~clones[b].edited /\ clones[b].head \in Bases \cup saved
                             /\ tools[t].way = "abandon" => ~clones[b].extra
    BY <1>3, <1>4, <1>6
       DEF Verified, Removable, Evidence, CleanupTail, CandidateClean, Unmodified, Intact, Dirty
  <2>5. /\ Exists(b) /\ tombstones[b].ino = clones[b].ino
        /\ tombstones[b].phase = "registry_removed" /\ b \notin registered
    BY <1>1, <1>2, <1>3 DEF ToolOK
  <2>6. ToolOK(tools'[t])
    BY <2>2, <2>4, <2>5 DEF ToolOK
  <2>7. \A u \in Tools : lineage' = u => ToolOK(tools'[u])
    BY <1>2, <2>1, <2>6
  <2> QED BY <1>5, <2>3, <2>7, QuietClones
<1>7. CASE ~Verified(t)
  <2>1. Leaves(t)
    BY <1>7 DEF VerifyAgain
  <2> QED BY <1>1, <1>2, <1>5, <2>1, LeavesClones DEF ClonesTyped
<1> QED BY <1>6, <1>7

\* A directory that is noted keeps the rest.
LEMMA NotedClone ==
  ASSUME NEW d \in Directories
  PROVE  /\ Noted(d) \in Directories /\ Noted(d).there = TRUE /\ Noted(d).git = d.git
         /\ Noted(d).ino = d.ino /\ Noted(d).broken = d.broken
         /\ d.strayed => Noted(d).strayed
         /\ Astray(Noted(d)) => Noted(d).strayed
<1> DEFINE note == d.strayed \/ Astray(d)
<1>1. note \in BOOLEAN /\ Noted(d) = [d EXCEPT !.strayed = note]
  BY DEF Noted
<1> HIDE DEF note
<1>2. /\ Noted(d).there = TRUE /\ Noted(d).git = d.git /\ Noted(d).ino = d.ino
      /\ Noted(d).broken = d.broken /\ Noted(d).meta = d.meta /\ Noted(d).branch = d.branch
      /\ Noted(d).strayed = note
  BY <1>1 DEF Directories
<1>3. Noted(d) \in Directories
  BY <1>1 DEF Directories
<1>4. Astray(Noted(d)) => Astray(d)
  BY <1>2 DEF Astray
<1>5. d.strayed \/ Astray(d) => note
  BY DEF note
<1> QED BY <1>2, <1>3, <1>4, <1>5

\* What a removal leaves of a directory.
LEMMA RemainsClone ==
  ASSUME NEW d \in Directories, NEW b \in Bases, NEW e \in Remains(d, b)
  PROVE  /\ e \in Directories /\ e.ino = d.ino /\ e.broken = TRUE /\ e.strayed = d.strayed
<1>1. CASE e = [d EXCEPT !.broken = TRUE]
  BY <1>1 DEF Directories
<1>2. CASE e = [d EXCEPT !.broken = TRUE, !.meta = NoMetadata]
  <2> DEFINE f == [d EXCEPT !.broken = TRUE]
  <2>1. f \in Directories /\ f.ino = d.ino /\ f.broken = TRUE /\ f.strayed = d.strayed
    BY DEF Directories
  <2>2. e = [f EXCEPT !.meta = NoMetadata]
    BY <1>2
  <2> HIDE DEF f
  <2> QED BY <2>1, <2>2 DEF Directories
<1>3. CASE e = [Fresh(d.ino, b) EXCEPT !.broken = TRUE, !.git = FALSE, !.strayed = d.strayed]
  <2>1. d.ino \in Dirs /\ d.strayed \in BOOLEAN
    BY DEF Directories
  <2>2. PICK f : f = Fresh(d.ino, b) /\ f \in Directories /\ f.ino = d.ino
    BY <2>1, FreshClone
  <2> DEFINE g == [f EXCEPT !.broken = TRUE]
             h == [g EXCEPT !.git = FALSE]
  <2>3. e = [h EXCEPT !.strayed = d.strayed]
    BY <1>3, <2>2
  <2>4. g \in Directories /\ g.ino = d.ino /\ g.broken = TRUE
    BY <2>2 DEF Directories
  <2> HIDE DEF g
  <2>5. h \in Directories /\ h.ino = d.ino /\ h.broken = TRUE
    BY <2>4 DEF Directories
  <2> HIDE DEF h
  <2> QED BY <2>1, <2>3, <2>5 DEF Directories
<1> QED BY <1>1, <1>2, <1>3 DEF Remains

\* The removal breaks a directory, or takes it away.
LEMMA RemoveTreeStep ==
  ASSUME ClonesInv, NEW t \in Tools, RemoveTree(t)
  PROVE  ClonesInv'
<1>1. ClonesTyped /\ tools[t].pc = "remove"
  BY DEF ClonesInv, RemoveTree
<1>2. lineage = t /\ ToolOK(tools[t])
  BY <1>1, ToolHolds
<1>3. PICK b : b = tools[t].base
  OBVIOUS
<1>4. b \in Bases /\ tools[t] \in Removing
  BY <1>1, <1>3, ToolKinds
<1>5. /\ Exists(b) /\ tombstones[b].ino = clones[b].ino
      /\ tombstones[b].phase = "registry_removed" /\ b \notin registered
  BY <1>1, <1>2, <1>3 DEF ToolOK
<1>6. UNCHANGED <<registered, tombstones, saved, delivery, lineage, editor, rounds>>
  BY DEF RemoveTree, remoteVars
<1>7. PICK d : d = clones[b] /\ d \in Directories
  BY <1>1, <1>4, <1>5, CloneKinds
<1>8. \A u \in Tools : lineage' = u => u = t
  BY <1>2, <1>6
<1>9. ASSUME NEW f \in Remains(d, b), tools' = tools, clones' = [clones EXCEPT ![b] = Noted(f)]
      PROVE  ClonesInv'
  <2>1. f \in Directories /\ f.ino = d.ino /\ f.broken = TRUE /\ f.strayed = d.strayed
    <3>1. b \in Bases /\ d \in Directories /\ f \in Remains(d, b)
      BY <1>4, <1>7, <1>9
    <3> QED BY <3>1, RemainsClone
  <2> DEFINE e == Noted(f)
  <2>2. /\ e \in Directories /\ e.there = TRUE /\ e.ino = f.ino /\ e.broken = f.broken
        /\ f.strayed => e.strayed
        /\ Astray(e) => e.strayed
    BY <2>1, NotedClone
  <2>3. /\ e \in Directories /\ e.there = TRUE /\ e.ino = d.ino /\ e.broken = TRUE
        /\ d.strayed => e.strayed
        /\ Astray(e) => e.strayed
    BY <2>1, <2>2
  <2>4. clones' = [clones EXCEPT ![b] = e]
    BY <1>9
  <2> HIDE DEF e
  <2>5. /\ clones' \in [Bases -> CloneDirs] /\ clones'[b] = e
        /\ \A x \in Bases : x # b => clones'[x] = clones[x]
    BY <1>1, <1>4, <2>3, <2>4 DEF ClonesTyped, CloneDirs
  <2>6. ClonesTyped'
    BY <1>1, <1>6, <1>9, <2>5 DEF ClonesTyped
  <2>7. \A x \in Bases : Exists(x)' <=> Exists(x)
    BY <1>5, <2>3, <2>5 DEF Exists
  <2>8. LineageOK'
    BY <1>5, <1>7, <2>3, <2>5, <2>7, LineageKept DEF Exists
  <2>9. TailResumable'
    BY <1>5, <1>6, <1>7, <2>3, <2>5, <2>7 DEF ClonesInv, TailResumable
  <2>10. ~Intact(e)
    BY <2>3 DEF Intact
  <2>11. ToolOK(tools[t])'
    <3>1. tools'[t].pc = "remove" /\ tools'[t].base = b
      BY <1>1, <1>3, <1>9
    <3>2. Exists(b)' /\ tombstones'[b].ino = clones'[b].ino
      BY <1>4, <1>5, <1>6, <1>7, <2>3, <2>5, <2>7
    <3>3. ~Intact(clones[b])'
      BY <2>5, <2>10 DEF Intact
    <3> QED BY <1>5, <1>6, <3>1, <3>2, <3>3 DEF ToolOK, Intact
  <2> QED BY <1>8, <2>6, <2>8, <2>9, <2>11 DEF ClonesInv
<1>10. CASE clones' = [clones EXCEPT ![b] = NoClone] /\ StepTo(t, "complete")
  <2>1. /\ clones' \in [Bases -> CloneDirs] /\ clones'[b] = NoClone
        /\ \A x \in Bases : x # b => clones'[x] = clones[x]
    BY <1>1, <1>4, <1>10 DEF ClonesTyped, CloneDirs
  <2>2. /\ tools'[t].pc = "complete" /\ tools'[t].base = b
        /\ \A u \in Tools : u # t => tools'[u] = tools[u]
        /\ tools' \in [Tools -> {Waiting} \cup Preparing \cup Adopting \cup Removing]
    BY <1>1, <1>3, <1>4, <1>10, StepToTool
  <2>3. ClonesTyped'
    <3>1. \A u \in Tools : tools'[u].pc \notin {"waiting", "adopt"} => lineage' = u
      BY <1>1, <1>2, <1>6, <2>2 DEF ClonesTyped
    <3> QED BY <1>1, <1>6, <2>1, <2>2, <3>1 DEF ClonesTyped
  <2>4. ~Exists(b)' /\ \A x \in Bases : x # b => (Exists(x)' <=> Exists(x))
    BY <2>1 DEF Exists, NoClone
  <2>5. LineageOK'
    BY <2>1, <2>4, LineageKept DEF Exists
  <2>6. TailResumable'
    BY <1>6, <2>1, <2>4 DEF ClonesInv, TailResumable
  <2>7. tombstones[b] # NoTombstone
    BY <1>5 DEF NoTombstone
  <2>8. ToolOK(tools[t])'
    BY <1>6, <2>2, <2>4, <2>7 DEF ToolOK
  <2> QED BY <1>8, <2>3, <2>5, <2>6, <2>8 DEF ClonesInv
<1>11. \/ \E f \in Remains(d, b) : clones' = [clones EXCEPT ![b] = Noted(f)] /\ tools' = tools
       \/ clones' = [clones EXCEPT ![b] = NoClone] /\ StepTo(t, "complete")
  BY <1>3, <1>7, Zenon DEF RemoveTree
<1> QED BY <1>9, <1>10, <1>11, Zenon

LEMMA CompleteStep ==
  ASSUME ClonesInv, NEW t \in Tools, Complete(t)
  PROVE  ClonesInv'
<1>1. ClonesTyped /\ tools[t].pc = "complete"
  BY DEF ClonesInv, Complete
<1>2. lineage = t /\ ToolOK(tools[t])
  BY <1>1, ToolHolds
<1>3. PICK b : b = tools[t].base
  OBVIOUS
<1>4. b \in Bases /\ ~Exists(b) /\ tombstones[b] # NoTombstone
  BY <1>1, <1>2, <1>3, ToolKinds DEF ToolOK
<1>5. PICK s : s = tombstones[b] /\ s \in Transactions
  BY <1>1, <1>4, TombstoneKinds
<1> DEFINE q == [s EXCEPT !.phase = "complete"]
<1>6. q \in Transactions
  BY <1>5 DEF Transactions, Phases
<1>7. tombstones' = [tombstones EXCEPT ![b] = q]
  BY <1>3, <1>5 DEF Complete
<1> HIDE DEF q
<1>8. /\ tombstones' \in [Bases -> Tombstones]
      /\ \A x \in Bases : x # b => tombstones'[x] = tombstones[x]
  BY <1>1, <1>6, <1>7 DEF ClonesTyped, Tombstones
<1>9. Leaves(t) /\ UNCHANGED <<clones, registered, saved, delivery, editor, rounds>>
  BY DEF Complete, remoteVars
<1> QED BY <1>1, <1>2, <1>4, <1>8, <1>9, LeavesClones DEF ClonesTyped

\* Agents that open and close a workspace, and the remote.
LEMMA OutsideStep ==
  ASSUME ClonesInv,
         \/ \E b \in Bases : OpenWorkspace(b, "tool") \/ OpenWorkspace(b, "task") \/ Save(b)
         \/ CloseWorkspace \/ Deliver
  PROVE  ClonesInv'
<1>1. ClonesTyped
  BY DEF ClonesInv
<1>2. UNCHANGED <<clones, registered, tombstones, lineage, tools, rounds>>
  BY DEF OpenWorkspace, Save, CloseWorkspace, Deliver, remoteVars
<1>3. editor' \in [who : {"tool", "task"}, base : Bases] \cup {Nobody}
  BY <1>1 DEF OpenWorkspace, Save, CloseWorkspace, Deliver, ClonesTyped
<1>4. saved \subseteq saved' /\ saved' \subseteq Works
  BY <1>1 DEF OpenWorkspace, Save, CloseWorkspace, Deliver, ClonesTyped, remoteVars
<1>5. delivery' \in {"absent", "published", "open"}
  BY <1>1 DEF OpenWorkspace, Save, CloseWorkspace, Deliver, ClonesTyped, remoteVars
<1>6. ClonesTyped'
  BY <1>1, <1>2, <1>3, <1>4, <1>5 DEF ClonesTyped
<1>7. \A u \in Tools : lineage' = u => ToolOK(tools'[u])
  BY <1>2 DEF ClonesInv
<1> QED BY <1>2, <1>4, <1>6, <1>7, QuietClones

\* What an agent makes of a directory.
LEMMA EditedClone ==
  ASSUME NEW d \in Directories, NEW b \in Bases, NEW e \in EditsOf(d, b)
  PROVE  /\ e \in Directories /\ e.git = d.git /\ e.ino = d.ino /\ e.broken = d.broken
         /\ e.strayed = d.strayed
<1>1. CASE e = [d EXCEPT !.edited = TRUE]
  BY <1>1 DEF Directories
<1>2. ASSUME NEW w \in Works, e = [d EXCEPT !.edited = FALSE, !.head = w]
      PROVE  /\ e \in Directories /\ e.git = d.git /\ e.ino = d.ino /\ e.broken = d.broken
             /\ e.strayed = d.strayed
  <2>1. w \in Commits
    BY DEF Commits
  <2> DEFINE f == [d EXCEPT !.edited = FALSE]
  <2>2. /\ f \in Directories /\ f.git = d.git /\ f.ino = d.ino /\ f.broken = d.broken
        /\ f.strayed = d.strayed
    BY DEF Directories
  <2>3. e = [f EXCEPT !.head = w]
    BY <1>2
  <2> HIDE DEF f
  <2> QED BY <2>1, <2>2, <2>3 DEF Directories
<1>3. ASSUME NEW to \in [head : Works \cup {b}, branch : Branches],
             e = [d EXCEPT !.head = to.head, !.branch = to.branch, !.extra = TRUE]
      PROVE  /\ e \in Directories /\ e.git = d.git /\ e.ino = d.ino /\ e.broken = d.broken
             /\ e.strayed = d.strayed
  <2>1. to.head \in Commits /\ to.branch \in Branches
    BY DEF Commits
  <2> DEFINE f == [d EXCEPT !.head = to.head]
             g == [f EXCEPT !.branch = to.branch]
  <2>2. e = [g EXCEPT !.extra = TRUE]
    BY <1>3
  <2>3. /\ f \in Directories /\ f.git = d.git /\ f.ino = d.ino /\ f.broken = d.broken
        /\ f.strayed = d.strayed
    BY <2>1 DEF Directories
  <2> HIDE DEF f
  <2>4. /\ g \in Directories /\ g.git = d.git /\ g.ino = d.ino /\ g.broken = d.broken
        /\ g.strayed = d.strayed
    BY <2>1, <2>3 DEF Directories
  <2> HIDE DEF g
  <2> QED BY <2>2, <2>4 DEF Directories
<1>4. ASSUME NEW br \in {"own", "detached"}, e = [d EXCEPT !.branch = br]
      PROVE  /\ e \in Directories /\ e.git = d.git /\ e.ino = d.ino /\ e.broken = d.broken
             /\ e.strayed = d.strayed
  <2>1. br \in Branches
    BY DEF Branches
  <2> QED BY <1>4, <2>1 DEF Directories
<1>5. \/ e = [d EXCEPT !.edited = TRUE]
      \/ \E w \in Works : e = [d EXCEPT !.edited = FALSE, !.head = w]
      \/ \E to \in [head : Works \cup {b}, branch : Branches] :
           e = [d EXCEPT !.head = to.head, !.branch = to.branch, !.extra = TRUE]
      \/ \E br \in {"own", "detached"} : e = [d EXCEPT !.branch = br]
  BY DEF EditsOf
<1> QED BY <1>1, <1>2, <1>3, <1>4, <1>5, Zenon

\* What an edit leaves as it is.
LEMMA EditChange ==
  ASSUME ClonesTyped, Edit
  PROVE  /\ editor.base \in Bases /\ Exists(editor.base) /\ clones[editor.base].git
         /\ clones' \in [Bases -> CloneDirs]
         /\ \A x \in Bases : x # editor.base => clones'[x] = clones[x]
         /\ clones'[editor.base].there = TRUE /\ clones'[editor.base].git = clones[editor.base].git
         /\ clones'[editor.base].ino = clones[editor.base].ino
         /\ clones'[editor.base].broken = clones[editor.base].broken
         /\ clones[editor.base].strayed => clones'[editor.base].strayed
         /\ Astray(clones'[editor.base]) => clones'[editor.base].strayed
<1>1. PICK b : b = editor.base
  OBVIOUS
<1>2. b \in Bases
  BY <1>1 DEF Edit, ClonesTyped
<1>3. Exists(b) /\ clones[b].git
  BY <1>1 DEF Edit
<1>4. PICK d : d = clones[b] /\ d \in Directories
  BY <1>2, <1>3, CloneKinds
<1>5. PICK f \in EditsOf(d, b) : clones' = [clones EXCEPT ![b] = Noted(f)]
  BY <1>1, <1>4 DEF Edit
<1>6. /\ f \in Directories /\ f.git = d.git /\ f.ino = d.ino /\ f.broken = d.broken
      /\ f.strayed = d.strayed
  BY <1>2, <1>4, EditedClone
<1>7. PICK e : e = Noted(f)
  OBVIOUS
<1>8. /\ e \in Directories /\ e.there = TRUE /\ e.git = f.git /\ e.ino = f.ino /\ e.broken = f.broken
      /\ f.strayed => e.strayed
      /\ Astray(e) => e.strayed
  BY <1>6, <1>7, NotedClone
<1>9. clones' \in [Bases -> CloneDirs] /\ clones'[b] = e
      /\ \A x \in Bases : x # b => clones'[x] = clones[x]
  BY <1>2, <1>5, <1>7, <1>8 DEF ClonesTyped, CloneDirs
<1> QED BY <1>1, <1>2, <1>3, <1>4, <1>6, <1>8, <1>9

\* An edit that lands during a removal is remembered.
LEMMA EditStep ==
  ASSUME ClonesInv, Edit
  PROVE  ClonesInv'
<1>1. ClonesTyped
  BY DEF ClonesInv
<1>2. PICK b : b = editor.base
  OBVIOUS
<1>3. /\ b \in Bases /\ Exists(b) /\ clones[b].git
      /\ clones' \in [Bases -> CloneDirs]
      /\ \A x \in Bases : x # b => clones'[x] = clones[x]
      /\ clones'[b].there = TRUE /\ clones'[b].git = clones[b].git
      /\ clones'[b].ino = clones[b].ino /\ clones'[b].broken = clones[b].broken
      /\ clones[b].strayed => clones'[b].strayed
      /\ Astray(clones'[b]) => clones'[b].strayed
  BY <1>1, <1>2, EditChange
<1>4. UNCHANGED <<registered, tombstones, saved, delivery, lineage, editor, rounds>>
  BY DEF Edit, remoteVars
<1>5. ASSUME NEW t \in Tools
      PROVE  /\ tools'[t] \in {Waiting} \cup Preparing \cup Adopting \cup Removing
             /\ tools'[t].pc = tools[t].pc
             /\ tools[t].pc # "remove" => tools'[t] = tools[t]
             /\ tools[t].pc = "remove" => /\ tools'[t].base = tools[t].base
                                          /\ tools[t].base # b => tools'[t] = tools[t]
                                          /\ tools[t].base = b => tools'[t].raced = TRUE
  <2>1. PICK r : r = tools[t]
    OBVIOUS
  <2> DEFINE q == [r EXCEPT !.raced = TRUE]
  <2>2. tools'[t] = IF r.pc = "remove" /\ r.base = b THEN q ELSE r
    BY <1>2, <2>1 DEF Edit
  <2>3. r \in Removing => q \in Removing /\ q.pc = r.pc /\ q.base = r.base /\ q.raced = TRUE
    BY DEF Removing
  <2>4. r.pc = "remove" => r \in Removing
    BY <1>1, <2>1, ToolKinds
  <2>5. r \in {Waiting} \cup Preparing \cup Adopting \cup Removing
    BY <1>1, <2>1 DEF ClonesTyped
  <2> HIDE DEF q
  <2> QED BY <2>1, <2>2, <2>3, <2>4, <2>5
<1>6. tools' \in [Tools -> {Waiting} \cup Preparing \cup Adopting \cup Removing]
  <2>1. PICK S : S = {Waiting} \cup Preparing \cup Adopting \cup Removing
    OBVIOUS
  <2>2. \A t \in Tools : tools'[t] \in S
    BY <1>5, <2>1
  <2>3. tools' = [t \in Tools |-> tools'[t]]
    BY DEF Edit
  <2> QED BY <2>1, <2>2, <2>3
<1>7. ClonesTyped'
  <2>1. \A t \in Tools : tools'[t].pc \notin {"waiting", "adopt"} => lineage' = t
    BY <1>1, <1>4, <1>5 DEF ClonesTyped
  <2> QED BY <1>1, <1>3, <1>4, <1>6, <2>1 DEF ClonesTyped
<1>8. \A x \in Bases : Exists(x)' <=> Exists(x)
  BY <1>3 DEF Exists
<1>9. LineageOK'
  BY <1>3, <1>8, LineageKept DEF Exists
<1>10. TailResumable'
  BY <1>3, <1>4, <1>8 DEF ClonesInv, TailResumable
<1>11. ASSUME NEW t \in Tools, lineage' = t PROVE ToolOK(tools[t])'
  <2>1. PICK r : r = tools[t] /\ ToolOK(r)
    BY <1>4, <1>11 DEF ClonesInv
  <2>2. PICK q : q = tools'[t]
    OBVIOUS
  <2>3. r.pc \notin {"waiting", "adopt"} => r.base \in Bases
    BY <1>1, <2>1, ToolKinds
  <2>4. \A x \in Bases : /\ clones'[x].git = clones[x].git
                         /\ Exists(x) => clones'[x].ino = clones[x].ino
                         /\ clones[x].strayed => clones'[x].strayed
    BY <1>3
  <2>5. ToolOK(q)'
    <3>1. CASE r.pc # "remove"
      <4>1. q = r
        BY <1>5, <2>1, <2>2, <3>1
      <4> QED BY <1>4, <1>8, <2>1, <2>3, <2>4, <3>1, <4>1 DEF ToolOK
    <3>2. CASE r.pc = "remove"
      <4>1. q.pc = "remove" /\ q.base = r.base
        BY <1>5, <2>1, <2>2, <3>2
      <4>2. /\ Exists(r.base)' /\ tombstones'[r.base].ino = clones'[r.base].ino
            /\ tombstones'[r.base].phase = "registry_removed" /\ r.base \notin registered'
        BY <1>4, <1>8, <2>1, <2>3, <2>4, <3>2 DEF ToolOK
      <4>3. CASE r.base = b
        <5>1. q.raced = TRUE
          BY <1>5, <2>1, <2>2, <3>2, <4>3
        <5> QED BY <4>1, <4>2, <5>1 DEF ToolOK
      <4>4. CASE r.base # b
        <5>1. q = r /\ clones'[r.base] = clones[r.base]
          BY <1>3, <1>5, <2>1, <2>2, <2>3, <3>2, <4>4
        <5>2. ~r.raced /\ Intact(clones'[r.base]) =>
                /\ ~clones'[r.base].edited /\ clones'[r.base].head \in Bases \cup saved'
                /\ r.way = "abandon" => ~clones'[r.base].extra
          BY <1>4, <2>1, <3>2, <5>1 DEF ToolOK
        <5> QED BY <4>1, <4>2, <5>1, <5>2 DEF ToolOK, Intact
      <4> QED BY <4>3, <4>4
    <3> QED BY <3>1, <3>2
  <2> QED BY <2>2, <2>5 DEF ToolOK, Exists, Intact
<1> QED BY <1>7, <1>9, <1>10, <1>11 DEF ClonesInv

\* At most one element, said with the cardinality and without.
LEMMA AtMostOneClone ==
  ASSUME NEW T \in SUBSET Bases
  PROVE  (Cardinality(T) <= 1) <=> (\A a, b \in T : a = b)
<1>1. PICK S : S = T
  OBVIOUS
<1>2. IsFiniteSet(S)
  BY <1>1, ClonesAssumption, FS_Subset
<1>3. Cardinality(S) \in Nat
  BY <1>2, FS_CardinalityType
<1>4. ASSUME Cardinality(S) <= 1, NEW a \in S, NEW b \in S PROVE a = b
  <2>1. Cardinality(S) = 0 \/ Cardinality(S) = 1
    BY <1>3, <1>4
  <2>2. S = {} \/ \E x : S = {x}
    BY <1>2, <2>1, FS_EmptySet, FS_Singleton
  <2> QED BY <1>4, <2>2
<1>5. ASSUME \A a, b \in S : a = b PROVE Cardinality(S) <= 1
  <2>1. S = {} \/ \E x : S = {x}
    BY <1>5
  <2>2. Cardinality(S) = 0 \/ Cardinality(S) = 1
    BY <1>2, <2>1, FS_EmptySet, FS_Singleton
  <2> QED BY <2>2
<1> QED BY <1>1, <1>4, <1>5

LEMMA ClonesInitInv == ClonesInit => ClonesInv
<1> SUFFICES ASSUME ClonesInit PROVE ClonesInv
  OBVIOUS
<1>1. PICK D : D = {[Fresh(1, b) EXCEPT !.trusted = TRUE] : b \in Bases}
  OBVIOUS
<1>2. D \subseteq Directories /\ \A d \in D : d.git = TRUE /\ ~Astray(d)
  <2> SUFFICES ASSUME NEW b \in Bases, NEW d, d = [Fresh(1, b) EXCEPT !.trusted = TRUE]
               PROVE  d \in Directories /\ d.git = TRUE /\ ~Astray(d)
    BY <1>1
  <2>1. 1 \in Dirs
    BY ClonesAssumption DEF Dirs
  <2>2. PICK f : f = Fresh(1, b) /\ f \in Directories /\ f.git = TRUE /\ ~Astray(f)
    BY <2>1, FreshClone
  <2>3. d \in Directories /\ d.git = TRUE /\ d.meta = f.meta /\ d.branch = f.branch
    BY <2>2 DEF Directories
  <2> QED BY <2>2, <2>3 DEF Astray
<1>3. clones \in [Bases -> {NoClone} \cup D]
  BY <1>1 DEF ClonesInit
<1>4. clones \in [Bases -> CloneDirs]
  BY <1>2, <1>3 DEF CloneDirs
<1>5. /\ tombstones = [b \in Bases |-> NoTombstone] /\ saved = {} /\ delivery = "absent"
      /\ lineage = NoTool /\ tools = [t \in Tools |-> Waiting] /\ editor = Nobody /\ rounds = 0
      /\ registered = {b \in Bases : Exists(b)}
  BY DEF ClonesInit
<1>6. tombstones \in [Bases -> Tombstones]
  BY <1>5 DEF Tombstones
<1>7. \A t \in Tools : tools[t].pc = "waiting"
  BY <1>5 DEF Waiting
<1>8. tools \in [Tools -> {Waiting} \cup Preparing \cup Adopting \cup Removing]
  BY <1>5
<1>9. rounds \in 0 .. MaxRounds
  BY <1>5, ClonesAssumption
<1>10. registered \subseteq Bases /\ saved \subseteq Works
  BY <1>5
<1>11. ClonesTyped
  BY <1>4, <1>5, <1>6, <1>7, <1>8, <1>9, <1>10 DEF ClonesTyped
<1>12. LineageOK
  <2>1. PICK T : T = {b \in Bases : Exists(b)}
    OBVIOUS
  <2>2. T \in SUBSET Bases /\ Cardinality(T) <= 1
    BY <2>1 DEF ClonesInit
  <2>3. \A a, b \in Bases : Exists(a) /\ Exists(b) => a = b
    BY <2>1, <2>2, AtMostOneClone
  <2>4. \A b \in Bases : Exists(b) => ~Astray(clones[b])
    BY <1>2, <1>3 DEF Exists, NoClone
  <2> QED BY <2>3, <2>4 DEF LineageOK
<1>13. \A b \in Bases : Exists(b) => clones[b].git = TRUE
  BY <1>2, <1>3 DEF Exists, NoClone
<1>14. TailResumable
  BY <1>13 DEF TailResumable
<1>15. \A t \in Tools : lineage # t
  BY <1>5, ClonesAssumption
<1> QED BY <1>11, <1>12, <1>14, <1>15 DEF ClonesInv

\* Every step of a tool, an agent or the remote, and every stutter, keeps the
\* invariant.
LEMMA ClonesNextInv == ClonesInv /\ [ClonesNext]_cloneVars => ClonesInv'
<1> SUFFICES ASSUME ClonesInv, [ClonesNext]_cloneVars PROVE ClonesInv'
  OBVIOUS
<1>1. CASE UNCHANGED cloneVars
  <2>1. /\ UNCHANGED <<clones, registered, tombstones>> /\ saved' = saved /\ delivery' = delivery
        /\ lineage' = lineage /\ tools' = tools /\ editor' = editor /\ rounds' = rounds
    BY <1>1 DEF cloneVars, remoteVars
  <2>2. ClonesTyped'
    BY <2>1 DEF ClonesInv, ClonesTyped
  <2>3. \A t \in Tools : lineage' = t => ToolOK(tools'[t])
    BY <2>1 DEF ClonesInv
  <2> QED BY <2>1, <2>2, <2>3, QuietClones
<1>2. ASSUME NEW t \in Tools, NEW b \in Bases, Prepare(t, b) \/ Adopt(t, b) PROVE ClonesInv'
  BY <1>2, PrepareStep, AdoptStep
<1>3. ASSUME NEW t \in Tools, NEW b \in Bases, NEW h \in Commits, NEW way \in Ways,
             Cleanup(t, b, h, way) \/ CleanupGone(t, b, h, way)
      PROVE  ClonesInv'
  BY <1>3, CleanupStep, CleanupGoneStep
<1>4. ASSUME NEW t \in Tools, Clone(t) \/ RegisterClone(t) \/ WriteMetadata(t) \/ AdoptLocked(t)
      PROVE  ClonesInv'
  BY <1>4, CloneStep, RegisterCloneStep, WriteMetadataStep, AdoptLockedStep
<1>5. ASSUME NEW t \in Tools, Unregister(t) \/ MarkRemoved(t) \/ VerifyAgain(t) \/ RemoveTree(t)
      PROVE  ClonesInv'
  BY <1>5, UnregisterStep, MarkRemovedStep, VerifyAgainStep, RemoveTreeStep
<1>6. ASSUME NEW t \in Tools, Complete(t) \/ Dies(t) PROVE ClonesInv'
  BY <1>6, CompleteStep, DiesStep
<1>7. CASE \/ \E b \in Bases : OpenWorkspace(b, "tool") \/ OpenWorkspace(b, "task") \/ Save(b)
           \/ CloseWorkspace \/ Deliver
  BY <1>7, OutsideStep
<1>8. CASE Edit
  BY <1>8, EditStep
<1> QED BY <1>1, <1>2, <1>3, <1>4, <1>5, <1>6, <1>7, <1>8 DEF ClonesNext

\* The inductive invariant of the clones of a lineage: at most one directory that
\* claims it, and what the holder of the lineage lock knows of its own at each
\* step of a preparation or a removal.
THEOREM ClonesInvariant == ClonesSpec => []ClonesInv
<1>1. ClonesInit => ClonesInv
  BY ClonesInitInv
<1>2. ClonesInv /\ [ClonesNext]_cloneVars => ClonesInv'
  BY ClonesNextInv
<1> QED BY <1>1, <1>2, PTL DEF ClonesSpec

\* A lineage has one clone, whatever calls died where, besides the directories
\* that were on another branch while they had no metadata
\* (candidate_clone.py:1762, 1820).
THEOREM ClonesOnePerLineage == ClonesSpec => []OneClonePerLineage
<1>1. ClonesInv => OneClonePerLineage
  <2> SUFFICES ASSUME ClonesInv PROVE OneClonePerLineage
    OBVIOUS
  <2>1. PICK T : T = {b \in Bases : Exists(b) /\ ~clones[b].strayed}
    OBVIOUS
  <2>2. T \in SUBSET Bases /\ \A a, b \in T : a = b
    BY <2>1 DEF ClonesInv, LineageOK
  <2> QED BY <2>1, <2>2, AtMostOneClone DEF OneClonePerLineage
<1> QED BY <1>1, ClonesInvariant, PTL

\* A removal that died half way, with .git gone, can be resumed
\* (candidate_clone.py:1177).
THEOREM ClonesTailResumable == ClonesSpec => []TailResumable
<1>1. ClonesInv => TailResumable
  BY DEF ClonesInv
<1> QED BY <1>1, ClonesInvariant, PTL

\* The types of the clones' variables.
THEOREM ClonesTypes == ClonesSpec => []ClonesTypeOK
<1>1. ClonesInv => ClonesTypeOK
  <2> SUFFICES ASSUME ClonesInv PROVE ClonesTypeOK
    OBVIOUS
  <2>1. ClonesTyped
    BY DEF ClonesInv
  <2>2. \A b \in Bases : Exists(b) => /\ clones[b].ino \in Dirs /\ clones[b].head \in Commits
                                      /\ clones[b].branch \in Branches
    BY <2>1, CloneKinds
  <2> QED BY <2>1, <2>2 DEF ClonesTyped, ClonesTypeOK
<1> QED BY <1>1, ClonesInvariant, PTL

\* Only the removal breaks a clone that is whole.
LEMMA OnlyRemovalBreaks ==
  ASSUME ClonesInv, [ClonesNext]_cloneVars, NEW b \in Bases, Exists(b), Intact(clones[b]),
         ~(\E t \in Tools : RemoveTree(t) /\ tools[t].base = b)
  PROVE  clones'[b].there /\ Intact(clones'[b])
<1>1. ClonesTyped
  BY DEF ClonesInv
<1> DEFINE Whole == clones'[b].there = clones[b].there /\ clones'[b].git = clones[b].git
                    /\ clones'[b].broken = clones[b].broken
<1>2. ASSUME Whole PROVE clones'[b].there /\ Intact(clones'[b])
  BY <1>2 DEF Exists, Intact
<1>3. CASE clones' = clones
  BY <1>2, <1>3
<1>4. ASSUME NEW t \in Tools, Clone(t) PROVE Whole
  <2>1. tools[t].pc = "clone"
    BY <1>4 DEF Clone
  <2>2. ToolOK(tools[t]) /\ tools[t].base # b
    BY <2>1, ToolHolds DEF ToolOK
  <2>3. clones'[b] = clones[b]
    BY <1>1, <1>4, <2>2 DEF Clone, ClonesTyped
  <2> QED BY <2>3
<1>5. ASSUME NEW t \in Tools, WriteMetadata(t) PROVE Whole
  <2>1. tools[t].pc = "metadata"
    BY <1>5 DEF WriteMetadata
  <2>2. PICK x, m : x = tools[t].base /\ m = [version |-> 1, head |-> clones[x].head]
    OBVIOUS
  <2>3. x \in Bases /\ Exists(x)
    BY <1>1, <2>1, <2>2, ToolHolds, ToolKinds DEF ToolOK
  <2>4. m \in [version : {1, 2}, head : Commits]
    BY <1>1, <2>2, <2>3, CloneKinds
  <2>5. clones' = [clones EXCEPT ![x].meta = m] \/ clones' = clones
    BY <1>5, <2>2 DEF WriteMetadata
  <2> QED BY <1>1, <2>3, <2>4, <2>5, MetadataChange
<1>6. ASSUME NEW t \in Tools, AdoptLocked(t) PROVE Whole
  <2>1. tools[t].pc = "adopt"
    BY <1>6 DEF AdoptLocked
  <2>2. PICK x, m : x = tools[t].base /\ m = [version |-> 2, head |-> tools[t].head]
    OBVIOUS
  <2>3. x \in Bases /\ m \in [version : {1, 2}, head : Commits]
    BY <1>1, <2>1, <2>2, ToolKinds
  <2>4. (Exists(x) /\ clones' = [clones EXCEPT ![x].meta = m]) \/ clones' = clones
    BY <1>6, <2>2 DEF AdoptLocked, Proven
  <2> QED BY <1>1, <2>3, <2>4, MetadataChange
<1>7. ASSUME NEW t \in Tools, RemoveTree(t) PROVE Whole
  <2>1. PICK x : x = tools[t].base /\ x # b
    BY <1>7
  <2>2. clones' = [clones EXCEPT ![x] = clones'[x]]
    BY <1>1, <1>7, <2>1 DEF RemoveTree, ClonesTyped
  <2>3. clones'[b] = clones[b]
    BY <1>1, <2>1, <2>2 DEF ClonesTyped
  <2> QED BY <2>3
<1>8. CASE Edit
  <2>1. CASE b = editor.base
    <3>1. Whole
      BY <1>1, <1>8, <2>1, EditChange, CloneKinds
    <3> QED BY <1>2, <3>1
  <2>2. CASE b # editor.base
    BY <1>1, <1>2, <1>8, <2>2, EditChange
  <2> QED BY <2>1, <2>2
<1>9. \/ clones' = clones \/ Edit
      \/ \E t \in Tools : Clone(t) \/ WriteMetadata(t) \/ AdoptLocked(t) \/ RemoveTree(t)
  <2>1. CASE UNCHANGED cloneVars
    BY <2>1 DEF cloneVars
  <2>2. ASSUME NEW t \in Tools, NEW x \in Bases, Prepare(t, x) \/ Adopt(t, x) PROVE clones' = clones
    BY <2>2 DEF Prepare, Adopt
  <2>3. ASSUME NEW t \in Tools, NEW x \in Bases, NEW h \in Commits, NEW way \in Ways,
               Cleanup(t, x, h, way) \/ CleanupGone(t, x, h, way)
        PROVE  clones' = clones
    BY <2>3 DEF Cleanup, CleanupGone
  <2>4. ASSUME NEW t \in Tools, \/ RegisterClone(t) \/ Unregister(t) \/ MarkRemoved(t)
                                \/ VerifyAgain(t) \/ Complete(t) \/ Dies(t)
        PROVE  clones' = clones
    BY <2>4 DEF RegisterClone, Unregister, MarkRemoved, VerifyAgain, Complete, Dies
  <2>5. ASSUME NEW x \in Bases, OpenWorkspace(x, "tool") \/ OpenWorkspace(x, "task") \/ Save(x)
        PROVE  clones' = clones
    BY <2>5 DEF OpenWorkspace, Save
  <2>6. CASE CloseWorkspace \/ Deliver
    BY <2>6 DEF CloseWorkspace, Deliver
  <2> QED BY <2>1, <2>2, <2>3, <2>4, <2>5, <2>6, Zenon DEF ClonesNext
<1> QED BY <1>2, <1>3, <1>4, <1>5, <1>6, <1>7, <1>8, <1>9

\* The first file of a clone is removed only when nothing in it is the only copy
\* of somebody's work, and an abandoned clone has no other ref or unreachable
\* object either, except for an edit that lands between the last verification and
\* the removal (candidate_clone.py:1125, 3249, 3298).
THEOREM ClonesRemoveSavedWork == ClonesSpec => RemovesSavedWork
<1>1. ClonesInv /\ [ClonesNext]_cloneVars =>
        [\A b \in Bases :
           Exists(b) /\ Intact(clones[b]) /\ (clones'[b].there => ~Intact(clones'[b])) =>
             \/ /\ ~clones[b].edited /\ clones[b].head \in Bases \cup saved
                /\ tools[lineage].way = "abandon" => ~clones[b].extra
             \/ tools[lineage].raced]_cloneVars
  <2> SUFFICES ASSUME ClonesInv, [ClonesNext]_cloneVars, NEW b \in Bases, Exists(b),
                      Intact(clones[b]), clones'[b].there => ~Intact(clones'[b])
               PROVE  \/ /\ ~clones[b].edited /\ clones[b].head \in Bases \cup saved
                         /\ tools[lineage].way = "abandon" => ~clones[b].extra
                      \/ tools[lineage].raced
    OBVIOUS
  <2>1. PICK t \in Tools : RemoveTree(t) /\ tools[t].base = b
    BY OnlyRemovalBreaks
  <2>2. tools[t].pc = "remove"
    BY <2>1 DEF RemoveTree
  <2>3. lineage = t /\ ToolOK(tools[t])
    BY <2>2, ToolHolds
  <2> QED BY <2>1, <2>2, <2>3 DEF ToolOK
<1> QED BY <1>1, ClonesInvariant, PTL DEF ClonesSpec, RemovesSavedWork

----------------------------------------------------------------------------
(* The instance that TLC explores *)

\* A behaviour of MCWorkspaces is one of the file integration and one of the clones,
\* so what is proved of the two holds of it.
LEMMA WorkspacesImplement == WorkspacesSpec => IntegrationSpec /\ ClonesSpec
<1>1. WorkspacesInit => IntegrationInit /\ ClonesInit
  BY DEF WorkspacesInit
<1>2. [WorkspacesNext]_<<focus, integrationVars, cloneVars>>
      => [IntegrationNext]_integrationVars /\ [ClonesNext]_cloneVars
  BY DEF WorkspacesNext
<1> QED BY <1>1, <1>2, PTL DEF WorkspacesSpec, IntegrationSpec, ClonesSpec

\* The type invariants of the two stores together: a call that works holds the
\* lock of its store, and a backup that is whole holds one content, through every
\* crash (integrate_file and the candidate clone stages).
THEOREM WorkspacesTypes == WorkspacesSpec => []WorkspacesTypeOK
BY WorkspacesImplement, FileTypes, ClonesTypes, PTL DEF WorkspacesTypeOK
=============================================================================
