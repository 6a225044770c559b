------------------------- MODULE ProjectDuplication -------------------------
(***************************************************************************)
(* Durable project duplication (arcrho_engine/project_duplication.py).     *)
(*                                                                         *)
(* Engine workers copy a source project to a new target through a private  *)
(* staging folder.  Requests, statuses, cancel markers, journals, folders  *)
(* and the target lock are files that survive a worker.  The requests of   *)
(* one instance of this module all name the same source and target.        *)
(*                                                                         *)
(* A request lease is used through what FencedClaim promises of it: one    *)
(* valid claim at a time, and a holder learns that its claim is lost only  *)
(* when it looks.  Reading the owner token and the write it guards are     *)
(* separate steps.                                                         *)
(***************************************************************************)
EXTENDS Naturals, FiniteSets

LOCAL INSTANCE Functions

CONSTANTS
    Workers,    \* Engine processes
    Requests,   \* request IDs
    Files,      \* the units of a project folder that are copied one by one
    MaxFaults,  \* how many faults and user actions of each kind may happen
    MaxTotal,   \* how many of all kinds together may happen
    NoWorker, NoRequest,
    Unremoved,  \* in place of a lock's owner: a call to remove it has failed
    NoFolder,   \* a folder that does not exist, a journal that was not written
    Missing,    \* a file that is not in its folder
    Edited      \* a file that a user changed in the published target

FaultKinds == {"crash", "displace", "io", "cancel", "sourceEdit", "targetEdit"}

ASSUME FaultsAssumption == MaxFaults \in [FaultKinds -> Nat] /\ MaxTotal \in Nat
ASSUME NamesAssumption ==
    /\ {NoWorker, Unremoved} \cap Workers = {} /\ NoWorker # Unremoved
    /\ NoRequest \notin Requests
    /\ Missing \notin Nat /\ Edited \notin Nat /\ Missing # Edited
    /\ NoFolder \notin [Files -> Nat \cup {Missing, Edited}]

VARIABLES
    request,   \* the queue file of each request still exists
    status,    \* the status file of each request
    cancel,    \* the cancel marker: "no", "asked" (its writer has seen a status
               \* that is not terminal and is about to write it) or "yes"
    journal,   \* the verified manifest in the recovery journal, or NoFolder
    staging,   \* the private folder of each request
    target,    \* the published project
    targetOf,  \* history: the request that published it
    lockReq, lockBy,    \* the target lock: its request and its live owner
                        \* (NoWorker: dead; Unremoved: history, it let go)
    source, snapshots,  \* the source project, and history: all it has been
    faults,    \* faults and user actions so far, of each kind
    pc,        \* the phase each worker is in
    job,       \* the request it processes
    claim,     \* its claim on the lease of that request
    mem        \* its local variables

protocol == <<request, status, cancel, journal>>
folders == <<staging, target, targetOf>>
lock == <<lockReq, lockBy>>
world == <<source, snapshots, faults>>
owner == <<job, claim>>
vars == <<protocol, folders, lock, world, owner, pc, mem>>

Terminal == {"success", "error", "recovery_required", "cancelled"}
Statuses == {"queued", "processing"} \cup Terminal
Outcomes == {"none", "lease_lost", "retry", "cancelled", "error", "recovery_required"}
Phases == {"idle", "check", "recover", "inspect", "discard", "report",
           "report_write", "begin", "snapshot", "project", "copy", "verify",
           "fingerprint", "journal", "publish", "rename", "commit",
           "commit_write", "quarantine", "verify_quarantine", "rec_lock",
           "rec_check", "rec_rename", "finally", "clean", "unlock", "final",
           "final_write", "finish", "cleanup", "unlink", "sweep", "release"}

Content == Nat \cup {Missing, Edited}
Folder == [Files -> Content] \cup {NoFolder}

Memory == [next : Phases,          \* where a progress report returns to
           before : Folder,        \* manifest of the source before the copy
           verified : Folder,      \* rollback_manifest of the staged copy
           copied : SUBSET Files,  \* what this worker has copied
           created : BOOLEAN,      \* staging_created and not committed
           preserve : BOOLEAN,     \* preserve_staging; at the end, the journal
           recovering : BOOLEAN,   \* in _recover_interrupted_job
           outcome : Outcomes]     \* the exception on its way out

FreshMemory == [next |-> "idle", before |-> NoFolder, verified |-> NoFolder,
                copied |-> {}, created |-> FALSE, preserve |-> FALSE,
                recovering |-> FALSE, outcome |-> "none"]

TypeOK ==
    /\ request \in [Requests -> BOOLEAN]
    /\ status \in [Requests -> Statuses]
    /\ cancel \in [Requests -> {"no", "asked", "yes"}]
    /\ journal \in [Requests -> Folder]
    /\ staging \in [Requests -> Folder]
    /\ target \in Folder
    /\ targetOf \in Requests \cup {NoRequest}
    /\ lockReq \in Requests \cup {NoRequest}
    /\ lockBy \in Workers \cup {NoWorker, Unremoved}
    /\ source \in [Files -> Nat]
    /\ snapshots \in SUBSET [Files -> Nat]
    /\ faults \in [FaultKinds -> Nat]
    /\ pc \in [Workers -> Phases]
    /\ job \in [Workers -> Requests \cup {NoRequest}]
    /\ claim \in [Workers -> {"none", "valid", "lost"}]
    /\ mem \in [Workers -> Memory]

Init ==
    /\ request = [r \in Requests |-> TRUE]
    /\ status = [r \in Requests |-> "queued"]
    /\ cancel = [r \in Requests |-> "no"]
    /\ journal = [r \in Requests |-> NoFolder]
    /\ staging = [r \in Requests |-> NoFolder]
    /\ target = NoFolder /\ targetOf = NoRequest
    /\ lockReq = NoRequest /\ lockBy = NoWorker
    /\ source = [f \in Files |-> 0] /\ snapshots = {source}
    /\ faults = [k \in FaultKinds |-> 0]
    /\ pc = [w \in Workers |-> "idle"]
    /\ job = [w \in Workers |-> NoRequest]
    /\ claim = [w \in Workers |-> "none"]
    /\ mem = [w \in Workers |-> FreshMemory]

-----------------------------------------------------------------------------
(* Steps of a worker                                                       *)

EmptyFolder == [f \in Files |-> Missing]

At(w, phase) == pc[w] = phase
Goto(w, phase) == pc' = [pc EXCEPT ![w] = phase]

\* An exception: duplicate_project's finally clause runs before its handler.
Raise(w, kind) ==
    /\ mem' = [mem EXCEPT ![w].outcome = kind]
    /\ Goto(w, "finally")

\* _require_request_lease fails.
Lost(w) == claim[w] = "lost"

FaultTotal == FoldFunction(+, 0, faults)

\* The next fault of a kind happens, within the bounds.
Spend(kind) ==
    /\ faults[kind] < MaxFaults[kind]
    /\ FaultTotal < MaxTotal
    /\ faults' = [faults EXCEPT ![kind] = @ + 1]

\* report(progress), then continue at a phase.
ReportThen(w, phase, m) ==
    /\ Goto(w, "report")
    /\ mem' = [mem EXCEPT ![w] = [m EXCEPT !.next = phase]]

\* _acquire_target_lock succeeds on a free path, and on a lock that nobody
\* refreshes any more if that lock is old enough.
LockAvailable == lockReq = NoRequest \/ lockBy \notin Workers
TakeLock(w) == lockReq' = job[w] /\ lockBy' = w
DropLock == lockReq' = NoRequest /\ lockBy' = NoWorker

\* _discard_same_request_target_lock
DiscardLockOf(r) == IF lockReq = r THEN DropLock ELSE UNCHANGED lock

\* The lock cannot be read, renamed or unlinked, and w goes on without a word.
LeaveLock(w) ==
    /\ Spend("io")
    /\ lockBy' = IF lockBy \in Workers \ {w} THEN lockBy ELSE Unremoved
    /\ UNCHANGED lockReq

\* A call whose failure is swallowed: the lock of r is discarded, or it stays.
TryDiscardLockOf(w, r) ==
    \/ DiscardLockOf(r) /\ UNCHANGED faults
    \/ lockReq = r /\ LeaveLock(w)

-----------------------------------------------------------------------------
(* process_durable_project_duplication_request                             *)

\* Broken: the queue file is claimed by deleting it.
TakeByDeleting(w, r) ==
    /\ At(w, "idle") /\ request[r]
    /\ request' = [request EXCEPT ![r] = FALSE]
    /\ job' = [job EXCEPT ![w] = r]
    /\ claim' = [claim EXCEPT ![w] = "valid"]
    /\ Goto(w, "check")
    /\ UNCHANGED <<status, cancel, journal, folders, lock, world, mem>>

\* The request lease is acquired and its heartbeat started.
Take(w, r) ==
    /\ At(w, "idle") /\ request[r]
    /\ \A v \in Workers : job[v] = r => claim[v] # "valid"
    /\ job' = [job EXCEPT ![w] = r]
    /\ claim' = [claim EXCEPT ![w] = "valid"]
    /\ Goto(w, "check")
    /\ UNCHANGED <<protocol, folders, lock, world, mem>>

\* Broken: a request that already has an outcome is run again.
CheckTerminalIgnored(w) ==
    /\ At(w, "check")
    /\ Goto(w, "recover")
    /\ UNCHANGED <<protocol, folders, lock, world, owner, mem>>

\* Broken: the lock that a dead worker left with its outcome stays.
CheckTerminalKeepsLock(w) ==
    /\ At(w, "check")
    /\ Goto(w, IF status[job[w]] \in Terminal THEN "cleanup" ELSE "recover")
    /\ UNCHANGED <<protocol, folders, lock, world, owner, mem>>

\* Broken: a request that already has an outcome is left alone.
CheckTerminalLeaves(w) ==
    /\ At(w, "check")
    /\ Goto(w, IF status[job[w]] \in Terminal THEN "release" ELSE "recover")
    /\ UNCHANGED <<protocol, folders, lock, world, owner, mem>>

\* A status that is already terminal only has its metadata cleaned up; every
\* exception of the discard is swallowed.
CheckTerminal(w) ==
    /\ At(w, "check")
    /\ IF status[job[w]] \in Terminal
       THEN TryDiscardLockOf(w, job[w]) /\ Goto(w, "cleanup")
       ELSE UNCHANGED <<lock, faults>> /\ Goto(w, "recover")
    /\ UNCHANGED <<protocol, folders, source, snapshots, owner, mem>>

\* The status or the projects folder cannot be read now, or the lock of the
\* request cannot be renamed, or be unlinked once renamed: try again later.
Postpone(w) ==
    /\ pc[w] \in {"check", "recover", "finish"}
    /\ Spend("io")
    /\ UNCHANGED lock \/ (At(w, "recover") /\ DiscardLockOf(job[w]))
    /\ Goto(w, "release")
    /\ UNCHANGED <<protocol, folders, source, snapshots, owner, mem>>

\* _recover_interrupted_job without a journal restarts from a clean staging
\* folder; with one, the verified copy is somewhere.  A lock that cannot be read
\* is left where it is.
Recover(w) ==
    /\ At(w, "recover")
    /\ TryDiscardLockOf(w, job[w])
    /\ IF journal[job[w]] # NoFolder
       THEN /\ Goto(w, "inspect")
            /\ mem' = [mem EXCEPT ![w].recovering = TRUE]
       ELSE IF staging[job[w]] # NoFolder
       THEN Goto(w, "discard") /\ UNCHANGED mem
       ELSE ReportThen(w, "begin", mem[w])
    /\ UNCHANGED <<protocol, folders, source, snapshots, owner>>

\* Broken: the rename may have happened just before the worker died.
InspectStagingOnly(w) ==
    /\ At(w, "inspect")
    /\ IF target = NoFolder /\ staging[job[w]] = journal[job[w]]
       THEN Goto(w, "rec_lock") /\ UNCHANGED mem
       ELSE Raise(w, "recovery_required")
    /\ UNCHANGED <<protocol, folders, lock, world, owner>>

\* What the journal finds: an unchanged target, an unchanged staging folder,
\* or something a person has to look at.
Inspect(w) ==
    /\ At(w, "inspect")
    /\ LET r == job[w] IN
       IF target = journal[r] /\ staging[r] = NoFolder
       THEN Goto(w, "commit") /\ UNCHANGED mem
       ELSE IF target = NoFolder /\ staging[r] = journal[r]
       THEN Goto(w, "rec_lock") /\ UNCHANGED mem
       ELSE Raise(w, "recovery_required")
    /\ UNCHANGED <<protocol, folders, lock, world, owner>>

\* _recover_verified_staging discards the request's own lock and takes it; the
\* discard may fail before or after the lock is renamed.
RecoverLock(w) ==
    /\ At(w, "rec_lock")
    /\ \/ /\ lockReq = job[w] \/ LockAvailable
          /\ TakeLock(w)
          /\ Goto(w, "rec_check")
          /\ UNCHANGED <<mem, faults>>
       \/ /\ lockReq \notin {job[w], NoRequest}
          /\ UNCHANGED <<lock, faults>>
          /\ Raise(w, "retry")
       \/ /\ Spend("io")
          /\ UNCHANGED lock \/ DiscardLockOf(job[w])
          /\ Raise(w, "retry")
    /\ UNCHANGED <<protocol, folders, source, snapshots, owner>>

RecoverCheck(w) ==
    /\ At(w, "rec_check")
    /\ LET r == job[w] IN
       IF Lost(w) THEN Raise(w, "lease_lost")
       ELSE IF target = NoFolder THEN Goto(w, "rec_rename") /\ UNCHANGED mem
       ELSE IF staging[r] = NoFolder /\ target = journal[r]
       THEN Goto(w, "commit") /\ UNCHANGED mem
       ELSE Raise(w, "recovery_required")
    /\ UNCHANGED <<protocol, folders, lock, world, owner>>

\* os.rename(staging, target): Windows refuses an existing target.
Publish(w) ==
    /\ staging[job[w]] # NoFolder /\ target = NoFolder
    /\ target' = staging[job[w]] /\ targetOf' = job[w]
    /\ staging' = [staging EXCEPT ![job[w]] = NoFolder]

RecoverRename(w) ==
    /\ At(w, "rec_rename")
    /\ \/ Publish(w) /\ Goto(w, "commit") /\ UNCHANGED <<mem, faults>>
       \/ /\ staging[job[w]] = NoFolder \/ target # NoFolder
          /\ Raise(w, "retry") /\ UNCHANGED <<folders, faults>>
       \/ Spend("io") /\ Raise(w, "retry") /\ UNCHANGED folders
    /\ UNCHANGED <<protocol, lock, source, snapshots, owner>>

\* After the attempt, only a terminal status lets the request go.
Finish(w) ==
    /\ At(w, "finish")
    /\ Goto(w, IF status[job[w]] \in Terminal THEN "cleanup" ELSE "release")
    /\ UNCHANGED <<protocol, folders, lock, world, owner, mem>>

\* _cleanup_durable_terminal reads the status again, then looks at the lease.
Cleanup(w) ==
    /\ At(w, "cleanup")
    /\ IF status[job[w]] \notin Terminal \/ Lost(w)
       THEN Goto(w, "release") /\ UNCHANGED mem
       ELSE /\ Goto(w, "unlink")
            /\ mem' = [mem EXCEPT ![w].preserve =
                            status[job[w]] = "recovery_required"]
    /\ UNCHANGED <<protocol, folders, lock, world, owner>>

Unlink(w) ==
    /\ At(w, "unlink")
    /\ \/ /\ request' = [request EXCEPT ![job[w]] = FALSE]
          /\ Goto(w, "sweep") /\ UNCHANGED faults
       \/ Spend("io") /\ Goto(w, "release") /\ UNCHANGED request
    /\ UNCHANGED <<status, cancel, journal, folders, lock, source, snapshots,
                   owner, mem>>

Sweep(w) ==
    /\ At(w, "sweep")
    /\ cancel' = [cancel EXCEPT ![job[w]] = IF @ = "yes" THEN "no" ELSE @]
    /\ journal' = IF mem[w].preserve THEN journal
                  ELSE [journal EXCEPT ![job[w]] = NoFolder]
    /\ Goto(w, "release")
    /\ UNCHANGED <<request, status, folders, lock, world, owner, mem>>

Release(w) ==
    /\ At(w, "release")
    /\ job' = [job EXCEPT ![w] = NoRequest]
    /\ claim' = [claim EXCEPT ![w] = "none"]
    /\ mem' = [mem EXCEPT ![w] = FreshMemory]
    /\ Goto(w, "idle")
    /\ UNCHANGED <<protocol, folders, lock, world>>

-----------------------------------------------------------------------------
(* shutil.rmtree of the staging folder, file by file: by the recovery of a  *)
(* request and by the finally clause of duplicate_project.                 *)

RmtreeFile(w) ==
    /\ pc[w] \in {"discard", "clean"}
    /\ staging[job[w]] # NoFolder
    /\ \E f \in Files :
        /\ staging[job[w]][f] # Missing
        /\ staging' = [staging EXCEPT ![job[w]][f] = Missing]
    /\ UNCHANGED <<protocol, target, targetOf, lock, world, owner, pc, mem>>

RmtreeDone(w) ==
    /\ pc[w] \in {"discard", "clean"}
    /\ staging[job[w]] \in {NoFolder, EmptyFolder}
    /\ staging' = [staging EXCEPT ![job[w]] = NoFolder]
    /\ IF At(w, "discard")
       THEN ReportThen(w, "begin", mem[w])
       ELSE Goto(w, "unlock") /\ UNCHANGED mem
    /\ UNCHANGED <<protocol, target, targetOf, lock, world, owner>>

RmtreeFails(w) ==
    /\ pc[w] \in {"discard", "clean"} /\ staging[job[w]] # NoFolder
    /\ Spend("io")
    /\ IF At(w, "discard")
       THEN Raise(w, "retry")
       ELSE Goto(w, "unlock") /\ UNCHANGED mem
    /\ UNCHANGED <<protocol, folders, lock, source, snapshots, owner>>

Rmtree(w) == RmtreeFile(w) \/ RmtreeDone(w) \/ RmtreeFails(w)

-----------------------------------------------------------------------------
(* execute_project_duplication and duplicate_project                       *)

\* ensure_owned and the cancel marker, before a progress status is written;
\* the very first report of an attempt does not look at the marker.
ReportCheck(w) ==
    /\ At(w, "report")
    /\ IF Lost(w) THEN Raise(w, "lease_lost")
       ELSE IF mem[w].next # "begin" /\ cancel[job[w]] = "yes"
       THEN Raise(w, "cancelled")
       ELSE Goto(w, "report_write") /\ UNCHANGED mem
    /\ UNCHANGED <<protocol, folders, lock, world, owner>>

ReportWrite(w) ==
    /\ At(w, "report_write")
    /\ status' = [status EXCEPT ![job[w]] = "processing"]
    /\ Goto(w, mem[w].next)
    /\ UNCHANGED <<request, cancel, journal, folders, lock, world, owner, mem>>

\* The target lock, then the checks made under it.
Begin(w) ==
    /\ At(w, "begin")
    /\ \/ /\ target = NoFolder /\ LockAvailable
          /\ TakeLock(w)
          /\ IF staging[job[w]] = NoFolder
             THEN ReportThen(w, "snapshot", mem[w])
             ELSE Raise(w, "error")
       \/ /\ target # NoFolder \/ lockReq # NoRequest
          /\ UNCHANGED lock
          /\ Raise(w, "error")
    /\ UNCHANGED <<protocol, folders, world, owner>>

SnapshotSource(w) ==
    /\ At(w, "snapshot")
    /\ ReportThen(w, "project", [mem[w] EXCEPT !.before = source])
    /\ UNCHANGED <<protocol, folders, lock, world, owner>>

\* copytree makes the staging folder; one that is there by now fails the first
\* attempt, is discarded, and is made anew by the second.
CopyProject(w) ==
    /\ At(w, "project")
    /\ staging' = [staging EXCEPT ![job[w]] = EmptyFolder]
    /\ ReportThen(w, "copy", [mem[w] EXCEPT !.created = TRUE])
    /\ UNCHANGED <<protocol, target, targetOf, lock, world, owner>>

\* One data file or reserving class; missing parent folders are made.
CopyFile(w) ==
    /\ At(w, "copy")
    /\ \E f \in Files \ mem[w].copied :
        LET r == job[w]
            folder == IF staging[r] = NoFolder THEN EmptyFolder ELSE staging[r]
            done == mem[w].copied \cup {f}
        IN /\ staging' = [staging EXCEPT ![r] = [folder EXCEPT ![f] = source[f]]]
           /\ ReportThen(w, IF done = Files THEN "verify" ELSE "copy",
                         [mem[w] EXCEPT !.copied = done])
    /\ UNCHANGED <<protocol, target, targetOf, lock, world, owner>>

\* _copy_with_retry gives up.
CopyFails(w) ==
    /\ pc[w] \in {"project", "copy"}
    /\ Spend("io")
    /\ mem' = [mem EXCEPT ![w] = [@ EXCEPT !.created = TRUE, !.outcome = "error"]]
    /\ Goto(w, "finally")
    /\ UNCHANGED <<protocol, folders, lock, source, snapshots, owner>>

\* Broken: only the names of the files are compared.
VerifyNames(w) ==
    /\ At(w, "verify")
    /\ IF \A f \in Files : staging[job[w]][f] # Missing
       THEN Goto(w, "fingerprint") /\ UNCHANGED mem
       ELSE Raise(w, "error")
    /\ UNCHANGED <<protocol, folders, lock, world, owner>>

\* The source must be what it was, and the staged copy must be the source.
Verify(w) ==
    /\ At(w, "verify")
    /\ IF mem[w].before = source /\ mem[w].before = staging[job[w]]
       THEN Goto(w, "fingerprint") /\ UNCHANGED mem
       ELSE Raise(w, "error")
    /\ UNCHANGED <<protocol, folders, lock, world, owner>>

\* rollback_manifest, the manifest that goes into the journal.
Fingerprint(w) ==
    /\ At(w, "fingerprint")
    /\ LET staged == staging[job[w]] IN
       IF target # NoFolder \/ staged = NoFolder THEN Raise(w, "error")
       ELSE IF Lost(w) THEN Raise(w, "lease_lost")
       ELSE /\ mem' = [mem EXCEPT ![w].verified = staged]
            /\ Goto(w, "journal")
    /\ UNCHANGED <<protocol, folders, lock, world, owner>>

WriteJournal(w) ==
    /\ At(w, "journal")
    /\ journal' = [journal EXCEPT ![job[w]] = mem[w].verified]
    /\ Goto(w, "publish")
    /\ UNCHANGED <<request, status, cancel, folders, lock, world, owner, mem>>

\* Broken: success is told before the rename.
PublishCheckAnnouncing(w) ==
    /\ At(w, "publish")
    /\ status' = [status EXCEPT ![job[w]] = "success"]
    /\ Goto(w, "rename")
    /\ UNCHANGED <<request, cancel, journal, folders, lock, world, owner, mem>>

PublishCheck(w) ==
    /\ At(w, "publish")
    /\ IF Lost(w) THEN Raise(w, "lease_lost")
       ELSE Goto(w, "rename") /\ UNCHANGED mem
    /\ UNCHANGED <<protocol, folders, lock, world, owner>>

Rename(w) ==
    /\ At(w, "rename")
    /\ \/ Publish(w) /\ Goto(w, "commit") /\ UNCHANGED <<mem, faults>>
       \/ /\ staging[job[w]] = NoFolder \/ target # NoFolder
          /\ Raise(w, "error") /\ UNCHANGED <<folders, faults>>
       \/ Spend("io") /\ Raise(w, "error") /\ UNCHANGED folders
    /\ UNCHANGED <<protocol, lock, source, snapshots, owner>>

\* publish_success and _publish_recovered_success look at the lease first.
CommitCheck(w) ==
    /\ At(w, "commit")
    /\ IF Lost(w) THEN Raise(w, "lease_lost")
       ELSE Goto(w, "commit_write") /\ UNCHANGED mem
    /\ UNCHANGED <<protocol, folders, lock, world, owner>>

CommitWrite(w) ==
    /\ At(w, "commit_write")
    /\ status' = [status EXCEPT ![job[w]] = "success"]
    /\ mem' = [mem EXCEPT ![w].created = FALSE]
    /\ Goto(w, "finally")
    /\ UNCHANGED <<request, cancel, journal, folders, lock, world, owner>>

\* Broken: a success that cannot be told is an error like any other.
WriteFailsNoRollback(w) ==
    /\ Spend("io")
    /\ pc[w] \in {"report_write", "journal", "commit_write"}
    /\ Raise(w, "error")
    /\ UNCHANGED <<protocol, folders, lock, source, snapshots, owner>>

\* A status or the journal cannot be written.  Success that cannot be told is
\* rolled back by the first attempt and tried again by a recovery.
WriteFails(w) ==
    /\ Spend("io")
    /\ \/ At(w, "report_write") /\ Raise(w, "error")
       \/ At(w, "journal") /\ Raise(w, "error")
       \/ At(w, "commit_write") /\ mem[w].recovering /\ Raise(w, "retry")
       \/ /\ At(w, "commit_write") /\ ~mem[w].recovering
          /\ Goto(w, "quarantine") /\ UNCHANGED mem
       \/ At(w, "final_write") /\ Goto(w, "finish") /\ UNCHANGED mem
    /\ UNCHANGED <<protocol, folders, lock, source, snapshots, owner>>

\* The target goes back under its private name before anybody looks at it.
Quarantine(w) ==
    /\ At(w, "quarantine")
    /\ LET r == job[w] IN
       \/ /\ target # NoFolder /\ staging[r] = NoFolder
          /\ staging' = [staging EXCEPT ![r] = target]
          /\ target' = NoFolder /\ targetOf' = NoRequest
          /\ Goto(w, "verify_quarantine")
          /\ UNCHANGED <<mem, faults>>
       \/ /\ target = NoFolder \/ staging[r] # NoFolder
          /\ Raise(w, "recovery_required")
          /\ UNCHANGED <<folders, faults>>
       \/ Spend("io") /\ Raise(w, "recovery_required") /\ UNCHANGED folders
    /\ UNCHANGED <<protocol, lock, source, snapshots, owner>>

\* Broken: what was quarantined is not compared with what was published.
VerifyQuarantineTrusting(w) ==
    /\ At(w, "verify_quarantine")
    /\ Raise(w, "error")
    /\ UNCHANGED <<protocol, folders, lock, world, owner>>

\* An unchanged copy may be removed; any other goes back, or stays private.
VerifyQuarantine(w) ==
    /\ At(w, "verify_quarantine")
    /\ LET r == job[w]
           Preserve == /\ mem' = [mem EXCEPT ![w] = [@ EXCEPT
                                    !.preserve = TRUE,
                                    !.outcome = "recovery_required"]]
                       /\ Goto(w, "finally")
       IN \/ /\ staging[r] = mem[w].verified
             /\ Raise(w, "error") /\ UNCHANGED <<folders, faults>>
          \/ /\ staging[r] # mem[w].verified
             /\ Publish(w) /\ Raise(w, "recovery_required") /\ UNCHANGED faults
          \/ /\ staging[r] # mem[w].verified
             /\ \/ Spend("io")
                \/ (staging[r] = NoFolder \/ target # NoFolder) /\ UNCHANGED faults
             /\ Preserve /\ UNCHANGED folders
    /\ UNCHANGED <<protocol, lock, source, snapshots, owner>>

\* Broken: the staging folder is kept.
FinallyKeeps(w) ==
    /\ At(w, "finally")
    /\ Goto(w, "unlock")
    /\ UNCHANGED <<protocol, folders, lock, world, owner, mem>>

\* The finally clause: remove what was staged and not committed.
Finally(w) ==
    /\ At(w, "finally")
    /\ Goto(w, IF mem[w].created /\ ~mem[w].preserve THEN "clean" ELSE "unlock")
    /\ UNCHANGED <<protocol, folders, lock, world, owner, mem>>

\* _release_target_lock unlinks only its own lock, and swallows a failure.
ReleaseLock(w) ==
    \/ lockBy = w /\ DropLock /\ UNCHANGED faults
    \/ lockBy = w /\ LeaveLock(w)
    \/ lockBy # w /\ UNCHANGED <<lock, faults>>

\* Broken: one handler for every exception.
UnlockOneHandler(w) ==
    /\ At(w, "unlock")
    /\ ReleaseLock(w)
    /\ Goto(w, IF mem[w].outcome = "none" THEN "finish" ELSE "final")
    /\ UNCHANGED <<protocol, folders, source, snapshots, owner, mem>>

\* _release_target_lock, then the handlers of the exception.
Unlock(w) ==
    /\ At(w, "unlock")
    /\ ReleaseLock(w)
    /\ Goto(w, CASE mem[w].outcome = "none" -> "finish"
                 [] mem[w].outcome \in {"lease_lost", "retry"} -> "release"
                 [] OTHER -> "final")
    /\ UNCHANGED <<protocol, folders, source, snapshots, owner, mem>>

FinalCheck(w) ==
    /\ At(w, "final")
    /\ Goto(w, IF Lost(w) THEN "finish" ELSE "final_write")
    /\ UNCHANGED <<protocol, folders, lock, world, owner, mem>>

FinalWrite(w) ==
    /\ At(w, "final_write")
    /\ status' = [status EXCEPT ![job[w]] = mem[w].outcome]
    /\ Goto(w, "finish")
    /\ UNCHANGED <<request, cancel, journal, folders, lock, world, owner, mem>>

Execute(w) ==
    \/ ReportCheck(w) \/ ReportWrite(w) \/ Begin(w) \/ SnapshotSource(w)
    \/ CopyProject(w) \/ CopyFile(w) \/ CopyFails(w) \/ Verify(w)
    \/ Fingerprint(w) \/ WriteJournal(w) \/ PublishCheck(w) \/ Rename(w)
    \/ CommitCheck(w) \/ CommitWrite(w) \/ WriteFails(w) \/ Quarantine(w)
    \/ VerifyQuarantine(w) \/ Finally(w) \/ Rmtree(w) \/ Unlock(w)
    \/ FinalCheck(w) \/ FinalWrite(w)

Process(w) ==
    \/ \E r \in Requests : Take(w, r)
    \/ CheckTerminal(w) \/ Postpone(w) \/ Recover(w) \/ Inspect(w)
    \/ RecoverLock(w) \/ RecoverCheck(w) \/ RecoverRename(w)
    \/ Finish(w) \/ Cleanup(w) \/ Unlink(w) \/ Sweep(w) \/ Release(w)

-----------------------------------------------------------------------------
(* Users and faults                                                        *)

\* cancel_duplicate_project_folder reads the status, then writes the marker.
AskCancel(r) ==
    /\ cancel[r] = "no" /\ status[r] \notin Terminal /\ Spend("cancel")
    /\ cancel' = [cancel EXCEPT ![r] = "asked"]
    /\ UNCHANGED <<request, status, journal, folders, lock, source, snapshots,
                   owner, pc, mem>>

MarkCancel(r) ==
    /\ cancel[r] = "asked"
    /\ cancel' = [cancel EXCEPT ![r] = "yes"]
    /\ UNCHANGED <<request, status, journal, folders, lock, world, owner, pc, mem>>

EditSource(f) ==
    /\ Spend("sourceEdit")
    /\ source' = [source EXCEPT ![f] = @ + 1]
    /\ snapshots' = snapshots \cup {source'}
    /\ UNCHANGED <<protocol, folders, lock, owner, pc, mem>>

\* A published project is visible to every user at once.
EditTarget(f) ==
    /\ target # NoFolder /\ Spend("targetEdit")
    /\ target' = [target EXCEPT ![f] = Edited]
    /\ UNCHANGED <<protocol, staging, targetOf, lock, source, snapshots, owner,
                   pc, mem>>

\* The lease file grew stale under a live worker and was renamed away, or the
\* heartbeat latched a failure: FencedClaim!Displace.
Displace(w) ==
    /\ claim[w] = "valid" /\ Spend("displace")
    /\ claim' = [claim EXCEPT ![w] = "lost"]
    /\ UNCHANGED <<protocol, folders, lock, source, snapshots, job, pc, mem>>

\* The process dies; what is in files survives, its lock has no live owner.
Crash(w) ==
    /\ pc[w] # "idle" /\ Spend("crash")
    /\ job' = [job EXCEPT ![w] = NoRequest]
    /\ claim' = [claim EXCEPT ![w] = "none"]
    /\ mem' = [mem EXCEPT ![w] = FreshMemory]
    /\ Goto(w, "idle")
    /\ lockBy' = IF lockBy = w THEN NoWorker ELSE lockBy
    /\ UNCHANGED <<protocol, folders, lockReq, source, snapshots>>

Environment ==
    \/ \E r \in Requests : AskCancel(r) \/ MarkCancel(r)
    \/ \E f \in Files : EditSource(f) \/ EditTarget(f)
    \/ \E w \in Workers : Displace(w) \/ Crash(w)

\* Every request is gone and every worker has nothing to do.
Done == (\A r \in Requests : ~request[r]) /\ (\A w \in Workers : pc[w] = "idle")
Terminated == Done /\ UNCHANGED vars

Next == (\E w \in Workers : Process(w) \/ Execute(w)) \/ Environment \/ Terminated

\* Workers rescan the queue every five seconds and their threads are scheduled.
Fairness == \A w \in Workers : WF_vars(Process(w) \/ Execute(w))

Spec == Init /\ [][Next]_vars
FairSpec == Spec /\ Fairness

-----------------------------------------------------------------------------
(* Properties                                                              *)

\* No live worker has lost its lease so far.
LeasesHeld == faults["displace"] = 0

\* A project becomes visible only as an exact copy of the source at one
\* instant, whatever was edited, interrupted or restarted during the copy;
\* afterwards only a user's edits tell it from that instant.
PublishedIsASnapshot ==
    target # NoFolder =>
        \E s \in snapshots : \A f \in Files : target[f] \in {s[f], Edited}

\* The status a user polls tells the truth about the folder, as long as no live
\* worker lost its lease: after success the target is this request's, after an
\* error or a cancel it is not. A failed call and a rival for the target together
\* break the first half: a recovery takes the rival's equal project for its own,
\* and the rival may still roll it back.
StatusTellsTheTarget ==
    LeasesHeld => \A r \in Requests :
        /\ status[r] = "success" /\ (faults["io"] = 0 \/ Requests = {r}) => targetOf = r
        /\ status[r] \in {"error", "cancelled"} => targetOf # r

\* A terminal status is the last word: pollers stop at it.
TerminalIsFinal ==
    [][\A r \in Requests : status[r] \in Terminal => status'[r] = status[r]]_vars

\* The queue file stays until there is a terminal status, so a crash of every
\* worker loses no job.
RequestIsRetained ==
    \A r \in Requests : ~request[r] => status[r] \in Terminal

\* The lock of a finished request is gone, so that the same target name can be
\* used at once and not after the six hours of the lock's staleness; it stays
\* only if the call that was to remove it failed, which the code does not tell.
LockFollowsRequest ==
    \A r \in Requests : ~request[r] /\ lockReq = r => lockBy = Unremoved

\* As long as no file-system call failed, a job that failed or was cancelled
\* leaves no staging folder behind, and a cancelled one no journal ("a
\* cancelled job leaves nothing behind").
FailureLeavesNothing ==
    faults["io"] = 0 => \A r \in Requests :
        /\ status[r] \in {"error", "cancelled"} => staging[r] = NoFolder
        /\ status[r] = "cancelled" => journal[r] = NoFolder

\* Dying at any point, again and again, never needs a person by itself: a job
\* asks for manual recovery only if a call failed, if a user changed the project
\* meanwhile, or if another request published the same target between its death
\* and its recovery.
CrashesNeedNobody ==
    \A r \in Requests :
        status[r] = "recovery_required" /\ faults["io"] = 0 /\ faults["targetEdit"] = 0
            => targetOf \notin {r, NoRequest}

\* What a user changed in a visible target is never deleted by a rollback or a
\* recovery, as long as no live worker lost its lease: the edit is in the target
\* or in a preserved staging folder.
EditsAreNeverLost ==
    faults["targetEdit"] > 0 /\ LeasesHeld =>
        \E folder \in {target} \cup {staging[r] : r \in Requests} :
            folder # NoFolder /\ \E f \in Files : folder[f] = Edited

\* Every accepted job comes to an end and leaves the queue.
JobsEnd == \A r \in Requests : request[r] ~> ~request[r]

=============================================================================
