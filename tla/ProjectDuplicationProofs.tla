---------------------- MODULE ProjectDuplicationProofs ----------------------
(***************************************************************************)
(* Safety of durable project duplication for any workers, requests, files  *)
(* and faults.                                                             *)
(*                                                                         *)
(* Types strengthens TypeOK with what the phases of a worker imply.  While *)
(* no live worker has lost its lease, a request has one worker (OneOwner), *)
(* and Frame is what a step of a worker leaves alone: the other workers,   *)
(* and every file of the requests that are not its own.                    *)
(*                                                                         *)
(* The invariants, each on those before it: Retention (who may write an    *)
(* outcome), Locks and LocksHeld (who owns the target lock), Copies (what  *)
(* a manifest was), Kinds (first attempt or recovery), TargetFree,         *)
(* Knowledge (journal and staging), Outlook (the target), Leftovers.       *)
(*                                                                         *)
(* At the end each request is shown to use its lease as FencedClaim, which *)
(* EngineJobLease implements, promises it.                                 *)
(***************************************************************************)
EXTENDS ProjectDuplication, TLAPS

\* The phases of an attempt before an exception or a success ends it.
Attempt == {"check", "recover", "inspect", "discard", "report", "report_write",
            "begin", "snapshot", "project", "copy", "verify", "fingerprint",
            "journal", "publish", "rename", "commit", "commit_write",
            "quarantine", "verify_quarantine", "rec_lock", "rec_check", "rec_rename"}

Follows(w) ==
    /\ pc[w] \in {"idle", "check", "recover"} => mem[w] = FreshMemory
    /\ pc[w] = "idle" => claim[w] = "none"
    /\ pc[w] # "idle" => job[w] \in Requests /\ claim[w] # "none"
    /\ pc[w] \in {"report", "report_write"} =>
          mem[w].next \in {"begin", "snapshot", "project", "copy", "verify"}
    /\ pc[w] \in Attempt => mem[w].outcome = "none"
    /\ pc[w] \in {"final", "final_write"} =>
          mem[w].outcome \in {"cancelled", "error", "recovery_required"}

PhasesFollow == \A w \in Workers : Follows(w)

\* A claim becomes valid only when no other on the request is.
ClaimsExclude ==
    \A v, w \in Workers :
        claim[v] = "valid" /\ claim[w] = "valid" /\ job[v] = job[w] => v = w

\* A claim is lost only by a displacement.
LossesAreCounted == LeasesHeld => \A w \in Workers : claim[w] # "lost"

Types == TypeOK /\ PhasesFollow /\ ClaimsExclude /\ LossesAreCounted

-----------------------------------------------------------------------------
(* What a step changes of the memory of a worker, and what it leaves alone *)

\* The memory a worker starts and ends with.
LEMMA FreshTypes == FreshMemory \in Memory
  BY DEF FreshMemory, Memory, Phases, Folder, Outcomes

\* A fault only counts up.
LEMMA SpendCounts ==
    ASSUME TypeOK, NEW kind \in FaultKinds, Spend(kind)
    PROVE  /\ faults' \in [FaultKinds -> Nat]
           /\ LeasesHeld' => LeasesHeld /\ kind # "displace"
           /\ \A k \in FaultKinds : faults'[k] = 0 => faults[k] = 0 /\ k # kind
  BY DEF TypeOK, Spend, FaultKinds, LeasesHeld

\* A memory with another outcome is a memory.
LEMMA OutcomeTypes ==
    ASSUME NEW m \in Memory, NEW kind \in Outcomes
    PROVE  [m EXCEPT !.outcome = kind] \in Memory
  BY DEF Memory

\* An exception keeps the memory typed and touches one worker.
LEMMA RaiseMemory ==
    ASSUME TypeOK, NEW w \in Workers, NEW kind \in Outcomes, Raise(w, kind)
    PROVE  /\ mem' \in [Workers -> Memory] /\ pc' \in [Workers -> Phases]
           /\ mem'[w] = [mem[w] EXCEPT !.outcome = kind]
           /\ pc'[w] = "finally"
           /\ \A v \in Workers \ {w} : mem'[v] = mem[v] /\ pc'[v] = pc[v]
<1> DEFINE m == [mem[w] EXCEPT !.outcome = kind]
<1>0. mem[w] \in Memory
  BY DEF TypeOK
<1>1. m \in Memory
  BY <1>0, OutcomeTypes
<1>2. mem' = [mem EXCEPT ![w] = m]
  BY DEF TypeOK, Raise
<1> HIDE DEF m
<1>3. mem' \in [Workers -> Memory] /\ mem'[w] = m /\ \A v \in Workers \ {w} : mem'[v] = mem[v]
  BY <1>1, <1>2 DEF TypeOK
<1>4. pc' \in [Workers -> Phases] /\ pc'[w] = "finally" /\ \A v \in Workers \ {w} : pc'[v] = pc[v]
  BY DEF TypeOK, Raise, Goto, Phases
<1> QED
  BY <1>3, <1>4 DEF m

\* A change of phase touches one worker.
LEMMA GotoPhase ==
    ASSUME TypeOK, NEW w \in Workers, NEW phase \in Phases, Goto(w, phase)
    PROVE  /\ pc' \in [Workers -> Phases]
           /\ pc'[w] = phase
           /\ \A v \in Workers \ {w} : pc'[v] = pc[v]
  BY DEF TypeOK, Goto

\* So does a report.
LEMMA ReportMemory ==
    ASSUME TypeOK, NEW w \in Workers, NEW phase \in Phases, NEW m \in Memory,
           ReportThen(w, phase, m)
    PROVE  /\ mem' \in [Workers -> Memory] /\ pc' \in [Workers -> Phases]
           /\ mem'[w] = [m EXCEPT !.next = phase]
           /\ pc'[w] = "report"
           /\ \A v \in Workers \ {w} : mem'[v] = mem[v] /\ pc'[v] = pc[v]
<1>1. [m EXCEPT !.next = phase] \in Memory
  BY DEF Memory
<1> QED
  BY <1>1 DEF TypeOK, ReportThen, Goto, Phases

-----------------------------------------------------------------------------
(* Types                                                                   *)

\* The initial state is typed.
LEMMA InitTypes == Init => Types
<1> SUFFICES ASSUME Init PROVE Types
  OBVIOUS
<1> USE DEF Init
<1>1. source \in [Files -> Nat] /\ snapshots \in SUBSET [Files -> Nat]
  OBVIOUS
<1>2. faults \in [FaultKinds -> Nat]
  OBVIOUS
<1>3. TypeOK
  BY <1>1, <1>2, FreshTypes DEF TypeOK, Statuses, Folder, Phases
<1>4. PhasesFollow
  BY DEF PhasesFollow, Follows, Attempt
<1>5. ClaimsExclude /\ LossesAreCounted
  BY DEF ClaimsExclude, LossesAreCounted
<1> QED
  BY <1>3, <1>4, <1>5 DEF Types

\* What a step of a worker leaves alone, whatever step it is.
Frame(w) ==
    /\ \A v \in Workers \ {w} :
          pc'[v] = pc[v] /\ job'[v] = job[v] /\ claim'[v] = claim[v] /\ mem'[v] = mem[v]
    /\ \A r \in Requests \ {job[w]} :
          /\ request'[r] = request[r] /\ status'[r] = status[r]
          /\ journal'[r] = journal[r] /\ staging'[r] = staging[r]
    /\ source' = source /\ snapshots' = snapshots
    /\ LeasesHeld' => LeasesHeld
    /\ faults'["io"] = 0 => faults["io"] = 0

\* The local part of a step: the phase and the memory of one worker.
Local(w) ==
    /\ pc' \in [Workers -> Phases] /\ mem' \in [Workers -> Memory]
    /\ \A v \in Workers \ {w} : pc'[v] = pc[v] /\ mem'[v] = mem[v]
    /\ Follows(w)'

\* The shared part of a step: files, lock and faults.
Shared(w) ==
    /\ request' \in [Requests -> BOOLEAN]
    /\ status' \in [Requests -> Statuses]
    /\ cancel' \in [Requests -> {"no", "asked", "yes"}]
    /\ journal' \in [Requests -> Folder]
    /\ staging' \in [Requests -> Folder]
    /\ target' \in Folder
    /\ targetOf' \in Requests \cup {NoRequest}
    /\ lockReq' \in Requests \cup {NoRequest}
    /\ lockBy' \in Workers \cup {NoWorker, Unremoved}
    /\ faults' \in [FaultKinds -> Nat]
    /\ LeasesHeld' => LeasesHeld
    /\ faults'["io"] = 0 => faults["io"] = 0
    /\ \A r \in Requests \ {job[w]} :
          /\ request'[r] = request[r] /\ status'[r] = status[r]
          /\ journal'[r] = journal[r] /\ staging'[r] = staging[r]
    /\ source' = source /\ snapshots' = snapshots

\* The two parts of a step together: types, and the frame.
LEMMA LocalAndShared ==
    ASSUME Types, NEW w \in Workers, Local(w), Shared(w), UNCHANGED owner
    PROVE  Types' /\ Frame(w)
<1>1. TypeOK'
  BY DEF Types, TypeOK, Local, Shared, owner
<1>2. Frame(w)
  BY DEF Frame, Local, Shared, owner
<1>3. PhasesFollow'
  <2> SUFFICES ASSUME NEW v \in Workers PROVE Follows(v)'
    BY DEF PhasesFollow
  <2>1. CASE v = w
    BY <2>1 DEF Local
  <2>2. CASE v # w
    BY <2>2, <1>2 DEF Frame, Types, PhasesFollow, Follows
  <2> QED
    BY <2>1, <2>2
<1>4. ClaimsExclude' /\ LossesAreCounted'
  BY DEF Types, ClaimsExclude, LossesAreCounted, Shared, owner
<1> QED
  BY <1>1, <1>2, <1>3, <1>4 DEF Types

\* The local part of an exception, of a change of phase, and of a report.
LEMMA RaiseLocal ==
    ASSUME Types, NEW w \in Workers, NEW kind \in Outcomes, Raise(w, kind),
           pc[w] # "idle", UNCHANGED owner
    PROVE  Local(w)
<1>1. /\ mem' \in [Workers -> Memory] /\ pc' \in [Workers -> Phases]
      /\ pc'[w] = "finally"
      /\ \A v \in Workers \ {w} : mem'[v] = mem[v] /\ pc'[v] = pc[v]
  BY RaiseMemory DEF Types
<1>2. Follows(w)'
  BY <1>1 DEF Types, PhasesFollow, Follows, Attempt, owner
<1> QED
  BY <1>1, <1>2 DEF Local

LEMMA GotoLocal ==
    ASSUME Types, NEW w \in Workers, NEW phase \in Phases, Goto(w, phase),
           pc[w] # "idle", phase # "idle",
           phase \in {"check", "recover"} => mem[w] = FreshMemory,
           phase \in {"report", "report_write"} =>
              mem[w].next \in {"begin", "snapshot", "project", "copy", "verify"},
           phase \in Attempt => mem[w].outcome = "none",
           phase \in {"final", "final_write"} =>
              mem[w].outcome \in {"cancelled", "error", "recovery_required"},
           UNCHANGED <<mem, owner>>
    PROVE  Local(w)
<1>1. /\ pc' \in [Workers -> Phases] /\ pc'[w] = phase
      /\ \A v \in Workers \ {w} : pc'[v] = pc[v]
  BY GotoPhase DEF Types
<1>2. Follows(w)'
  BY <1>1 DEF Types, PhasesFollow, Follows, owner
<1> QED
  BY <1>1, <1>2 DEF Local, Types, TypeOK

LEMMA ReportLocal ==
    ASSUME Types, NEW w \in Workers, NEW m \in Memory, m.outcome = "none",
           NEW phase \in {"begin", "snapshot", "project", "copy", "verify"},
           ReportThen(w, phase, m), pc[w] # "idle", UNCHANGED owner
    PROVE  Local(w)
<1>1. /\ mem' \in [Workers -> Memory] /\ pc' \in [Workers -> Phases]
      /\ mem'[w] = [m EXCEPT !.next = phase]
      /\ pc'[w] = "report"
      /\ \A v \in Workers \ {w} : mem'[v] = mem[v] /\ pc'[v] = pc[v]
  BY ReportMemory DEF Types, Phases
<1>2. mem'[w].next = phase /\ mem'[w].outcome = "none"
  BY <1>1 DEF Memory
<1>3. Follows(w)'
  BY <1>1, <1>2 DEF Types, PhasesFollow, Follows, owner
<1> QED
  BY <1>1, <1>3 DEF Local

\* A worker writes its memory and goes on to a phase that asks nothing of it.
LEMMA WriteLocal ==
    ASSUME Types, NEW w \in Workers, NEW phase \in Phases, Goto(w, phase),
           NEW m \in Memory, mem' = [mem EXCEPT ![w] = m],
           pc[w] # "idle",
           phase \notin {"idle", "check", "recover", "report", "report_write",
                         "final", "final_write"},
           phase \in Attempt => m.outcome = "none",
           UNCHANGED owner
    PROVE  Local(w) /\ mem'[w] = m /\ pc'[w] = phase
<1>1. /\ pc' \in [Workers -> Phases] /\ pc'[w] = phase
      /\ \A v \in Workers \ {w} : pc'[v] = pc[v]
  BY GotoPhase DEF Types
<1>2. /\ mem' \in [Workers -> Memory] /\ mem'[w] = m
      /\ \A v \in Workers \ {w} : mem'[v] = mem[v]
  BY DEF Types, TypeOK
<1>3. Follows(w)'
  BY <1>1, <1>2 DEF Types, PhasesFollow, Follows, owner
<1> QED
  BY <1>1, <1>2, <1>3 DEF Local

\* The shared part of a step that changes no file, of a fault, and of a lock.
LEMMA SharedUnchanged ==
    ASSUME Types, NEW w \in Workers,
           UNCHANGED <<protocol, folders, lock, world>>
    PROVE  Shared(w)
  BY DEF Types, TypeOK, Shared, protocol, folders, lock, world, LeasesHeld

LEMMA SharedFault ==
    ASSUME Types, NEW w \in Workers, NEW kind \in FaultKinds, Spend(kind),
           UNCHANGED <<protocol, folders, lock, source, snapshots>>
    PROVE  Shared(w)
<1>1. /\ faults' \in [FaultKinds -> Nat] /\ (LeasesHeld' => LeasesHeld)
      /\ faults'["io"] = 0 => faults["io"] = 0
  BY SpendCounts DEF Types, FaultKinds
<1> QED
  BY <1>1 DEF Types, TypeOK, Shared, protocol, folders, lock

LEMMA SharedLock ==
    ASSUME Types, NEW w \in Workers, job[w] \in Requests,
           TakeLock(w) \/ DropLock \/ LeaveLock(w) \/ UNCHANGED lock,
           UNCHANGED faults \/ Spend("io"),
           UNCHANGED <<protocol, folders, source, snapshots>>
    PROVE  Shared(w)
<1>1. /\ lockReq' \in Requests \cup {NoRequest}
      /\ lockBy' \in Workers \cup {NoWorker, Unremoved}
  BY DEF Types, TypeOK, lock, TakeLock, DropLock, LeaveLock
<1>2. /\ faults' \in [FaultKinds -> Nat] /\ (LeasesHeld' => LeasesHeld)
      /\ faults'["io"] = 0 => faults["io"] = 0
  <2>1. CASE UNCHANGED faults
    BY <2>1 DEF Types, TypeOK, LeasesHeld
  <2>2. CASE Spend("io")
    BY <2>2, SpendCounts DEF Types, FaultKinds
  <2> QED
    BY <2>1, <2>2
<1> QED
  BY <1>1, <1>2 DEF Types, TypeOK, Shared, protocol, folders

\* The shared part of a write of a status, of a staging folder, and of a publication.
LEMMA SharedStatus ==
    ASSUME Types, NEW w \in Workers, NEW s \in Statuses,
           status' = [status EXCEPT ![job[w]] = s],
           UNCHANGED <<request, cancel, journal, folders, lock, world>>
    PROVE  Shared(w)
  BY DEF Types, TypeOK, Shared, folders, lock, world, LeasesHeld

LEMMA SharedStaging ==
    ASSUME Types, NEW w \in Workers, NEW folder \in Folder,
           staging' = [staging EXCEPT ![job[w]] = folder],
           UNCHANGED <<protocol, target, targetOf, lock, world>>
    PROVE  Shared(w)
  BY DEF Types, TypeOK, Shared, protocol, lock, world, LeasesHeld

LEMMA SharedPublish ==
    ASSUME Types, NEW w \in Workers, job[w] \in Requests, Publish(w),
           UNCHANGED <<protocol, lock, world>>
    PROVE  Shared(w)
  BY DEF Types, TypeOK, Shared, protocol, lock, world, LeasesHeld, Publish, Folder

-----------------------------------------------------------------------------

\* Every step of an attempt, then every other step of a worker, by action.
LEMMA ExecuteTypes ==
    ASSUME Types, NEW w \in Workers, Execute(w)
    PROVE  Types' /\ Frame(w)
<1>1. UNCHANGED owner
  BY DEF Execute, ReportCheck, ReportWrite, Begin, SnapshotSource, CopyProject, CopyFile,
         CopyFails, Verify, Fingerprint, WriteJournal, PublishCheck, Rename, CommitCheck,
         CommitWrite, WriteFails, Quarantine, VerifyQuarantine, Finally, Rmtree, RmtreeFile,
         RmtreeDone, RmtreeFails, Unlock, FinalCheck, FinalWrite, owner
<1>2. SUFFICES Local(w) /\ Shared(w)
  BY <1>1, LocalAndShared
<1>3. /\ pc[w] # "idle" /\ pc[w] \in Phases
  BY DEF Execute, ReportCheck, ReportWrite, Begin, SnapshotSource, CopyProject, CopyFile,
         CopyFails, Verify, Fingerprint, WriteJournal, PublishCheck, Rename, CommitCheck,
         CommitWrite, WriteFails, Quarantine, VerifyQuarantine, Finally, Rmtree, RmtreeFile,
         RmtreeDone, RmtreeFails, Unlock, FinalCheck, FinalWrite, At, Types, TypeOK
<1>4. job[w] \in Requests /\ Follows(w) /\ mem[w] \in Memory /\ staging[job[w]] \in Folder
  BY <1>3 DEF Types, TypeOK, PhasesFollow, Follows
<1>5. mem[w].outcome \in Outcomes /\ mem[w].verified \in Folder
  BY <1>4 DEF Memory
<1>6. mem' = mem => UNCHANGED <<mem, owner>>
  BY <1>1
<1>7. pc[w] \in Attempt => mem[w].outcome = "none"
  BY <1>4 DEF Follows
<1>8. \A phase \in Phases \ {"idle", "check", "recover", "report", "report_write", "final",
                            "final_write"} :
         Goto(w, phase) /\ mem' = mem /\ (pc[w] \in Attempt \/ phase \notin Attempt) => Local(w)
  BY <1>3, <1>6, <1>7, GotoLocal
<1>9. \A kind \in Outcomes : Raise(w, kind) => Local(w)
  BY <1>1, <1>3, RaiseLocal
<1>10. \A kind \in FaultKinds :
          Spend(kind) /\ UNCHANGED <<protocol, folders, lock, source, snapshots>> => Shared(w)
  BY SharedFault
<1>11. UNCHANGED <<protocol, folders, lock, world>> => Shared(w)
  BY SharedUnchanged
<1>12. "io" \in FaultKinds /\ {"cancelled", "error", "recovery_required", "retry",
                               "lease_lost"} \subseteq Outcomes
  BY DEF FaultKinds, Outcomes
<1>13. CASE ReportCheck(w)
  <2>1. Local(w)
    <3>1. CASE Goto(w, "report_write") /\ UNCHANGED mem
      BY <1>1, <1>3, <1>4, <1>7, <1>13, <3>1, GotoLocal DEF ReportCheck, At, Follows, Phases, Attempt
    <3> QED
      BY <1>9, <1>12, <1>13, <3>1 DEF ReportCheck
  <2> QED
    BY <1>11, <1>13, <2>1 DEF ReportCheck
<1>14. CASE ReportWrite(w)
  <2>1. mem[w].next \in {"begin", "snapshot", "project", "copy", "verify"}
    BY <1>4, <1>14 DEF ReportWrite, At, Follows
  <2>2. Local(w)
    BY <1>8, <1>14, <2>1 DEF ReportWrite, At, Attempt, Phases
  <2>3. Shared(w)
    BY <1>14, SharedStatus DEF ReportWrite, Statuses
  <2> QED
    BY <2>2, <2>3
<1>15. CASE Begin(w)
  <2>1. Local(w)
    <3>1. CASE ReportThen(w, "snapshot", mem[w])
      BY <1>1, <1>3, <1>4, <1>7, <1>15, <3>1, ReportLocal DEF Begin, At, Attempt
    <3> QED
      BY <1>9, <1>12, <1>15, <3>1 DEF Begin
  <2>2. Shared(w)
    BY <1>4, <1>15, SharedLock DEF Begin, world
  <2> QED
    BY <2>1, <2>2
<1>16. CASE SnapshotSource(w)
  <2> DEFINE m == [mem[w] EXCEPT !.before = source]
  <2>1. m \in Memory /\ m.outcome = "none"
    BY <1>4, <1>7, <1>16 DEF SnapshotSource, At, Attempt, Memory, Types, TypeOK, Folder, Content
  <2> HIDE DEF m
  <2>2. ReportThen(w, "project", m)
    BY <1>16 DEF SnapshotSource, m
  <2>3. Local(w)
    BY <1>1, <1>3, <2>1, <2>2, ReportLocal
  <2> QED
    BY <1>11, <1>16, <2>3 DEF SnapshotSource
<1>17. CASE CopyProject(w)
  <2> DEFINE m == [mem[w] EXCEPT !.created = TRUE]
  <2>1. m \in Memory /\ m.outcome = "none"
    BY <1>4, <1>7, <1>17 DEF CopyProject, At, Attempt, Memory
  <2> HIDE DEF m
  <2>2. ReportThen(w, "copy", m)
    BY <1>17 DEF CopyProject, m
  <2>3. Local(w)
    BY <1>1, <1>3, <2>1, <2>2, ReportLocal
  <2>4. EmptyFolder \in Folder
    BY DEF EmptyFolder, Folder, Content
  <2>5. Shared(w)
    BY <1>17, <2>4, SharedStaging DEF CopyProject
  <2> QED
    BY <2>3, <2>5
<1>18. CASE CopyFile(w)
  <2>1. PICK f \in Files \ mem[w].copied :
          LET r == job[w]
              folder == IF staging[r] = NoFolder THEN EmptyFolder ELSE staging[r]
              done == mem[w].copied \cup {f}
          IN /\ staging' = [staging EXCEPT ![r] = [folder EXCEPT ![f] = source[f]]]
             /\ ReportThen(w, IF done = Files THEN "verify" ELSE "copy",
                           [mem[w] EXCEPT !.copied = done])
    BY <1>18 DEF CopyFile
  <2> DEFINE base == IF staging[job[w]] = NoFolder THEN EmptyFolder ELSE staging[job[w]]
             done == mem[w].copied \cup {f}
             m == [mem[w] EXCEPT !.copied = done]
             phase == IF done = Files THEN "verify" ELSE "copy"
  <2>2. m \in Memory /\ m.outcome = "none"
    BY <1>4, <1>7, <1>18 DEF CopyFile, At, Attempt, Memory
  <2>3. phase \in {"begin", "snapshot", "project", "copy", "verify"}
    OBVIOUS
  <2>4. ReportThen(w, phase, m)
    BY <2>1
  <2>5. base \in [Files -> Content]
    BY <1>4 DEF Folder, EmptyFolder, Content
  <2>6. [base EXCEPT ![f] = source[f]] \in Folder
    BY <2>5 DEF Folder, Content, Types, TypeOK
  <2>7. staging' = [staging EXCEPT ![job[w]] = [base EXCEPT ![f] = source[f]]]
    BY <2>1
  <2> HIDE DEF base, m, phase
  <2>8. Local(w)
    BY <1>1, <1>3, <2>2, <2>3, <2>4, ReportLocal
  <2>9. Shared(w)
    BY <1>18, <2>6, <2>7, SharedStaging DEF CopyFile
  <2> QED
    BY <2>8, <2>9
<1>19. CASE CopyFails(w)
  <2> DEFINE m == [mem[w] EXCEPT !.created = TRUE, !.outcome = "error"]
  <2>1. m \in Memory /\ mem' = [mem EXCEPT ![w] = m] /\ Goto(w, "finally")
    BY <1>4, <1>19 DEF CopyFails, Memory, Outcomes
  <2> HIDE DEF m
  <2>2. Local(w)
    BY <1>1, <1>3, <2>1, WriteLocal DEF Phases, Attempt
  <2> QED
    BY <1>10, <1>12, <1>19, <2>2 DEF CopyFails
<1>20. CASE Verify(w)
  <2>1. Local(w)
    BY <1>8, <1>9, <1>12, <1>20 DEF Verify, At, Attempt, Phases
  <2> QED
    BY <1>11, <1>20, <2>1 DEF Verify
<1>21. CASE Fingerprint(w)
  <2>1. CASE \E kind \in Outcomes : Raise(w, kind)
    BY <1>9, <1>11, <1>21, <2>1 DEF Fingerprint
  <2>2. CASE ~\E kind \in Outcomes : Raise(w, kind)
    <3> DEFINE m == [mem[w] EXCEPT !.verified = staging[job[w]]]
    <3>1. mem' = [mem EXCEPT ![w] = m] /\ Goto(w, "journal")
      BY <1>12, <1>21, <2>2 DEF Fingerprint
    <3>2. m \in Memory /\ m.outcome = "none"
      BY <1>4, <1>7, <1>21 DEF Fingerprint, At, Attempt, Memory
    <3> HIDE DEF m
    <3>3. Local(w)
      BY <1>1, <1>3, <3>1, <3>2, WriteLocal DEF Phases, Attempt
    <3> QED
      BY <1>11, <1>21, <3>3 DEF Fingerprint
  <2> QED
    BY <2>1, <2>2
<1>22. CASE WriteJournal(w)
  <2>1. Local(w)
    BY <1>8, <1>22 DEF WriteJournal, At, Attempt, Phases
  <2>2. Shared(w)
    BY <1>5, <1>22 DEF WriteJournal, Shared, Types, TypeOK, folders, lock, world, LeasesHeld
  <2> QED
    BY <2>1, <2>2
<1>23. CASE PublishCheck(w)
  <2>1. Local(w)
    BY <1>8, <1>9, <1>12, <1>23 DEF PublishCheck, At, Attempt, Phases
  <2> QED
    BY <1>11, <1>23, <2>1 DEF PublishCheck
<1>24. CASE Rename(w)
  <2>1. Local(w)
    BY <1>8, <1>9, <1>12, <1>24 DEF Rename, At, Attempt, Phases
  <2>2. Shared(w)
    BY <1>4, <1>10, <1>11, <1>12, <1>24, SharedPublish DEF Rename, world
  <2> QED
    BY <2>1, <2>2
<1>25. CASE CommitCheck(w)
  <2>1. Local(w)
    BY <1>8, <1>9, <1>12, <1>25 DEF CommitCheck, At, Attempt, Phases
  <2> QED
    BY <1>11, <1>25, <2>1 DEF CommitCheck
<1>26. CASE CommitWrite(w)
  <2> DEFINE m == [mem[w] EXCEPT !.created = FALSE]
  <2>1. m \in Memory
    BY <1>4 DEF Memory
  <2>2. mem' = [mem EXCEPT ![w] = m] /\ Goto(w, "finally")
    BY <1>26 DEF CommitWrite
  <2> HIDE DEF m
  <2>3. Local(w)
    BY <1>1, <1>3, <2>1, <2>2, WriteLocal DEF Phases, Attempt
  <2>4. Shared(w)
    BY <1>26, SharedStatus DEF CommitWrite, Statuses, Terminal
  <2> QED
    BY <2>3, <2>4
<1>27. CASE WriteFails(w)
  <2>1. Local(w)
    BY <1>8, <1>9, <1>12, <1>27 DEF WriteFails, At, Attempt, Phases
  <2> QED
    BY <1>10, <1>12, <1>27, <2>1 DEF WriteFails
<1>28. CASE Quarantine(w)
  <2>1. Local(w)
    BY <1>8, <1>9, <1>12, <1>28 DEF Quarantine, At, Attempt, Phases
  <2>2. Shared(w)
    <3>1. CASE UNCHANGED folders
      BY <1>10, <1>11, <1>12, <1>28, <3>1 DEF Quarantine, world
    <3>2. CASE ~UNCHANGED folders
      <4>1. /\ staging' = [staging EXCEPT ![job[w]] = target]
            /\ target' = NoFolder /\ targetOf' = NoRequest
            /\ UNCHANGED <<protocol, lock, world>>
        BY <1>28, <3>2 DEF Quarantine, world
      <4> QED
        BY <4>1 DEF Shared, Types, TypeOK, protocol, lock, world, LeasesHeld, Folder
    <3> QED
      BY <3>1, <3>2
  <2> QED
    BY <2>1, <2>2
<1>29. CASE VerifyQuarantine(w)
  <2> DEFINE m == [mem[w] EXCEPT !.preserve = TRUE, !.outcome = "recovery_required"]
  <2>1. m \in Memory
    BY <1>4 DEF Memory, Outcomes
  <2>2. \/ \E kind \in Outcomes : Raise(w, kind)
        \/ mem' = [mem EXCEPT ![w] = m] /\ Goto(w, "finally")
    BY <1>12, <1>29 DEF VerifyQuarantine
  <2> HIDE DEF m
  <2>3. Local(w)
    BY <1>1, <1>3, <1>9, <2>1, <2>2, WriteLocal DEF Phases, Attempt
  <2>4. Shared(w)
    BY <1>4, <1>10, <1>11, <1>12, <1>29, SharedPublish DEF VerifyQuarantine, world
  <2> QED
    BY <2>3, <2>4
<1>30. CASE Finally(w)
  <2>1. Local(w)
    BY <1>8, <1>30 DEF Finally, At, Attempt, Phases
  <2> QED
    BY <1>11, <1>30, <2>1 DEF Finally
<1>31. CASE RmtreeFile(w)
  <2>1. Local(w)
    BY <1>4, <1>31 DEF RmtreeFile, Local, Types, TypeOK, PhasesFollow, Follows, owner
  <2>2. PICK f \in Files : staging' = [staging EXCEPT ![job[w]][f] = Missing]
    BY <1>31 DEF RmtreeFile
  <2>3. staging[job[w]] \in [Files -> Content]
    BY <1>4, <1>31 DEF RmtreeFile, Folder
  <2>4. [staging[job[w]] EXCEPT ![f] = Missing] \in Folder
    BY <2>3 DEF Folder, Content
  <2>5. staging' = [staging EXCEPT ![job[w]] = [staging[job[w]] EXCEPT ![f] = Missing]]
    BY <2>2
  <2>6. Shared(w)
    BY <1>31, <2>4, <2>5, SharedStaging DEF RmtreeFile
  <2> QED
    BY <2>1, <2>6
<1>32. CASE RmtreeDone(w)
  <2>1. Local(w)
    <3>1. CASE At(w, "discard")
      BY <1>1, <1>3, <1>4, <1>7, <1>32, <3>1, ReportLocal DEF RmtreeDone, At, Attempt
    <3>2. CASE ~At(w, "discard")
      BY <1>8, <1>32, <3>2 DEF RmtreeDone, Attempt, Phases
    <3> QED
      BY <3>1, <3>2
  <2>2. Shared(w)
    BY <1>32, SharedStaging DEF RmtreeDone, Folder
  <2> QED
    BY <2>1, <2>2
<1>33. CASE RmtreeFails(w)
  <2>1. Local(w)
    BY <1>8, <1>9, <1>12, <1>33 DEF RmtreeFails, At, Attempt, Phases
  <2> QED
    BY <1>10, <1>12, <1>33, <2>1 DEF RmtreeFails
<1>34. CASE Unlock(w)
  <2>1. Local(w)
    <3>1. CASE mem[w].outcome \in {"cancelled", "error", "recovery_required"}
      <4>1. Goto(w, "final")
        BY <1>34, <3>1 DEF Unlock
      <4> QED
        BY <1>1, <1>3, <1>34, <3>1, <4>1, GotoLocal DEF Unlock, Phases, Attempt
    <3>2. CASE mem[w].outcome \in {"none", "lease_lost", "retry"}
      <4>1. Goto(w, "finish") \/ Goto(w, "release")
        BY <1>34, <3>2 DEF Unlock
      <4> QED
        BY <1>8, <1>34, <4>1 DEF Unlock, Phases, Attempt
    <3> QED
      BY <1>5, <3>1, <3>2 DEF Outcomes
  <2>2. Shared(w)
    BY <1>4, <1>34, SharedLock DEF Unlock, ReleaseLock, LeaveLock
  <2> QED
    BY <2>1, <2>2
<1>35. CASE FinalCheck(w)
  <2>1. Local(w)
    <3>1. CASE Goto(w, "final_write")
      BY <1>1, <1>3, <1>4, <1>35, <3>1, GotoLocal DEF FinalCheck, At, Follows, Phases, Attempt
    <3>2. CASE Goto(w, "finish")
      BY <1>8, <1>35, <3>2 DEF FinalCheck, Phases, Attempt
    <3> QED
      BY <1>35, <3>1, <3>2 DEF FinalCheck
  <2> QED
    BY <1>11, <1>35, <2>1 DEF FinalCheck
<1>36. CASE FinalWrite(w)
  <2>1. Local(w)
    BY <1>8, <1>36 DEF FinalWrite, Attempt, Phases
  <2>2. Shared(w)
    BY <1>4, <1>36, SharedStatus DEF FinalWrite, At, Follows, Statuses, Terminal
  <2> QED
    BY <2>1, <2>2
<1> QED
  BY <1>13, <1>14, <1>15, <1>16, <1>17, <1>18, <1>19, <1>20, <1>21, <1>22, <1>23, <1>24,
     <1>25, <1>26, <1>27, <1>28, <1>29, <1>30, <1>31, <1>32, <1>33, <1>34, <1>35, <1>36
  DEF Execute, Rmtree

\* Taking and leaving a request are the steps that change a claim.
LEMMA ProcessTypes ==
    ASSUME Types, NEW w \in Workers, Process(w)
    PROVE  Types' /\ Frame(w)
<1>1. CASE \E r \in Requests : Take(w, r)
  <2>1. PICK r \in Requests : Take(w, r)
    BY <1>1
  <2>2. /\ pc[w] = "idle" /\ mem' = mem /\ mem[w] = FreshMemory
        /\ job' = [job EXCEPT ![w] = r] /\ claim' = [claim EXCEPT ![w] = "valid"]
        /\ UNCHANGED <<protocol, folders, lock, world>>
        /\ \A v \in Workers : job[v] = r => claim[v] # "valid"
    BY <2>1 DEF Take, At, Types, PhasesFollow, Follows
  <2>3. /\ pc' \in [Workers -> Phases] /\ pc'[w] = "check"
        /\ \A v \in Workers \ {w} : pc'[v] = pc[v]
    BY <2>1, GotoPhase DEF Take, Types, Phases
  <2>4. Shared(w)
    BY <2>2, SharedUnchanged
  <2>5. Frame(w)
    BY <2>2, <2>3, <2>4 DEF Frame, Shared, Types, TypeOK
  <2>6. TypeOK'
    BY <2>2, <2>3, <2>4 DEF Types, TypeOK, Shared
  <2>7. PhasesFollow'
    <3> SUFFICES ASSUME NEW v \in Workers PROVE Follows(v)'
      BY DEF PhasesFollow
    <3>1. CASE v = w
      BY <2>2, <2>3, <3>1 DEF Follows, Types, TypeOK, FreshMemory
    <3>2. CASE v # w
      BY <2>5, <3>2 DEF Frame, Types, PhasesFollow, Follows
    <3> QED
      BY <3>1, <3>2
  <2>8. ClaimsExclude' /\ LossesAreCounted'
    BY <2>2, <2>4 DEF Types, TypeOK, ClaimsExclude, LossesAreCounted, Shared
  <2> QED
    BY <2>5, <2>6, <2>7, <2>8 DEF Types
<1>2. CASE Release(w)
  <2>1. /\ mem' = [mem EXCEPT ![w] = FreshMemory] /\ job' = [job EXCEPT ![w] = NoRequest]
        /\ claim' = [claim EXCEPT ![w] = "none"]
        /\ UNCHANGED <<protocol, folders, lock, world>>
    BY <1>2 DEF Release
  <2>2. /\ pc' \in [Workers -> Phases] /\ pc'[w] = "idle"
        /\ \A v \in Workers \ {w} : pc'[v] = pc[v]
    BY <1>2, GotoPhase DEF Release, Types, Phases
  <2>3. Shared(w)
    BY <2>1, SharedUnchanged
  <2>4. Frame(w)
    BY <2>1, <2>2, <2>3 DEF Frame, Shared, Types, TypeOK
  <2>5. TypeOK'
    BY <2>1, <2>2, <2>3, FreshTypes DEF Types, TypeOK, Shared
  <2>6. PhasesFollow'
    <3> SUFFICES ASSUME NEW v \in Workers PROVE Follows(v)'
      BY DEF PhasesFollow
    <3>1. CASE v = w
      BY <2>1, <2>2, <3>1 DEF Follows, Types, TypeOK, Attempt
    <3>2. CASE v # w
      BY <2>4, <3>2 DEF Frame, Types, PhasesFollow, Follows
    <3> QED
      BY <3>1, <3>2
  <2>7. ClaimsExclude' /\ LossesAreCounted'
    BY <2>1, <2>3 DEF Types, TypeOK, ClaimsExclude, LossesAreCounted, Shared
  <2> QED
    BY <2>4, <2>5, <2>6, <2>7 DEF Types
<1>3. CASE ~Release(w) /\ ~\E r \in Requests : Take(w, r)
  <2>1. UNCHANGED owner
    BY <1>3 DEF Process, CheckTerminal, Postpone, Recover, Inspect, RecoverLock, RecoverCheck,
           RecoverRename, Finish, Cleanup, Unlink, Sweep, owner
  <2>2. SUFFICES Local(w) /\ Shared(w)
    BY <2>1, LocalAndShared
  <2>3. pc[w] # "idle"
    BY <1>3 DEF Process, CheckTerminal, Postpone, Recover, Inspect, RecoverLock, RecoverCheck,
           RecoverRename, Finish, Cleanup, Unlink, Sweep, At
  <2>4. job[w] \in Requests /\ Follows(w) /\ mem[w] \in Memory
    BY <2>3 DEF Types, TypeOK, PhasesFollow, Follows
  <2>5. pc[w] \in Attempt => mem[w].outcome = "none"
    BY <2>4 DEF Follows
  <2>6. \A phase \in Phases \ {"idle", "check", "recover", "report", "report_write", "final",
                              "final_write"} :
           Goto(w, phase) /\ mem' = mem /\ (pc[w] \in Attempt \/ phase \notin Attempt) => Local(w)
    BY <2>1, <2>3, <2>5, GotoLocal
  <2>7. \A kind \in Outcomes : Raise(w, kind) => Local(w)
    BY <2>1, <2>3, RaiseLocal
  <2>8. \A kind \in FaultKinds :
           Spend(kind) /\ UNCHANGED <<protocol, folders, lock, source, snapshots>> => Shared(w)
    BY SharedFault
  <2>9. UNCHANGED <<protocol, folders, lock, world>> => Shared(w)
    BY SharedUnchanged
  <2>10. "io" \in FaultKinds /\ {"cancelled", "error", "recovery_required", "retry",
                                 "lease_lost"} \subseteq Outcomes
    BY DEF FaultKinds, Outcomes
  <2>11. CASE CheckTerminal(w)
    <3>1. Local(w)
      <4>1. CASE Goto(w, "recover")
        BY <2>1, <2>3, <2>4, <2>5, <2>11, <4>1, GotoLocal
        DEF CheckTerminal, At, Follows, Phases, Attempt
      <4> QED
        BY <2>6, <2>11, <4>1 DEF CheckTerminal, Phases, Attempt
    <3>2. Shared(w)
      BY <2>4, <2>11, SharedLock DEF CheckTerminal, TryDiscardLockOf, DiscardLockOf, LeaveLock
    <3> QED
      BY <3>1, <3>2
  <2>12. CASE Postpone(w)
    <3>1. Local(w)
      BY <2>6, <2>12 DEF Postpone, Phases, Attempt
    <3>2. Shared(w)
      BY <2>4, <2>12, SharedLock DEF Postpone, DiscardLockOf
    <3> QED
      BY <3>1, <3>2
  <2>13. CASE Recover(w)
    <3>1. Local(w)
      <4>1. CASE journal[job[w]] # NoFolder
        <5> DEFINE m == [mem[w] EXCEPT !.recovering = TRUE]
        <5>1. mem' = [mem EXCEPT ![w] = m] /\ Goto(w, "inspect")
          BY <2>13, <4>1 DEF Recover
        <5>2. m \in Memory /\ m.outcome = "none"
          BY <2>4, <2>5, <2>13 DEF Recover, At, Attempt, Memory
        <5> HIDE DEF m
        <5> QED
          BY <2>1, <2>3, <5>1, <5>2, WriteLocal DEF Phases, Attempt
      <4>2. CASE ReportThen(w, "begin", mem[w])
        BY <2>1, <2>3, <2>4, <2>5, <2>13, <4>2, ReportLocal DEF Recover, At, Attempt
      <4> QED
        BY <2>6, <2>13, <4>1, <4>2 DEF Recover, At, Phases, Attempt
    <3>2. Shared(w)
      BY <2>4, <2>13, SharedLock DEF Recover, TryDiscardLockOf, DiscardLockOf, LeaveLock
    <3> QED
      BY <3>1, <3>2
  <2>14. CASE Inspect(w)
    <3>1. Local(w)
      BY <2>6, <2>7, <2>10, <2>14 DEF Inspect, At, Phases, Attempt
    <3> QED
      BY <2>9, <2>14, <3>1 DEF Inspect
  <2>15. CASE RecoverLock(w)
    <3>1. Local(w)
      BY <2>6, <2>7, <2>10, <2>15 DEF RecoverLock, At, Phases, Attempt
    <3>2. Shared(w)
      BY <2>4, <2>15, SharedLock DEF RecoverLock, DiscardLockOf
    <3> QED
      BY <3>1, <3>2
  <2>16. CASE RecoverCheck(w)
    <3>1. Local(w)
      BY <2>6, <2>7, <2>10, <2>16 DEF RecoverCheck, At, Phases, Attempt
    <3> QED
      BY <2>9, <2>16, <3>1 DEF RecoverCheck
  <2>17. CASE RecoverRename(w)
    <3>1. Local(w)
      BY <2>6, <2>7, <2>10, <2>17 DEF RecoverRename, At, Phases, Attempt
    <3>2. Shared(w)
      BY <2>4, <2>8, <2>9, <2>10, <2>17, SharedPublish DEF RecoverRename, world
    <3> QED
      BY <3>1, <3>2
  <2>18. CASE Finish(w)
    <3>1. Local(w)
      BY <2>6, <2>18 DEF Finish, Phases, Attempt
    <3> QED
      BY <2>9, <2>18, <3>1 DEF Finish
  <2>19. CASE Cleanup(w)
    <3>1. CASE Goto(w, "release") /\ UNCHANGED mem
      BY <2>6, <2>9, <2>19, <3>1 DEF Cleanup, Phases, Attempt
    <3>2. CASE ~(Goto(w, "release") /\ UNCHANGED mem)
      <4> DEFINE m == [mem[w] EXCEPT !.preserve = status[job[w]] = "recovery_required"]
      <4>1. mem' = [mem EXCEPT ![w] = m] /\ Goto(w, "unlink")
        BY <2>19, <3>2 DEF Cleanup
      <4>2. m \in Memory
        BY <2>4 DEF Memory
      <4> HIDE DEF m
      <4>3. Local(w)
        BY <2>1, <2>3, <4>1, <4>2, WriteLocal DEF Phases, Attempt
      <4> QED
        BY <2>9, <2>19, <4>3 DEF Cleanup
    <3> QED
      BY <3>1, <3>2
  <2>20. CASE Unlink(w)
    <3>1. Local(w)
      BY <2>6, <2>20 DEF Unlink, Phases, Attempt
    <3>2. CASE UNCHANGED request
      BY <2>8, <2>9, <2>10, <2>20, <3>1, <3>2 DEF Unlink, protocol, world
    <3>3. CASE request' = [request EXCEPT ![job[w]] = FALSE] /\ UNCHANGED faults
      BY <2>4, <2>20, <3>1, <3>3 DEF Unlink, Shared, Types, TypeOK, folders, lock, LeasesHeld
    <3> QED
      BY <2>20, <3>2, <3>3 DEF Unlink
  <2>21. CASE Sweep(w)
    <3>1. Local(w)
      BY <2>6, <2>21 DEF Sweep, Phases, Attempt
    <3>2. journal' \in [Requests -> Folder] /\ \A r \in Requests \ {job[w]} : journal'[r] = journal[r]
      BY <2>21 DEF Sweep, Types, TypeOK, Folder
    <3>3. cancel' \in [Requests -> {"no", "asked", "yes"}]
      BY <2>21 DEF Sweep, Types, TypeOK
    <3>4. Shared(w)
      BY <2>21, <3>2, <3>3 DEF Sweep, Shared, Types, TypeOK, folders, lock, world, LeasesHeld
    <3> QED
      BY <3>1, <3>4
  <2> QED
    BY <1>3, <2>11, <2>12, <2>13, <2>14, <2>15, <2>16, <2>17, <2>18, <2>19, <2>20, <2>21
    DEF Process
<1> QED
  BY <1>1, <1>2, <1>3

\* A crash and a displacement are the events that change a claim.
LEMMA EnvironmentTypes ==
    ASSUME Types, Environment
    PROVE  Types'
<1>1. /\ request' = request /\ journal' = journal /\ staging' = staging /\ status' = status
  BY DEF Environment, AskCancel, MarkCancel, EditSource, EditTarget, Displace, Crash, protocol,
         folders
<1>2. ASSUME NEW r \in Requests, AskCancel(r) \/ MarkCancel(r)
      PROVE  Types'
  <2>1. faults' \in [FaultKinds -> Nat] /\ (LeasesHeld' => LeasesHeld)
    BY <1>2, SpendCounts DEF Types, TypeOK, AskCancel, MarkCancel, FaultKinds, world, LeasesHeld
  <2>2. TypeOK'
    BY <1>1, <1>2, <2>1 DEF Types, TypeOK, AskCancel, MarkCancel, folders, lock, world, owner
  <2>3. PhasesFollow' /\ ClaimsExclude' /\ LossesAreCounted'
    BY <1>2, <2>1 DEF Types, AskCancel, MarkCancel, PhasesFollow, Follows, ClaimsExclude,
                      LossesAreCounted, owner
  <2> QED
    BY <2>2, <2>3 DEF Types
<1>3. ASSUME NEW f \in Files, EditSource(f) \/ EditTarget(f)
      PROVE  Types'
  <2>1. faults' \in [FaultKinds -> Nat] /\ (LeasesHeld' => LeasesHeld)
    BY <1>3, SpendCounts DEF Types, TypeOK, EditSource, EditTarget, FaultKinds
  <2>2. source' \in [Files -> Nat] /\ snapshots' \in SUBSET [Files -> Nat]
    BY <1>3 DEF Types, TypeOK, EditSource, EditTarget
  <2>3. target' \in Folder
    BY <1>3 DEF Types, TypeOK, EditSource, EditTarget, folders, Folder, Content
  <2>4. TypeOK'
    BY <1>1, <1>3, <2>1, <2>2, <2>3
    DEF Types, TypeOK, EditSource, EditTarget, protocol, folders, lock, owner
  <2>5. PhasesFollow' /\ ClaimsExclude' /\ LossesAreCounted'
    BY <1>3, <2>1 DEF Types, EditSource, EditTarget, PhasesFollow, Follows, ClaimsExclude,
                      LossesAreCounted, owner
  <2> QED
    BY <2>4, <2>5 DEF Types
<1>4. ASSUME NEW w \in Workers, Displace(w)
      PROVE  Types'
  <2>1. faults' \in [FaultKinds -> Nat] /\ ~LeasesHeld'
    BY <1>4, SpendCounts DEF Types, Displace, FaultKinds
  <2>2. /\ claim' = [claim EXCEPT ![w] = "lost"] /\ claim[w] = "valid"
        /\ UNCHANGED <<protocol, folders, lock, source, snapshots, job, pc, mem>>
    BY <1>4 DEF Displace
  <2>3. TypeOK'
    BY <2>1, <2>2 DEF Types, TypeOK, protocol, folders, lock
  <2>4. PhasesFollow'
    <3> SUFFICES ASSUME NEW v \in Workers PROVE Follows(v)'
      BY DEF PhasesFollow
    <3> QED
      BY <2>2 DEF Types, TypeOK, PhasesFollow, Follows
  <2>5. ClaimsExclude' /\ LossesAreCounted'
    BY <2>1, <2>2 DEF Types, TypeOK, ClaimsExclude, LossesAreCounted
  <2> QED
    BY <2>3, <2>4, <2>5 DEF Types
<1>5. ASSUME NEW w \in Workers, Crash(w)
      PROVE  Types'
  <2>1. faults' \in [FaultKinds -> Nat] /\ (LeasesHeld' => LeasesHeld)
    BY <1>5, SpendCounts DEF Types, Crash, FaultKinds
  <2>2. /\ mem' = [mem EXCEPT ![w] = FreshMemory] /\ job' = [job EXCEPT ![w] = NoRequest]
        /\ claim' = [claim EXCEPT ![w] = "none"]
        /\ lockBy' = IF lockBy = w THEN NoWorker ELSE lockBy
        /\ UNCHANGED <<protocol, folders, lockReq, source, snapshots>>
    BY <1>5 DEF Crash
  <2>3. /\ pc' \in [Workers -> Phases] /\ pc'[w] = "idle"
        /\ \A v \in Workers \ {w} : pc'[v] = pc[v]
    BY <1>5, GotoPhase DEF Crash, Types, Phases
  <2>4. TypeOK'
    BY <2>1, <2>2, <2>3, FreshTypes DEF Types, TypeOK, protocol, folders
  <2>5. PhasesFollow'
    <3> SUFFICES ASSUME NEW v \in Workers PROVE Follows(v)'
      BY DEF PhasesFollow
    <3>1. CASE v = w
      BY <2>2, <2>3, <3>1 DEF Follows, Types, TypeOK, Attempt
    <3>2. CASE v # w
      BY <2>2, <2>3, <3>2 DEF Types, TypeOK, PhasesFollow, Follows
    <3> QED
      BY <3>1, <3>2
  <2>6. ClaimsExclude' /\ LossesAreCounted'
    BY <2>1, <2>2 DEF Types, TypeOK, ClaimsExclude, LossesAreCounted
  <2> QED
    BY <2>4, <2>5, <2>6 DEF Types
<1> QED
  BY <1>2, <1>3, <1>4, <1>5 DEF Environment

\* A step of nobody.
LEMMA StutterTypes == ASSUME Types, UNCHANGED vars PROVE Types'
  BY DEF Types, TypeOK, PhasesFollow, Follows, ClaimsExclude, LossesAreCounted, LeasesHeld, vars,
         protocol, folders, lock, world, owner

\* Files and workers stay in their ranges, and a request has one valid claim.
LEMMA TypesInvariant == Spec => []Types
<1>1. ASSUME Types, [Next]_vars PROVE Types'
  <2>1. CASE \E w \in Workers : Process(w) \/ Execute(w)
    BY <1>1, <2>1, ProcessTypes, ExecuteTypes
  <2>2. CASE Environment
    BY <1>1, <2>2, EnvironmentTypes
  <2>3. CASE Terminated \/ UNCHANGED vars
    BY <1>1, <2>3, StutterTypes DEF Terminated
  <2> QED
    BY <1>1, <2>1, <2>2, <2>3 DEF Next
<1> QED
  BY <1>1, InitTypes, PTL DEF Spec

\* TypeOK, for any instance: no step leaves a file, a status or a worker in a
\* state the code has no name for, whatever faults strike it.
THEOREM DuplicationTypes == Spec => []TypeOK
<1>1. Types => TypeOK
  BY DEF Types
<1> QED
  BY <1>1, TypesInvariant, PTL

-----------------------------------------------------------------------------
(* Retention.  An attempt that may still write an outcome (Open) has none   *)
(* yet, and a queue file is removed under an outcome (Unlinks): only the    *)
(* owner of a request writes its status, so what it read is still true.     *)

\* While no live worker lost its lease, a request has one worker.
LEMMA OneOwner ==
    ASSUME Types, LeasesHeld, NEW v \in Workers, NEW w \in Workers,
           pc[v] # "idle", pc[w] # "idle", job[v] = job[w]
    PROVE  v = w
<1>1. claim[v] = "valid" /\ claim[w] = "valid"
  BY DEF Types, TypeOK, PhasesFollow, Follows, LossesAreCounted
<1> QED
  BY <1>1 DEF Types, ClaimsExclude

Open(w) ==
    \/ pc[w] \in Attempt \ {"check"}
    \/ pc[w] \in {"finally", "clean", "unlock"} /\ mem[w].outcome # "none"
    \/ pc[w] \in {"final", "final_write"}

Attempts == \A w \in Workers : Open(w) => status[job[w]] \notin Terminal
Unlinks ==
    \A w \in Workers : pc[w] \in {"unlink", "sweep"} => status[job[w]] \in Terminal

Retention == LeasesHeld => Attempts /\ Unlinks /\ RequestIsRetained

\* What events outside a job leave alone.
LEMMA EnvironmentFrame ==
    ASSUME Types, Environment
    PROVE  /\ UNCHANGED <<request, status, journal, staging, targetOf, lockReq>>
           /\ LeasesHeld' => LeasesHeld
           /\ faults'["io"] = 0 => faults["io"] = 0
           /\ \A v \in Workers :
                 \/ pc'[v] = pc[v] /\ job'[v] = job[v] /\ mem'[v] = mem[v]
                 \/ pc'[v] = "idle" /\ mem'[v] = FreshMemory /\ lockBy' # v
           /\ \/ UNCHANGED lockBy
              \/ lockBy' = NoWorker /\ lockBy \in Workers /\ pc'[lockBy] = "idle"
<1>1. \A kind \in FaultKinds : Spend(kind) =>
         /\ LeasesHeld' => LeasesHeld
         /\ faults'["io"] = 0 => faults["io"] = 0
  BY SpendCounts DEF Types, FaultKinds
<1>2. ASSUME NEW r \in Requests, AskCancel(r) \/ MarkCancel(r)
      PROVE  /\ UNCHANGED <<request, status, journal, staging, targetOf, lockReq, lockBy, pc, job,
                            mem>>
             /\ LeasesHeld' => LeasesHeld
             /\ faults'["io"] = 0 => faults["io"] = 0
  BY <1>1, <1>2 DEF AskCancel, MarkCancel, folders, lock, world, owner, FaultKinds, LeasesHeld
<1>3. ASSUME NEW f \in Files, EditSource(f) \/ EditTarget(f)
      PROVE  /\ UNCHANGED <<request, status, journal, staging, targetOf, lockReq, lockBy, pc, job,
                            mem>>
             /\ LeasesHeld' => LeasesHeld
             /\ faults'["io"] = 0 => faults["io"] = 0
  BY <1>1, <1>3 DEF EditSource, EditTarget, protocol, folders, lock, owner, FaultKinds
<1>4. ASSUME NEW w \in Workers, Displace(w)
      PROVE  /\ UNCHANGED <<request, status, journal, staging, targetOf, lockReq, lockBy, pc, job,
                            mem>>
             /\ LeasesHeld' => LeasesHeld
             /\ faults'["io"] = 0 => faults["io"] = 0
  BY <1>1, <1>4 DEF Displace, protocol, folders, lock, FaultKinds
<1>5. ASSUME NEW w \in Workers, Crash(w)
      PROVE  /\ UNCHANGED <<request, status, journal, staging, targetOf, lockReq>>
             /\ LeasesHeld' => LeasesHeld
             /\ faults'["io"] = 0 => faults["io"] = 0
             /\ \A v \in Workers \ {w} : pc'[v] = pc[v] /\ job'[v] = job[v] /\ mem'[v] = mem[v]
             /\ pc'[w] = "idle" /\ mem'[w] = FreshMemory /\ lockBy' # w
             /\ lockBy' = IF lockBy = w THEN NoWorker ELSE lockBy
  BY <1>1, <1>5, NamesAssumption
  DEF Crash, protocol, folders, Types, TypeOK, Goto, FaultKinds
<1> QED
  BY <1>2, <1>3, <1>4, <1>5 DEF Environment

\* The status and the queue file change only in the hands of an open attempt and
\* of a cleanup, and the step leaves its own worker in order.
LEMMA OwnRetention ==
    ASSUME Types, LeasesHeld, Attempts, Unlinks, NEW w \in Workers, Process(w) \/ Execute(w)
    PROVE  /\ Open(w)' => status'[job'[w]] \notin Terminal
           /\ pc'[w] \in {"unlink", "sweep"} => status'[job'[w]] \in Terminal
           /\ status' # status => Open(w)
           /\ request' # request => pc[w] = "unlink" /\ status' = status
<1>1. Follows(w) /\ Follows(w)' /\ Types'
  BY ProcessTypes, ExecuteTypes DEF Types, PhasesFollow
<1>2. /\ pc \in [Workers -> Phases] /\ mem \in [Workers -> Memory]
      /\ status \in [Requests -> Statuses] /\ job \in [Workers -> Requests \cup {NoRequest}]
      /\ mem' \in [Workers -> Memory]
  BY <1>1 DEF Types, TypeOK
<1>3. CASE ReportWrite(w) \/ CommitWrite(w) \/ FinalWrite(w)
  <2>1. pc[w] \in {"report_write", "commit_write", "final_write"} /\ job' = job /\ request' = request
    BY <1>3 DEF ReportWrite, CommitWrite, FinalWrite, At, owner
  <2>2. Open(w) /\ job[w] \in Requests
    BY <1>1, <2>1 DEF Open, Attempt, Follows
  <2>3. CASE ReportWrite(w)
    <3>1. status' = [status EXCEPT ![job[w]] = "processing"]
      BY <2>3 DEF ReportWrite
    <3>2. pc'[w] = mem[w].next /\ mem[w].next \notin {"unlink", "sweep"}
      BY <1>1, <1>2, <2>3 DEF ReportWrite, Goto, At, Follows
    <3> QED
      BY <1>2, <2>1, <2>2, <3>1, <3>2 DEF Terminal
  <2>4. CASE CommitWrite(w)
    <3>1. mem[w].outcome = "none"
      BY <1>1, <2>4 DEF CommitWrite, At, Follows, Attempt
    <3>2. pc'[w] = "finally" /\ mem'[w].outcome = "none"
      BY <1>2, <2>4, <3>1 DEF CommitWrite, Goto, Memory
    <3> QED
      BY <2>1, <2>2, <3>2 DEF Open, Attempt
  <2>5. CASE FinalWrite(w)
    <3>1. pc'[w] = "finish"
      BY <1>2, <2>5 DEF FinalWrite, Goto
    <3> QED
      BY <2>1, <2>2, <3>1 DEF Open, Attempt
  <2> QED
    BY <1>3, <2>3, <2>4, <2>5
<1>4. CASE ~(ReportWrite(w) \/ CommitWrite(w) \/ FinalWrite(w))
  <2>1. status' = status
    BY <1>4 DEF Process, Execute, Take, CheckTerminal, Postpone, Recover, Inspect, RecoverLock,
           RecoverCheck, RecoverRename, Finish, Cleanup, Unlink, Sweep, Release, ReportCheck, Begin,
           SnapshotSource, CopyProject, CopyFile, CopyFails, Verify, Fingerprint, WriteJournal,
           PublishCheck, Rename, CommitCheck, WriteFails, Quarantine, VerifyQuarantine, Finally,
           Rmtree, RmtreeFile, RmtreeDone, RmtreeFails, Unlock, FinalCheck, protocol
  <2>2. request' # request => Unlink(w)
    BY <1>4 DEF Process, Execute, Take, CheckTerminal, Postpone, Recover, Inspect, RecoverLock,
           RecoverCheck, RecoverRename, Finish, Cleanup, Unlink, Sweep, Release, ReportCheck, Begin,
           SnapshotSource, CopyProject, CopyFile, CopyFails, Verify, Fingerprint, WriteJournal,
           PublishCheck, Rename, CommitCheck, WriteFails, Quarantine, VerifyQuarantine, Finally,
           Rmtree, RmtreeFile, RmtreeDone, RmtreeFails, Unlock, FinalCheck, protocol
  <2>3. request' # request => pc[w] = "unlink"
    BY <2>2 DEF Unlink, At
  <2>4. pc'[w] \in {"unlink", "sweep"} => Cleanup(w) \/ Unlink(w)
    BY <1>1, <1>2, <1>4 DEF Process, Execute, Take, CheckTerminal, Postpone, Recover, Inspect,
           RecoverLock, RecoverCheck, RecoverRename, Finish, Cleanup, Unlink, Sweep, Release,
           ReportCheck, Begin, SnapshotSource, CopyProject, CopyFile, CopyFails, Verify, Fingerprint,
           WriteJournal, PublishCheck, Rename, CommitCheck, WriteFails, Quarantine,
           VerifyQuarantine, Finally, Rmtree, RmtreeFile, RmtreeDone, RmtreeFails, Unlock,
           FinalCheck, At, Goto, Raise, ReportThen
  <2>5. pc'[w] \in {"unlink", "sweep"} => status'[job'[w]] \in Terminal
    <3> SUFFICES ASSUME pc'[w] \in {"unlink", "sweep"} PROVE status'[job'[w]] \in Terminal
      OBVIOUS
    <3>1. Cleanup(w) \/ Unlink(w)
      BY <2>4
    <3>2. job' = job /\ ~Goto(w, "release")
      BY <1>2, <3>1 DEF Cleanup, Unlink, owner, Goto
    <3> QED
      BY <2>1, <3>1, <3>2 DEF Cleanup, Unlink, At, Unlinks
  <2>6. Open(w)' => status'[job'[w]] \notin Terminal
    <3> SUFFICES ASSUME Open(w)' PROVE status'[job'[w]] \notin Terminal
      OBVIOUS
    <3>1. CASE Open(w)
      <4>1. job' = job
        BY <3>1 DEF Process, Execute, Take, CheckTerminal, Postpone, Recover, Inspect, RecoverLock,
           RecoverCheck, RecoverRename, Finish, Cleanup, Unlink, Sweep, Release, ReportCheck,
           ReportWrite, Begin, SnapshotSource, CopyProject, CopyFile, CopyFails, Verify, Fingerprint,
           WriteJournal, PublishCheck, Rename, CommitCheck, CommitWrite, WriteFails, Quarantine,
           VerifyQuarantine, Finally, Rmtree, RmtreeFile, RmtreeDone, RmtreeFails, Unlock,
           FinalCheck, FinalWrite, At, Open, Attempt, owner
      <4> QED
        BY <2>1, <3>1, <4>1 DEF Attempts
    <3>2. CASE ~Open(w)
      <4>1. CASE CheckTerminal(w)
        <5>1. job' = job /\ pc'[w] # "cleanup"
          BY <4>1 DEF CheckTerminal, owner, Open, Attempt
        <5> QED
          BY <1>2, <2>1, <4>1, <5>1 DEF CheckTerminal, Goto
      <4>2. CASE Finally(w) \/ Unlock(w) \/ RmtreeFile(w)
        <5>1. mem[w].outcome = "none" /\ mem' = mem
          BY <3>2, <4>2 DEF Finally, Unlock, RmtreeFile, At, Open, Attempt
        <5>2. pc'[w] \in {"finish", "clean", "unlock"} \/ pc' = pc
          BY <1>2, <4>2, <5>1 DEF Finally, Unlock, RmtreeFile, Goto
        <5> QED
          BY <3>2, <5>1, <5>2 DEF Open, Attempt
      <4>3. CASE RmtreeDone(w) \/ RmtreeFails(w)
        <5>1. pc[w] = "clean" /\ mem[w].outcome = "none"
          BY <3>2, <4>3 DEF RmtreeDone, RmtreeFails, Open, Attempt
        <5>2. mem' = mem /\ pc'[w] = "unlock"
          BY <1>2, <4>3, <5>1 DEF RmtreeDone, RmtreeFails, At, Goto
        <5> QED
          BY <5>1, <5>2 DEF Open, Attempt
      <4>4. CASE ~(CheckTerminal(w) \/ Finally(w) \/ Unlock(w) \/ Rmtree(w))
        <5>1. \/ \E r \in Requests : Take(w, r)
              \/ Postpone(w) \/ Finish(w) \/ Cleanup(w) \/ Unlink(w) \/ Sweep(w) \/ Release(w)
          BY <3>2, <4>4 DEF Process, Execute, Recover, Inspect, RecoverLock, RecoverCheck,
             RecoverRename, ReportCheck, ReportWrite, Begin, SnapshotSource, CopyProject, CopyFile,
             CopyFails, Verify, Fingerprint, WriteJournal, PublishCheck, Rename, CommitCheck,
             CommitWrite, WriteFails, Quarantine, VerifyQuarantine, FinalCheck, FinalWrite, At,
             Open, Attempt
        <5>2. pc'[w] \in {"check", "release", "cleanup", "unlink", "sweep", "idle"}
          BY <1>2, <5>1 DEF Take, Postpone, Finish, Cleanup, Unlink, Sweep, Release, Goto
        <5> QED
          BY <5>2 DEF Open, Attempt
      <4> QED
        BY <4>1, <4>2, <4>3, <4>4 DEF Rmtree
    <3> QED
      BY <3>1, <3>2
  <2> QED
    BY <2>1, <2>3, <2>5, <2>6
<1> QED
  BY <1>3, <1>4

\* Retention over a step of a worker, over an event, and over any step.
LEMMA WorkerRetention ==
    ASSUME Types, Retention, NEW w \in Workers, Process(w) \/ Execute(w)
    PROVE  /\ Retention'
           /\ LeasesHeld' => \A r \in Requests :
                 status[r] \in Terminal => status'[r] = status[r]
<1>1. SUFFICES ASSUME LeasesHeld'
               PROVE  /\ Attempts' /\ Unlinks' /\ RequestIsRetained'
                      /\ \A r \in Requests : status[r] \in Terminal => status'[r] = status[r]
  BY DEF Retention
<1>2. Types' /\ Frame(w)
  BY ProcessTypes, ExecuteTypes
<1>3. LeasesHeld /\ Attempts /\ Unlinks /\ RequestIsRetained
  BY <1>1, <1>2 DEF Frame, Retention
<1>4. /\ Open(w)' => status'[job'[w]] \notin Terminal
      /\ pc'[w] \in {"unlink", "sweep"} => status'[job'[w]] \in Terminal
      /\ status' # status => Open(w)
      /\ request' # request => pc[w] = "unlink" /\ status' = status
  BY <1>3, OwnRetention
<1>5. \A r \in Requests : status[r] \in Terminal => status'[r] = status[r]
  <2> SUFFICES ASSUME NEW r \in Requests, status[r] \in Terminal, status'[r] # status[r]
               PROVE  FALSE
    OBVIOUS
  <2>1. r = job[w]
    BY <1>2 DEF Frame
  <2> QED
    BY <1>3, <1>4, <2>1 DEF Attempts
<1>6. ASSUME NEW v \in Workers, v # w, pc[v] # "idle"
      PROVE  job[v] \in Requests \ {job[w]} \/ pc[w] = "idle"
  BY <1>3, <1>6, OneOwner DEF Types, PhasesFollow, Follows
<1>7. ASSUME NEW v \in Workers, v # w, pc[v] # "idle"
      PROVE  status'[job[v]] = status[job[v]]
  <2>1. pc[w] = "idle" => status' = status
    BY <1>4 DEF Open, Attempt
  <2> QED
    BY <1>2, <1>6, <1>7, <2>1 DEF Frame
<1>8. Attempts'
  <2> SUFFICES ASSUME NEW v \in Workers, Open(v)' PROVE status'[job'[v]] \notin Terminal
    BY DEF Attempts
  <2>1. CASE v = w
    BY <1>4, <2>1
  <2>2. CASE v # w
    <3>1. Open(v) /\ job'[v] = job[v] /\ pc[v] # "idle"
      BY <1>2, <2>2 DEF Frame, Open, Attempt
    <3> QED
      BY <1>3, <1>7, <2>2, <3>1 DEF Attempts
  <2> QED
    BY <2>1, <2>2
<1>9. Unlinks'
  <2> SUFFICES ASSUME NEW v \in Workers, pc'[v] \in {"unlink", "sweep"}
               PROVE  status'[job'[v]] \in Terminal
    BY DEF Unlinks
  <2>1. CASE v = w
    BY <1>4, <2>1
  <2>2. CASE v # w
    <3>1. pc[v] \in {"unlink", "sweep"} /\ job'[v] = job[v]
      BY <1>2, <2>2 DEF Frame
    <3> QED
      BY <1>3, <1>7, <2>2, <3>1 DEF Unlinks
  <2> QED
    BY <2>1, <2>2
<1>10. RequestIsRetained'
  <2> SUFFICES ASSUME NEW r \in Requests, ~request'[r] PROVE status'[r] \in Terminal
    BY DEF RequestIsRetained
  <2>1. CASE ~request[r]
    BY <1>3, <1>5, <2>1 DEF RequestIsRetained
  <2>2. CASE request[r]
    <3>1. pc[w] = "unlink" /\ status' = status /\ r = job[w]
      BY <1>2, <1>4, <2>2 DEF Frame
    <3> QED
      BY <1>3, <3>1 DEF Unlinks
  <2> QED
    BY <2>1, <2>2
<1> QED
  BY <1>5, <1>8, <1>9, <1>10

LEMMA EnvironmentRetention ==
    ASSUME Types, Retention, Environment
    PROVE  Retention' /\ status' = status
<1>1. /\ request' = request /\ status' = status /\ (LeasesHeld' => LeasesHeld)
      /\ \A v \in Workers :
            \/ pc'[v] = pc[v] /\ job'[v] = job[v] /\ mem'[v] = mem[v]
            \/ pc'[v] = "idle"
  BY EnvironmentFrame
<1> QED
  BY <1>1 DEF Retention, Attempts, Unlinks, RequestIsRetained, Open, Attempt

LEMMA StepRetention ==
    ASSUME Types, Retention, [Next]_vars
    PROVE  /\ Retention'
           /\ LeasesHeld' => \A r \in Requests :
                 status[r] \in Terminal => status'[r] = status[r]
<1>1. CASE \E w \in Workers : Process(w) \/ Execute(w)
  BY <1>1, WorkerRetention
<1>2. CASE Environment
  BY <1>2, EnvironmentRetention
<1>3. CASE Terminated \/ UNCHANGED vars
  BY <1>3 DEF Terminated, vars, protocol, world, owner, Retention, Attempts, Unlinks,
              RequestIsRetained, Open, LeasesHeld
<1> QED
  BY <1>1, <1>2, <1>3 DEF Next

LEMMA RetentionInvariant == Spec => []Retention
<1>1. Init => Retention
  BY DEF Init, Retention, Attempts, Unlinks, RequestIsRetained, Open, Attempt
<1> QED
  BY <1>1, StepRetention, TypesInvariant, PTL DEF Spec

\* RequestIsRetained, for any instance: while no live worker lost its lease, a
\* queue file is removed only under a terminal status, so crashes lose no job.
THEOREM RequestsAreRetained == Spec => [](LeasesHeld => RequestIsRetained)
<1>1. Retention => (LeasesHeld => RequestIsRetained)
  BY DEF Retention
<1> QED
  BY <1>1, RetentionInvariant, PTL

\* TerminalIsFinal, for any instance in which no live worker loses its lease: no
\* attempt, recovery or retry writes a status after a terminal one.
THEOREM OutcomesAreFinal == Spec /\ []LeasesHeld => TerminalIsFinal
<1>1. ASSUME Types, Retention, LeasesHeld', [Next]_vars
      PROVE  [\A r \in Requests : status[r] \in Terminal => status'[r] = status[r]]_vars
  BY <1>1, StepRetention
<1> QED
  BY <1>1, RetentionInvariant, TypesInvariant, PTL DEF Spec, TerminalIsFinal

-----------------------------------------------------------------------------
(* The target lock.  Its live owner is at work on the request it names, and *)
(* what a dead owner left is dropped before the request goes on, or a call  *)
(* to drop it has failed.                                                   *)

LockPhases == {"report", "report_write", "begin", "snapshot", "project", "copy", "verify",
               "fingerprint", "journal", "publish", "rename", "commit", "commit_write",
               "quarantine", "verify_quarantine", "rec_lock", "rec_check", "rec_rename",
               "finally", "clean", "unlock"}

LockOwners ==
    \A w \in Workers : lockBy = w => lockReq = job[w] /\ pc[w] \in LockPhases

LocksFollow ==
    LeasesHeld => \A w \in Workers :
        pc[w] \notin {"idle", "check", "recover", "release"} /\ lockReq = job[w] =>
            lockBy \in {w, Unremoved}

Locks == LockOwners /\ LocksFollow /\ (LeasesHeld => LockFollowsRequest)

\* What a step of a worker does to the lock: it takes it, lets go of it, discards
\* what a dead owner left, or leaves it alone.
LetsGo(w) ==
    /\ pc[w] = "unlock" /\ pc'[w] \notin LockPhases
    /\ IF lockBy = w THEN DropLock \/ LeaveLock(w) ELSE UNCHANGED lock

Discards(w) ==
    \/ DiscardLockOf(job[w]) /\ pc[w] \in {"check", "recover"}
    \/ DiscardLockOf(job[w]) /\ pc[w] = "rec_lock" /\ pc'[w] = "finally"
    \/ lockReq = job[w] /\ LeaveLock(w) /\ pc[w] \in {"check", "recover"}

LEMMA LockSteps ==
    ASSUME Types, NEW w \in Workers, Process(w) \/ Execute(w)
    PROVE  \/ TakeLock(w) /\ pc[w] \in {"begin", "rec_lock"} /\ pc'[w] \in LockPhases
           \/ LetsGo(w) \/ Discards(w)
           \/ /\ UNCHANGED lock
              /\ pc[w] \in LockPhases => pc'[w] \in LockPhases
              /\ pc[w] \in {"idle", "check", "recover", "release"} =>
                    pc'[w] \in {"idle", "check", "recover", "release"}
<1>1. /\ pc \in [Workers -> Phases] /\ Follows(w)
  BY DEF Types, TypeOK, PhasesFollow
<1>2. CASE CheckTerminal(w) \/ Recover(w) \/ Postpone(w)
  <2>1. CASE Discards(w)
    BY <2>1
  <2>2. CASE ~Discards(w)
    <3>1. \/ UNCHANGED lock /\ pc[w] = "check" /\ pc'[w] = "recover"
          \/ UNCHANGED lock /\ pc[w] \in {"check", "recover", "finish"} /\ pc'[w] = "release"
      BY <1>1, <1>2, <2>2
      DEF CheckTerminal, Recover, Postpone, TryDiscardLockOf, Discards, At, Goto, lock
    <3> QED
      BY <3>1 DEF LockPhases
  <2> QED
    BY <2>1, <2>2
<1>3. CASE Begin(w) \/ RecoverLock(w)
  <2>1. pc[w] \in {"begin", "rec_lock"} /\ pc'[w] \in {"report", "finally", "rec_check"}
    BY <1>1, <1>3 DEF Begin, RecoverLock, At, Goto, Raise, ReportThen
  <2>2. \/ TakeLock(w) \/ UNCHANGED lock
        \/ DiscardLockOf(job[w]) /\ pc[w] = "rec_lock" /\ pc'[w] = "finally"
    BY <1>1, <1>3 DEF Begin, RecoverLock, At, Goto, Raise
  <2> QED
    BY <2>1, <2>2 DEF LockPhases, Discards
<1>4. CASE Unlock(w)
  <2>1. pc[w] = "unlock" /\ pc'[w] \in {"finish", "release", "final"}
    BY <1>1, <1>4 DEF Unlock, At, Goto
  <2> QED
    BY <1>4, <2>1 DEF Unlock, ReleaseLock, LetsGo, LockPhases
<1>5. CASE ~(\/ CheckTerminal(w) \/ Recover(w) \/ Postpone(w) \/ Begin(w) \/ RecoverLock(w)
            \/ Unlock(w))
  <2>1. UNCHANGED lock
    BY <1>5 DEF Process, Execute, Take, Inspect, RecoverCheck, RecoverRename, Finish,
           Cleanup, Unlink, Sweep, Release, ReportCheck, ReportWrite, SnapshotSource, CopyProject,
           CopyFile, CopyFails, Verify, Fingerprint, WriteJournal, PublishCheck, Rename,
           CommitCheck, CommitWrite, WriteFails, Quarantine, VerifyQuarantine, Finally, Rmtree,
           RmtreeFile, RmtreeDone, RmtreeFails, FinalCheck, FinalWrite, lock
  <2>2. pc[w] \in {"idle", "check", "recover", "release"} =>
           pc'[w] \in {"idle", "check", "recover", "release"}
    <3>1. pc[w] \in {"idle", "check", "recover", "release"} =>
             (\E r \in Requests : Take(w, r)) \/ Release(w)
      BY <1>5 DEF Process, Execute, Inspect, RecoverCheck, RecoverRename, Finish,
           Cleanup, Unlink, Sweep, ReportCheck, ReportWrite, SnapshotSource, CopyProject,
           CopyFile, CopyFails, Verify, Fingerprint, WriteJournal, PublishCheck, Rename,
           CommitCheck, CommitWrite, WriteFails, Quarantine, VerifyQuarantine, Finally, Rmtree,
           RmtreeFile, RmtreeDone, RmtreeFails, FinalCheck, FinalWrite, At
    <3> QED
      BY <1>1, <3>1 DEF Take, Release, Goto
  <2>3. pc[w] \in LockPhases => pc'[w] \in LockPhases
    <3> SUFFICES ASSUME pc[w] \in LockPhases PROVE pc'[w] \in LockPhases
      OBVIOUS
    <3>1. Execute(w) \/ RecoverCheck(w) \/ RecoverRename(w)
      BY <1>5 DEF Process, Take, Inspect, Finish, Cleanup, Unlink, Sweep, Release, At, LockPhases
    <3>2. CASE ReportWrite(w)
      BY <1>1, <3>2 DEF ReportWrite, At, Goto, Follows, LockPhases
    <3>3. CASE ~ReportWrite(w)
      <4>1. CASE Rmtree(w)
        BY <1>1, <4>1 DEF Rmtree, RmtreeFile, RmtreeDone, RmtreeFails, At, Goto, Raise,
                          ReportThen, LockPhases
      <4>2. CASE WriteFails(w)
        BY <1>1, <4>2 DEF WriteFails, At, Goto, Raise, LockPhases
      <4>3. CASE CopyFile(w) \/ CopyProject(w) \/ SnapshotSource(w) \/ CopyFails(w)
        <5>1. pc'[w] \in {"report", "finally"}
          BY <1>1, <4>3 DEF CopyFile, CopyProject, SnapshotSource, CopyFails, Goto, ReportThen
        <5> QED
          BY <5>1 DEF LockPhases
      <4>4. CASE ~(Rmtree(w) \/ WriteFails(w) \/ CopyFile(w) \/ CopyProject(w)
                   \/ SnapshotSource(w) \/ CopyFails(w))
        <5>1. \/ RecoverCheck(w) \/ RecoverRename(w) \/ ReportCheck(w)
              \/ Verify(w) \/ Fingerprint(w) \/ WriteJournal(w) \/ PublishCheck(w) \/ Rename(w)
              \/ CommitCheck(w) \/ CommitWrite(w) \/ Quarantine(w) \/ VerifyQuarantine(w)
              \/ Finally(w)
          BY <1>5, <3>1, <3>3, <4>4 DEF Execute, FinalCheck, FinalWrite, At, LockPhases
        <5>2. pc'[w] \in {"finally", "rec_rename", "commit", "report_write", "fingerprint",
                          "journal", "publish", "rename", "commit_write", "verify_quarantine",
                          "clean", "unlock"}
          BY <1>1, <5>1 DEF RecoverCheck, RecoverRename, ReportCheck, Verify, Fingerprint,
             WriteJournal, PublishCheck, Rename, CommitCheck, CommitWrite, Quarantine,
             VerifyQuarantine, Finally, Goto, Raise
        <5> QED
          BY <5>2 DEF LockPhases
      <4> QED
        BY <4>1, <4>2, <4>3, <4>4
    <3> QED
      BY <3>2, <3>3
  <2> QED
    BY <2>1, <2>2, <2>3
<1> QED
  BY <1>2, <1>3, <1>4, <1>5

\* Locks over a step of a worker, over an event, and over any behaviour.
LEMMA WorkerLocks ==
    ASSUME Types, Retention, Locks, NEW w \in Workers, Process(w) \/ Execute(w)
    PROVE  Locks'
<1>1. /\ Types' /\ Frame(w) /\ NoWorker \notin Workers /\ Unremoved \notin Workers
      /\ NoRequest \notin Requests
  BY ProcessTypes, ExecuteTypes, NamesAssumption
<1>2. /\ Follows(w) /\ Follows(w)' /\ (pc'[w] # "idle" /\ pc[w] # "idle" => job'[w] = job[w])
  <2>1. pc'[w] # "idle" /\ pc[w] # "idle" => job'[w] = job[w]
    BY DEF Process, Execute, Take, CheckTerminal, Postpone, Recover, Inspect, RecoverLock,
           RecoverCheck, RecoverRename, Finish, Cleanup, Unlink, Sweep, Release, ReportCheck,
           ReportWrite, Begin, SnapshotSource, CopyProject, CopyFile, CopyFails, Verify, Fingerprint,
           WriteJournal, PublishCheck, Rename, CommitCheck, CommitWrite, WriteFails, Quarantine,
           VerifyQuarantine, Finally, Rmtree, RmtreeFile, RmtreeDone, RmtreeFails, Unlock,
           FinalCheck, FinalWrite, At, Goto, owner, Types, TypeOK
  <2> QED
    BY <1>1, <2>1 DEF Types, PhasesFollow
<1>3. \/ TakeLock(w) /\ pc[w] \in {"begin", "rec_lock"} /\ pc'[w] \in LockPhases
      \/ LetsGo(w) \/ Discards(w)
      \/ /\ UNCHANGED lock
         /\ pc[w] \in LockPhases => pc'[w] \in LockPhases
         /\ pc[w] \in {"idle", "check", "recover", "release"} =>
               pc'[w] \in {"idle", "check", "recover", "release"}
  BY LockSteps
<1>4. TakeLock(w) \/ DropLock \/ LeaveLock(w) \/ UNCHANGED lock
  BY <1>3 DEF LetsGo, Discards, DiscardLockOf
<1>5. LockOwners'
  <2> SUFFICES ASSUME NEW v \in Workers, lockBy' = v
               PROVE  lockReq' = job'[v] /\ pc'[v] \in LockPhases
    BY DEF LockOwners
  <2>1. CASE v # w
    <3>1. lockBy = v /\ lockReq' = lockReq
      BY <1>1, <1>4, <2>1 DEF TakeLock, DropLock, LeaveLock, lock
    <3>2. lockReq = job[v] /\ pc[v] \in LockPhases
      BY <3>1 DEF Locks, LockOwners
    <3> QED
      BY <1>1, <2>1, <3>1, <3>2 DEF Frame
  <2>2. CASE v = w
    <3>1. CASE TakeLock(w) /\ pc'[w] \in LockPhases /\ pc[w] \in {"begin", "rec_lock"}
      BY <1>2, <2>2, <3>1 DEF TakeLock, LockPhases
    <3>2. CASE UNCHANGED lock
      <4>1. lockBy = w /\ lockReq = job[w] /\ pc[w] \in LockPhases
        BY <2>2, <3>2 DEF lock, Locks, LockOwners
      <4>2. ~DropLock /\ ~LeaveLock(w)
        BY <1>1, <2>2 DEF DropLock, LeaveLock
      <4>3. pc'[w] \in LockPhases
        BY <1>1, <1>3, <4>1, <4>2 DEF LetsGo, Discards, DiscardLockOf, LockPhases
      <4> QED
        BY <1>2, <2>2, <3>2, <4>1, <4>3 DEF LockPhases, lock
    <3>3. CASE DropLock \/ LeaveLock(w)
      BY <1>1, <2>2, <3>3 DEF DropLock, LeaveLock
    <3> QED
      BY <1>3, <3>1, <3>2, <3>3 DEF LetsGo, Discards, DiscardLockOf
  <2> QED
    BY <2>1, <2>2
<1>6. LocksFollow'
  <2> SUFFICES ASSUME LeasesHeld', NEW v \in Workers,
                      pc'[v] \notin {"idle", "check", "recover", "release"}, lockReq' = job'[v]
               PROVE  lockBy' \in {v, Unremoved}
    BY DEF LocksFollow
  <2>1. LeasesHeld /\ job'[v] \in Requests
    BY <1>1 DEF Frame, Types, PhasesFollow, Follows
  <2>2. ~DropLock
    BY <1>1, <2>1 DEF DropLock
  <2>3. CASE v # w
    <3>1. pc[v] = pc'[v] /\ job'[v] = job[v]
      BY <1>1, <2>3 DEF Frame
    <3>2. pc[w] # "idle" => job[w] # job[v]
      BY <2>1, <2>3, <3>1, OneOwner
    <3>3. ~TakeLock(w) \/ pc[w] \notin {"begin", "rec_lock"}
      BY <3>1, <3>2 DEF TakeLock
    <3>4. ~LeaveLock(w) \/ ~(LetsGo(w) \/ Discards(w)) \/ UNCHANGED lock
      <4> SUFFICES ASSUME LeaveLock(w), LetsGo(w) \/ Discards(w), ~UNCHANGED lock PROVE FALSE
        OBVIOUS
      <4>1. lockReq' = lockReq
        BY DEF LeaveLock
      <4>2. lockReq = job[w] /\ pc[w] # "idle"
        BY <2>2 DEF LetsGo, Discards, DiscardLockOf, Locks, LockOwners
      <4> QED
        BY <3>1, <3>2, <4>1, <4>2
    <3>5. UNCHANGED lock
      BY <1>3, <2>2, <3>3, <3>4 DEF LetsGo, Discards, DiscardLockOf
    <3> QED
      BY <2>1, <3>1, <3>5 DEF Locks, LocksFollow, lock
  <2>4. CASE v = w
    <3>1. CASE TakeLock(w)
      BY <2>4, <3>1 DEF TakeLock
    <3>2. CASE LeaveLock(w) /\ (LetsGo(w) \/ Discards(w))
      <4>1. CASE lockBy \notin Workers \ {w}
        BY <3>2, <4>1 DEF LeaveLock
      <4>2. CASE lockBy \in Workers \ {w}
        <5> DEFINE u == lockBy
        <5>1. u \in Workers /\ u # w /\ lockReq = job[u] /\ pc[u] \in LockPhases
          BY <4>2 DEF Locks, LockOwners
        <5>2. lockReq' = lockReq /\ lockBy' = u
          BY <3>2, <4>2 DEF LeaveLock
        <5>3. pc[w] # "idle" /\ pc'[w] # "idle"
          BY <2>4, <3>2 DEF LetsGo, Discards
        <5>4. job[w] = job[u]
          BY <1>2, <2>4, <5>1, <5>2, <5>3
        <5> QED
          BY <2>1, <5>1, <5>3, <5>4, OneOwner DEF LockPhases
      <4> QED
        BY <4>1, <4>2
    <3>3. CASE UNCHANGED lock
      <4>1. ~DiscardLockOf(job[w]) \/ lockReq # job[w]
        BY <2>2 DEF DiscardLockOf
      <4>2. lockReq' = lockReq /\ lockBy' = lockBy
        BY <3>3 DEF lock
      <4>3. CASE Discards(w) /\ DiscardLockOf(job[w])
        BY <1>2, <2>4, <4>1, <4>2, <4>3 DEF Discards
      <4>4. CASE pc[w] \notin {"idle", "check", "recover", "release"}
        BY <1>2, <2>1, <2>4, <4>2, <4>4 DEF Locks, LocksFollow
      <4> QED
        BY <1>3, <2>4, <3>1, <3>2, <4>3, <4>4 DEF LockPhases, LetsGo, Discards
    <3> QED
      BY <1>3, <2>2, <3>1, <3>2, <3>3 DEF LetsGo, Discards, DiscardLockOf
  <2> QED
    BY <2>3, <2>4
<1>7. ASSUME LeasesHeld' PROVE LockFollowsRequest'
  <2>1. /\ LeasesHeld /\ LockFollowsRequest /\ Attempts /\ Unlinks /\ RequestIsRetained
        /\ request' # request => pc[w] = "unlink" /\ status' = status
    BY <1>1, <1>7, OwnRetention DEF Frame, Locks, Retention
  <2> SUFFICES ASSUME NEW r \in Requests, ~request'[r], lockReq' = r PROVE lockBy' = Unremoved
    BY DEF LockFollowsRequest
  <2>2. CASE request[r]
    <3>1. r = job[w] /\ pc[w] = "unlink"
      BY <1>1, <2>1, <2>2 DEF Frame
    <3>2. lockReq = r => lockBy = Unremoved
      BY <2>1, <3>1 DEF Locks, LockOwners, LocksFollow, LockPhases
    <3>3. UNCHANGED lock
      BY <1>3, <3>1 DEF LetsGo, Discards
    <3> QED
      BY <3>2, <3>3 DEF lock
  <2>3. CASE ~request[r]
    <3>1. (lockReq = r => lockBy = Unremoved) /\ status[r] \in Terminal
      BY <2>1, <2>3 DEF LockFollowsRequest, RequestIsRetained
    <3>2. TakeLock(w) /\ pc[w] \in {"begin", "rec_lock"} => job[w] # r
      BY <2>1, <3>1 DEF Attempts, Open, Attempt
    <3>3. ~DropLock /\ ~(TakeLock(w) /\ pc[w] \in {"begin", "rec_lock"})
      BY <1>1, <3>2 DEF DropLock, TakeLock
    <3>4. UNCHANGED lock \/ LeaveLock(w)
      BY <1>3, <3>3 DEF LetsGo, Discards, DiscardLockOf
    <3> QED
      BY <1>1, <3>1, <3>4 DEF LeaveLock, lock
  <2> QED
    BY <2>2, <2>3
<1> QED
  BY <1>5, <1>6, <1>7 DEF Locks

LEMMA EnvironmentLocks ==
    ASSUME Types, Locks, Environment
    PROVE  Locks'
<1>1. /\ request' = request /\ lockReq' = lockReq /\ (LeasesHeld' => LeasesHeld)
      /\ \A v \in Workers :
            \/ pc'[v] = pc[v] /\ job'[v] = job[v]
            \/ pc'[v] = "idle" /\ lockBy' # v
      /\ \/ UNCHANGED lockBy
         \/ lockBy' = NoWorker /\ lockBy \in Workers /\ pc'[lockBy] = "idle"
      /\ NoWorker \notin Workers /\ Unremoved \notin Workers
  BY EnvironmentFrame, NamesAssumption
<1>2. LockOwners'
  BY <1>1 DEF Locks, LockOwners
<1>3. LocksFollow'
  <2> SUFFICES ASSUME LeasesHeld', NEW v \in Workers,
                      pc'[v] \notin {"idle", "check", "recover", "release"}, lockReq' = job'[v]
               PROVE  lockBy' \in {v, Unremoved}
    BY DEF LocksFollow
  <2>1. pc'[v] = pc[v] /\ lockBy \in {v, Unremoved}
    BY <1>1 DEF Locks, LocksFollow
  <2> QED
    BY <1>1, <2>1
<1>4. LeasesHeld' => LockFollowsRequest'
  BY <1>1 DEF Locks, LockFollowsRequest
<1> QED
  BY <1>2, <1>3, <1>4 DEF Locks

LEMMA LocksInvariant == Spec => []Locks
<1>1. Init => Locks
  BY NamesAssumption DEF Init, Locks, LockOwners, LocksFollow, LockFollowsRequest
<1>2. ASSUME Types, Retention, Locks, [Next]_vars PROVE Locks'
  <2>1. CASE \E w \in Workers : Process(w) \/ Execute(w)
    BY <1>2, <2>1, WorkerLocks
  <2>2. CASE Environment
    BY <1>2, <2>2, EnvironmentLocks
  <2>3. CASE Terminated \/ UNCHANGED vars
    BY <1>2, <2>3 DEF Terminated, vars, protocol, lock, world, owner, Locks, LockOwners,
                      LocksFollow, LockFollowsRequest, LeasesHeld
  <2> QED
    BY <1>2, <2>1, <2>2, <2>3 DEF Next
<1> QED
  BY <1>1, <1>2, RetentionInvariant, TypesInvariant, PTL DEF Spec

\* LockFollowsRequest, for any instance: while no live worker lost its lease, a
\* request that has left the queue has left no lock on the name of its target,
\* unless the call that was to remove the lock failed.
THEOREM LocksAreReleased == Spec => [](LeasesHeld => LockFollowsRequest)
<1>1. Locks => (LeasesHeld => LockFollowsRequest)
  BY DEF Locks
<1> QED
  BY <1>1, LocksInvariant, PTL

-----------------------------------------------------------------------------
(* Publication.  A copy that was compared with the source is one of its     *)
(* snapshots, and stays one in the phases that follow: nobody but the owner *)
(* of the request touches the staging folder, and users only edit a target. *)

Snap(folder) ==
    folder # NoFolder => \E s \in snapshots : \A f \in Files : folder[f] \in {s[f], Edited}

\* The staging folder holds a verified copy.
Verified == {"fingerprint", "journal", "publish", "rename", "verify_quarantine", "rec_lock",
             "rec_check", "rec_rename"}

Copies ==
    /\ source \in snapshots
    /\ LeasesHeld =>
          /\ Snap(target)
          /\ \A r \in Requests : Snap(journal[r])
          /\ \A w \in Workers : Snap(mem[w].verified)
          /\ \A w \in Workers : pc[w] \in Verified => Snap(staging[job[w]])

\* The steps that change the target.
LEMMA TargetSteps ==
    ASSUME Types, NEW w \in Workers, Process(w) \/ Execute(w)
    PROVE  \/ UNCHANGED <<target, targetOf>>
           \/ /\ Publish(w) /\ staging'[job[w]] = NoFolder
              /\ \/ pc[w] \in {"rename", "rec_rename"} /\ pc'[w] = "commit" /\ mem' = mem
                 \/ pc[w] = "verify_quarantine" /\ Raise(w, "recovery_required")
           \/ /\ pc[w] = "quarantine" /\ pc'[w] = "verify_quarantine" /\ mem' = mem
              /\ staging'[job[w]] = target /\ target # NoFolder
              /\ target' = NoFolder /\ targetOf' = NoRequest
<1>1. pc[w] # "idle" => job[w] \in Requests
  BY DEF Types, PhasesFollow, Follows
<1>2. pc \in [Workers -> Phases] /\ staging \in [Requests -> Folder]
  BY DEF Types, TypeOK
<1>3. CASE Rename(w) \/ RecoverRename(w)
  BY <1>1, <1>2, <1>3 DEF Rename, RecoverRename, Publish, At, Goto, folders
<1>4. CASE VerifyQuarantine(w)
  BY <1>1, <1>2, <1>4 DEF VerifyQuarantine, Publish, At, folders
<1>5. CASE Quarantine(w)
  BY <1>1, <1>2, <1>5 DEF Quarantine, At, Goto, folders
<1>6. CASE ~(Rename(w) \/ RecoverRename(w) \/ VerifyQuarantine(w) \/ Quarantine(w))
  BY <1>6 DEF Process, Execute, Take, CheckTerminal, Postpone, Recover, Inspect, RecoverLock,
     RecoverCheck, Finish, Cleanup, Unlink, Sweep, Release, ReportCheck, ReportWrite, Begin,
     SnapshotSource, CopyProject, CopyFile, CopyFails, Verify, Fingerprint, WriteJournal,
     PublishCheck, CommitCheck, CommitWrite, WriteFails, Finally, Rmtree, RmtreeFile, RmtreeDone,
     RmtreeFails, Unlock, FinalCheck, FinalWrite, folders
<1> QED
  BY <1>3, <1>4, <1>5, <1>6

\* The journal and the manifest in memory are what the verified copy was.
LEMMA ManifestSteps ==
    ASSUME Types, NEW w \in Workers, Process(w) \/ Execute(w)
    PROVE  /\ \A r \in Requests : \/ journal'[r] \in {journal[r], NoFolder}
                                  \/ journal'[r] = mem[w].verified
           /\ \/ mem'[w].verified \in {mem[w].verified, NoFolder}
              \/ pc[w] = "fingerprint" /\ mem'[w].verified = staging[job[w]]
<1>1. /\ mem \in [Workers -> Memory] /\ journal \in [Requests -> Folder] /\ mem[w] \in Memory
  BY DEF Types, TypeOK
<1>2. \A r \in Requests : \/ journal'[r] \in {journal[r], NoFolder}
                          \/ journal'[r] = mem[w].verified
  <2>1. CASE WriteJournal(w) \/ Sweep(w)
    BY <1>1, <2>1 DEF WriteJournal, Sweep
  <2>2. CASE ~(WriteJournal(w) \/ Sweep(w))
    BY <2>2 DEF Process, Execute, Take, CheckTerminal, Postpone, Recover, Inspect, RecoverLock,
       RecoverCheck, RecoverRename, Finish, Cleanup, Unlink, Release, ReportCheck, ReportWrite,
       Begin, SnapshotSource, CopyProject, CopyFile, CopyFails, Verify, Fingerprint, PublishCheck,
       Rename, CommitCheck, CommitWrite, WriteFails, Quarantine, VerifyQuarantine, Finally, Rmtree,
       RmtreeFile, RmtreeDone, RmtreeFails, Unlock, FinalCheck, FinalWrite, protocol
  <2> QED
    BY <2>1, <2>2
<1>3. \/ mem'[w].verified \in {mem[w].verified, NoFolder}
      \/ pc[w] = "fingerprint" /\ mem'[w].verified = staging[job[w]]
  <2>1. \A kind \in Outcomes : Raise(w, kind) => mem'[w].verified = mem[w].verified
    BY <1>1 DEF Raise, Memory
  <2>2. {"cancelled", "error", "recovery_required", "retry", "lease_lost"} \subseteq Outcomes
    BY DEF Outcomes
  <2>3. \A phase \in Phases : \A m \in Memory :
           ReportThen(w, phase, m) => mem'[w].verified = m.verified
    BY <1>1 DEF ReportThen, Memory
  <2>4. {"begin", "snapshot", "project", "copy", "verify"} \subseteq Phases
    BY DEF Phases
  <2>5. CASE Fingerprint(w)
    BY <1>1, <2>1, <2>2, <2>5 DEF Fingerprint, At, Memory
  <2>6. CASE Begin(w) \/ Recover(w) \/ RmtreeDone(w) \/ RmtreeFails(w)
    BY <1>1, <2>1, <2>2, <2>3, <2>4, <2>6
    DEF Begin, Recover, RmtreeDone, RmtreeFails, Memory
  <2>7. CASE SnapshotSource(w)
    <3>1. [mem[w] EXCEPT !.before = source] \in Memory
      BY <1>1 DEF Memory, Types, TypeOK, Folder, Content
    <3> QED
      BY <1>1, <2>3, <2>4, <2>7, <3>1 DEF SnapshotSource, Memory
  <2>8. CASE CopyProject(w)
    <3>1. [mem[w] EXCEPT !.created = TRUE] \in Memory
      BY <1>1 DEF Memory
    <3> QED
      BY <1>1, <2>3, <2>4, <2>8, <3>1 DEF CopyProject, Memory
  <2>9. CASE CopyFile(w)
    <3>1. PICK f \in Files :
            ReportThen(w, IF mem[w].copied \cup {f} = Files THEN "verify" ELSE "copy",
                       [mem[w] EXCEPT !.copied = mem[w].copied \cup {f}])
      BY <2>9 DEF CopyFile
    <3> DEFINE m == [mem[w] EXCEPT !.copied = mem[w].copied \cup {f}]
    <3>2. m \in Memory /\ m.verified = mem[w].verified
      BY <1>1 DEF Memory
    <3> HIDE DEF m
    <3>3. ReportThen(w, "verify", m) \/ ReportThen(w, "copy", m)
      BY <3>1 DEF m
    <3>4. mem'[w].verified = m.verified
      <4>1. CASE ReportThen(w, "verify", m)
        BY ONLY <2>3, <2>4, <3>2, <4>1
      <4>2. CASE ReportThen(w, "copy", m)
        BY ONLY <2>3, <2>4, <3>2, <4>2
      <4> QED
        BY ONLY <3>3, <4>1, <4>2
    <3> QED
      BY ONLY <3>2, <3>4
  <2>10. CASE CopyFails(w) \/ CommitWrite(w) \/ VerifyQuarantine(w) \/ Cleanup(w)
    <3>1. CASE CopyFails(w)
      BY <1>1, <2>1, <2>2, <3>1 DEF CopyFails
    <3>2. CASE CommitWrite(w)
      BY <1>1, <3>2 DEF CommitWrite, Memory
    <3>3. CASE VerifyQuarantine(w)
      BY <1>1, <2>1, <2>2, <3>3 DEF VerifyQuarantine, Memory
    <3>4. CASE Cleanup(w)
      BY <1>1, <3>4 DEF Cleanup, Memory
    <3> QED
      BY <2>10, <3>1, <3>2, <3>3, <3>4
  <2>11. CASE Release(w)
    BY <1>1, <2>11 DEF Release, FreshMemory
  <2>12. CASE ~(\/ Fingerprint(w) \/ Begin(w) \/ Recover(w) \/ RmtreeDone(w) \/ RmtreeFails(w)
                \/ SnapshotSource(w) \/ CopyProject(w) \/ CopyFile(w) \/ CopyFails(w)
                \/ CommitWrite(w) \/ VerifyQuarantine(w) \/ Cleanup(w) \/ Release(w))
    <3>1. mem' = mem \/ \E kind \in Outcomes : Raise(w, kind)
      BY <2>2, <2>12 DEF Process, Execute, Take, CheckTerminal, Postpone, Inspect, RecoverLock,
         RecoverCheck, RecoverRename, Finish, Unlink, Sweep, ReportCheck, ReportWrite, Verify,
         WriteJournal, PublishCheck, Rename, CommitCheck, WriteFails, Quarantine, Finally, Rmtree,
         RmtreeFile, Unlock, FinalCheck, FinalWrite
    <3> QED
      BY <2>1, <3>1
  <2> QED
    BY <2>5, <2>6, <2>7, <2>8, <2>9, <2>10, <2>11, <2>12
<1> QED
  BY <1>2, <1>3

\* How a worker comes to hold a verified copy, and keeps it.
LEMMA VerifiedSteps ==
    ASSUME Types, NEW w \in Workers, Process(w) \/ Execute(w), pc'[w] \in Verified
    PROVE  /\ job'[w] = job[w] /\ pc[w] # "idle"
           /\ \/ pc[w] \in Verified /\ staging'[job[w]] = staging[job[w]]
              \/ staging'[job[w]] \in {source, journal[job[w]], target}
<1>1. /\ pc \in [Workers -> Phases] /\ staging \in [Requests -> Folder]
      /\ pc[w] # "idle" => job[w] \in Requests
  BY DEF Types, TypeOK, PhasesFollow, Follows
<1>2. \/ Inspect(w) \/ RecoverLock(w) \/ RecoverCheck(w) \/ Verify(w) \/ Fingerprint(w)
      \/ WriteJournal(w) \/ PublishCheck(w) \/ Quarantine(w)
  <2>1. CASE ReportWrite(w)
    BY <1>1, <2>1 DEF ReportWrite, At, Goto, Types, PhasesFollow, Follows, Verified
  <2>2. CASE RmtreeFile(w)
    BY <2>2 DEF RmtreeFile, Verified
  <2>3. CASE WriteFails(w)
    BY <1>1, <2>3 DEF WriteFails, Goto, Raise, Verified
  <2>4. CASE CopyFile(w)
    BY <1>1, <2>4 DEF CopyFile, Goto, ReportThen, Verified
  <2>5. CASE RmtreeDone(w) \/ RmtreeFails(w)
    BY <1>1, <2>5 DEF RmtreeDone, RmtreeFails, Goto, Raise, ReportThen, Verified
  <2>6. CASE ~(ReportWrite(w) \/ Rmtree(w) \/ WriteFails(w) \/ CopyFile(w))
    BY <1>1, <2>6 DEF Process, Execute, Take, CheckTerminal, Postpone, Recover, RecoverRename,
       Finish, Cleanup, Unlink, Sweep, Release, ReportCheck, Begin, SnapshotSource, CopyProject,
       CopyFails, Rename, CommitCheck, CommitWrite, VerifyQuarantine, Finally, Unlock, FinalCheck,
       FinalWrite, Goto, Raise, ReportThen, Verified
  <2> QED
    BY <2>1, <2>2, <2>3, <2>4, <2>5, <2>6 DEF Rmtree
<1>3. job' = job /\ pc[w] # "idle"
  BY <1>2 DEF Inspect, RecoverLock, RecoverCheck, Verify, Fingerprint, WriteJournal, PublishCheck,
              Quarantine, owner, At
<1>4. CASE Inspect(w) \/ Verify(w)
  BY <1>1, <1>3, <1>4 DEF Inspect, Verify, Goto, Raise, folders, Verified
<1>5. CASE Quarantine(w)
  BY <1>1, <1>3, <1>5 DEF Quarantine, Goto, Raise, Verified, folders
<1>6. CASE RecoverLock(w) \/ RecoverCheck(w) \/ Fingerprint(w) \/ WriteJournal(w) \/ PublishCheck(w)
  BY <1>3, <1>6 DEF RecoverLock, RecoverCheck, Fingerprint, WriteJournal, PublishCheck, folders, At,
              Verified
<1> QED
  BY <1>2, <1>3, <1>4, <1>5, <1>6

\* Copies over a step of a worker, over an event, and over any behaviour.
LEMMA WorkerCopies ==
    ASSUME Types, Copies, NEW w \in Workers, Process(w) \/ Execute(w)
    PROVE  Copies'
<1>1. Types' /\ Frame(w)
  BY ProcessTypes, ExecuteTypes
<1>2. /\ source' = source /\ snapshots' = snapshots /\ source' \in snapshots'
  BY <1>1 DEF Frame, Copies
<1>3. SUFFICES ASSUME LeasesHeld'
               PROVE  /\ Snap(target)' /\ \A r \in Requests : Snap(journal'[r])
                      /\ \A v \in Workers : Snap(mem'[v].verified)
                      /\ \A v \in Workers : pc'[v] \in Verified => Snap(staging'[job'[v]])
  BY <1>2 DEF Copies, Snap
<1>4. /\ LeasesHeld /\ Snap(target)
      /\ \A r \in Requests : Snap(journal[r])
      /\ \A v \in Workers : Snap(mem[v].verified)
      /\ \A v \in Workers : pc[v] \in Verified => Snap(staging[job[v]])
  BY <1>1, <1>3 DEF Frame, Copies
<1>5. Snap(NoFolder) /\ Snap(source)
  BY DEF Snap, Copies
<1>6. Snap(target')
  BY <1>4, <1>5, TargetSteps DEF Publish, Verified
<1>7. Snap(target)'
  BY <1>2, <1>6 DEF Snap
<1>8. \A r \in Requests : Snap(journal'[r])
  BY <1>4, <1>5, ManifestSteps
<1>9. \A v \in Workers : Snap(mem'[v].verified)
  BY <1>1, <1>4, <1>5, ManifestSteps DEF Frame, Verified
<1>10. ASSUME NEW v \in Workers, pc'[v] \in Verified
       PROVE  Snap(staging'[job'[v]])
  <2>1. CASE v = w
    <3>1. job[w] \in Requests
      BY <1>10, <2>1, VerifiedSteps DEF Types, PhasesFollow, Follows
    <3> QED
      BY <1>4, <1>5, <1>10, <2>1, <3>1, VerifiedSteps
  <2>2. CASE v # w
    <3>1. pc[v] \in Verified /\ job'[v] = job[v] /\ pc[v] # "idle" /\ job[v] \in Requests
      BY <1>1, <1>10, <2>2 DEF Frame, Verified, Types, PhasesFollow, Follows
    <3>2. CASE pc[w] # "idle"
      <4>1. job[v] # job[w]
        BY <1>4, <2>2, <3>1, <3>2, OneOwner
      <4> QED
        BY <1>1, <1>4, <3>1, <4>1 DEF Frame
    <3>3. CASE pc[w] = "idle"
      <4>1. staging' = staging
        BY <3>3 DEF Process, Execute, Take, CheckTerminal, Postpone, Recover, Inspect, RecoverLock,
           RecoverCheck, RecoverRename, Finish, Cleanup, Unlink, Sweep, Release, ReportCheck,
           ReportWrite, Begin, SnapshotSource, CopyProject, CopyFile, CopyFails, Verify, Fingerprint,
           WriteJournal, PublishCheck, Rename, CommitCheck, CommitWrite, WriteFails, Quarantine,
           VerifyQuarantine, Finally, Rmtree, RmtreeFile, RmtreeDone, RmtreeFails, Unlock,
           FinalCheck, FinalWrite, At, folders
      <4> QED
        BY <1>4, <3>1, <4>1
    <3> QED
      BY <3>2, <3>3
  <2> QED
    BY <2>1, <2>2
<1> QED
  BY <1>7, <1>8, <1>9, <1>10

LEMMA EnvironmentCopies ==
    ASSUME Types, Copies, Environment
    PROVE  Copies'
<1>1. /\ journal' = journal /\ staging' = staging /\ (LeasesHeld' => LeasesHeld)
      /\ \A v \in Workers :
            \/ pc'[v] = pc[v] /\ job'[v] = job[v] /\ mem'[v] = mem[v]
            \/ pc'[v] = "idle" /\ mem'[v] = FreshMemory
  BY EnvironmentFrame
<1>2. snapshots \subseteq snapshots' /\ source' \in snapshots'
  <2>1. CASE \E f \in Files : EditSource(f)
    BY <2>1 DEF EditSource
  <2>2. CASE ~\E f \in Files : EditSource(f)
    <3>1. UNCHANGED <<source, snapshots>>
      BY <2>2 DEF Environment, AskCancel, MarkCancel, EditTarget, Displace, Crash, world
    <3> QED
      BY <3>1 DEF Copies
  <2> QED
    BY <2>1, <2>2
<1>3. SUFFICES ASSUME LeasesHeld'
               PROVE  /\ Snap(target)' /\ \A r \in Requests : Snap(journal[r])'
                      /\ \A v \in Workers : Snap(mem[v].verified)'
                      /\ \A v \in Workers : pc'[v] \in Verified => Snap(staging[job[v]])'
  BY <1>2 DEF Copies
<1>4. /\ Snap(target)
      /\ \A r \in Requests : Snap(journal[r])
      /\ \A v \in Workers : Snap(mem[v].verified)
      /\ \A v \in Workers : pc[v] \in Verified => Snap(staging[job[v]])
  BY <1>1, <1>3 DEF Copies
<1>5. Snap(target)'
  <2>1. CASE target' = target
    BY <1>2, <1>4, <2>1 DEF Snap
  <2>2. CASE \E f \in Files : EditTarget(f)
    <3>1. PICK f \in Files : target # NoFolder /\ target' = [target EXCEPT ![f] = Edited]
      BY <2>2 DEF EditTarget
    <3>2. PICK s \in snapshots : \A g \in Files : target[g] \in {s[g], Edited}
      BY <1>4, <3>1 DEF Snap
    <3>3. target \in [Files -> Content]
      BY <3>1 DEF Types, TypeOK, Folder
    <3>4. \A g \in Files : target'[g] \in {s[g], Edited}
      BY <3>1, <3>2, <3>3
    <3> QED
      BY <1>2, <3>4 DEF Snap
  <2> QED
    BY <2>1, <2>2
    DEF Environment, AskCancel, MarkCancel, EditSource, Displace, Crash, folders
<1>6. \A r \in Requests : Snap(journal[r])'
  BY <1>1, <1>2, <1>4 DEF Snap
<1>7. ASSUME NEW v \in Workers PROVE Snap(mem[v].verified)'
  <2>1. mem'[v].verified \in {mem[v].verified, NoFolder}
    BY <1>1 DEF FreshMemory
  <2> QED
    BY <1>2, <1>4, <2>1 DEF Snap
<1>8. ASSUME NEW v \in Workers, pc'[v] \in Verified PROVE Snap(staging[job[v]])'
  <2>1. pc[v] \in Verified /\ staging'[job'[v]] = staging[job[v]]
    BY <1>1, <1>8 DEF Verified
  <2> QED
    BY <1>2, <1>4, <2>1 DEF Snap
<1> QED
  BY <1>5, <1>6, <1>7, <1>8

LEMMA CopiesInvariant == Spec => []Copies
<1>1. Init => Copies
  BY DEF Init, Copies, Snap, Verified, FreshMemory
<1>2. ASSUME Types, Copies, [Next]_vars PROVE Copies'
  <2>1. CASE \E w \in Workers : Process(w) \/ Execute(w)
    BY <1>2, <2>1, WorkerCopies
  <2>2. CASE Environment
    BY <1>2, <2>2, EnvironmentCopies
  <2>3. CASE Terminated \/ UNCHANGED vars
    BY <1>2, <2>3 DEF Terminated, vars, protocol, folders, world, owner, Copies, Snap, LeasesHeld
  <2> QED
    BY <1>2, <2>1, <2>2, <2>3 DEF Next
<1> QED
  BY <1>1, <1>2, TypesInvariant, PTL DEF Spec

\* PublishedIsASnapshot, for any instance: while no live worker lost its lease, a
\* visible project is the source at one instant, but for the edits of users. (Once
\* a lease is lost this is false: the run DuplicationDisplaced refutes it.)
THEOREM PublishedCopiesAreSnapshots == Spec => [](LeasesHeld => PublishedIsASnapshot)
<1>1. Copies => (LeasesHeld => PublishedIsASnapshot)
  BY DEF Copies, Snap, PublishedIsASnapshot
<1> QED
  BY <1>1, CopiesInvariant, PTL

-----------------------------------------------------------------------------
(* Outcomes.  What a worker knows of its journal, its staging folder and    *)
(* the target follows the phases; the rest of the properties compare it     *)
(* with the outcome that the worker writes.                                 *)

HasEdit(folder) == folder # NoFolder /\ \E f \in Files : folder[f] = Edited

\* The phases of a first attempt before the project is visible, and of a recovery.
Plain == {"discard", "report", "report_write", "begin", "snapshot", "project", "copy", "verify",
          "fingerprint", "journal", "publish", "rename"}
Recovering == {"inspect", "rec_lock", "rec_check", "rec_rename"}
Published == {"commit", "commit_write", "quarantine"}
Ending == {"finally", "clean", "unlock", "final", "final_write"}

\* The worker is in one of these phases, or reports before it.
Towards(w, phases) ==
    \/ pc[w] \in phases
    \/ pc[w] \in {"report", "report_write"} /\ mem[w].next \in phases

\* Before and after the first attempt has made its staging folder.
Early(w) == Towards(w, {"begin", "snapshot", "project"})
Late(w) ==
    Towards(w, {"copy", "verify"}) \/ pc[w] \in {"fingerprint", "journal", "publish", "rename"}

Kind(w) ==
    /\ pc[w] \in Plain \cup {"quarantine", "verify_quarantine"} => ~mem[w].recovering
    /\ pc[w] \in Recovering => mem[w].recovering
    /\ mem[w].recovering => ~mem[w].created
    /\ Late(w) => mem[w].created
    /\ faults["io"] = 0 => pc[w] \notin {"quarantine", "verify_quarantine"}
    /\ faults["io"] = 0 /\ pc[w] \in Attempt \cup {"finally"} => ~mem[w].preserve

Kinds == \A w \in Workers : Kind(w)

\* The worker must own the target lock.
Holds(w) ==
    \/ Towards(w, {"snapshot", "project", "copy", "verify"})
    \/ pc[w] \in {"fingerprint", "journal", "publish", "rename", "rec_check", "rec_rename",
                  "quarantine", "verify_quarantine"}
    \/ pc[w] \in {"commit", "commit_write"} /\ ~mem[w].recovering

\* Nobody publishes between the fingerprint of a worker and its rename.
TargetFree == LeasesHeld => \A w \in Workers :
    pc[w] \in {"journal", "publish", "rename"} => target = NoFolder

LocksHeld == LeasesHeld => \A w \in Workers : Holds(w) => lockBy = w

\* What a worker knows of the journal and the staging folder of its request.
Knows(w) ==
    LET r == job[w] IN
    /\ pc[w] \in Plain \ {"publish", "rename"} => journal[r] = NoFolder
    /\ pc[w] \in {"publish", "rename", "verify_quarantine"} \cup Recovering \cup Published =>
          journal[r] # NoFolder
    /\ Early(w) => staging[r] = NoFolder
    /\ pc[w] = "journal" => mem[w].verified = staging[r]
    /\ pc[w] \in {"publish", "rename"} => journal[r] = staging[r]
    /\ pc[w] \in {"journal", "publish", "rename"} => staging[r] # NoFolder
    /\ pc[w] \in {"rec_lock", "rec_check", "rec_rename"} => staging[r] = journal[r]
    /\ pc[w] \in Published /\ ~mem[w].recovering => staging[r] = NoFolder
    /\ pc[w] \in Plain \cup {"clean"} => ~HasEdit(staging[r])
    /\ pc[w] = "finally" /\ mem[w].created /\ ~mem[w].preserve => ~HasEdit(staging[r])
    /\ pc[w] = "clean" => mem[w].created
    /\ ~HasEdit(mem[w].verified)
    /\ pc[w] \in Ending /\ mem[w].outcome = "cancelled" => journal[r] = NoFolder

\* What it knows more while no call has failed.
KnowsMore(w) ==
    LET r == job[w] IN
    /\ pc[w] \in {"finally", "clean"} /\ mem[w].created => journal[r] = NoFolder
    /\ pc[w] = "finally" /\ mem[w].outcome \in {"error", "cancelled"} =>
          mem[w].created \/ staging[r] = NoFolder
    /\ pc[w] \in {"unlock", "final", "final_write"}
       /\ mem[w].outcome \in {"error", "cancelled"} => staging[r] = NoFolder

\* An interrupted attempt that wrote no journal published nothing.
Private(r) == status[r] \notin Terminal /\ journal[r] = NoFolder => ~HasEdit(staging[r])

Knowledge == LeasesHeld =>
    /\ \A w \in Workers : Knows(w) /\ (faults["io"] = 0 => KnowsMore(w))
    /\ \A r \in Requests : Private(r)

\* No success of the request can be rolled back by a rival.
Sure(r) == faults["io"] = 0 \/ Requests = {r}

Untouched == faults["io"] = 0 /\ faults["targetEdit"] = 0

\* What a worker knows of the target.
Sees(w) ==
    LET r == job[w] IN
    /\ pc[w] \in Plain \cup {"verify_quarantine", "rec_lock", "rec_check", "rec_rename"} =>
          targetOf # r
    /\ pc[w] \in Ending /\ mem[w].outcome \in {"error", "cancelled"} => targetOf # r
    /\ pc[w] \in Published /\ (~mem[w].recovering \/ Sure(r)) => targetOf = r
    /\ pc[w] \in Ending /\ mem[w].outcome = "recovery_required" /\ Untouched =>
          targetOf \notin {r, NoRequest}

\* Where the copy of a request without an outcome is.
Whereabouts(r) ==
    /\ journal[r] = NoFolder => targetOf # r
    /\ faults["io"] = 0 /\ journal[r] # NoFolder =>
          \/ targetOf # r /\ staging[r] = journal[r]
          \/ targetOf = r /\ staging[r] = NoFolder /\ (Untouched => target = journal[r])

\* The statements of StatusTellsTheTarget and CrashesNeedNobody about one request.
Told(r) ==
    /\ status[r] = "success" /\ Sure(r) => targetOf = r
    /\ status[r] \in {"error", "cancelled"} => targetOf # r
    /\ status[r] = "recovery_required" /\ Untouched => targetOf \notin {r, NoRequest}

Outlook == LeasesHeld =>
    /\ (target # NoFolder) <=> (targetOf \in Requests)
    /\ \A w \in Workers : Sees(w)
    /\ \A r \in Requests : status[r] \notin Terminal => Whereabouts(r)
    /\ \A r \in Requests : Told(r)

Leftovers == LeasesHeld => FailureLeavesNothing

-----------------------------------------------------------------------------

\* Fields of a memory after an exception and after a report.
LEMMA RaiseFields ==
    ASSUME Types, NEW w \in Workers, NEW kind \in Outcomes, Raise(w, kind)
    PROVE  /\ pc'[w] = "finally" /\ mem'[w].outcome = kind
           /\ mem'[w].next = mem[w].next /\ mem'[w].verified = mem[w].verified
           /\ mem'[w].created = mem[w].created /\ mem'[w].preserve = mem[w].preserve
           /\ mem'[w].recovering = mem[w].recovering
<1>1. pc'[w] = "finally" /\ mem'[w] = [mem[w] EXCEPT !.outcome = kind] /\ mem[w] \in Memory
  BY RaiseMemory DEF Types, TypeOK
<1> QED
  BY <1>1 DEF Memory

LEMMA ReportFields ==
    ASSUME Types, NEW w \in Workers, NEW phase \in Phases, NEW m \in Memory,
           ReportThen(w, phase, m)
    PROVE  /\ pc'[w] = "report" /\ mem'[w].next = phase
           /\ mem'[w].outcome = m.outcome /\ mem'[w].verified = m.verified
           /\ mem'[w].created = m.created /\ mem'[w].preserve = m.preserve
           /\ mem'[w].recovering = m.recovering
<1>1. pc'[w] = "report" /\ mem'[w] = [m EXCEPT !.next = phase]
  BY ReportMemory DEF Types, TypeOK
<1> QED
  BY <1>1 DEF Memory

\* The memory of a worker in the steps of the first attempt that report.
LEMMA ReportSteps ==
    ASSUME Types, NEW w \in Workers,
           \/ Begin(w) /\ ~Raise(w, "error")
           \/ SnapshotSource(w) \/ CopyProject(w) \/ CopyFile(w)
           \/ (Recover(w) \/ RmtreeDone(w)) /\ pc'[w] = "report"
    PROVE  /\ pc'[w] = "report" /\ mem'[w].outcome = mem[w].outcome
           /\ mem'[w].verified = mem[w].verified
           /\ mem'[w].preserve = mem[w].preserve /\ mem'[w].recovering = mem[w].recovering
           /\ CopyProject(w) => mem'[w].created
           /\ ~CopyProject(w) => mem'[w].created = mem[w].created
           /\ \/ pc[w] = "begin" /\ mem'[w].next = "snapshot"
              \/ pc[w] = "snapshot" /\ mem'[w].next = "project"
              \/ pc[w] = "project" /\ mem'[w].next = "copy"
              \/ pc[w] = "copy" /\ mem'[w].next \in {"copy", "verify"}
              \/ pc[w] \in {"recover", "discard"} /\ mem'[w].next = "begin"
<1>1. /\ mem[w] \in Memory /\ source \in Folder /\ pc \in [Workers -> Phases]
      /\ mem[w].created \in BOOLEAN
  BY DEF Types, TypeOK, Folder, Content, Memory
<1>2. {"begin", "snapshot", "project", "copy", "verify"} \subseteq Phases
  BY DEF Phases
<1>3. CASE Begin(w) /\ ~Raise(w, "error")
  <2>1. ReportThen(w, "snapshot", mem[w]) /\ pc[w] = "begin" /\ ~CopyProject(w)
    BY <1>3 DEF Begin, At, CopyProject
  <2> QED
    BY <1>1, <1>2, <2>1, ReportFields
<1>4. CASE SnapshotSource(w)
  <2> DEFINE m == [mem[w] EXCEPT !.before = source]
  <2>1. /\ m \in Memory /\ m.created = mem[w].created /\ m.outcome = mem[w].outcome
        /\ m.verified = mem[w].verified /\ m.preserve = mem[w].preserve
        /\ m.recovering = mem[w].recovering
    BY <1>1 DEF Memory
  <2>2. ReportThen(w, "project", m) /\ pc[w] = "snapshot" /\ ~CopyProject(w)
    BY <1>4 DEF SnapshotSource, At, CopyProject
  <2> HIDE DEF m
  <2> QED
    BY <1>1, <1>2, <2>1, <2>2, ReportFields
<1>5. CASE CopyProject(w)
  <2> DEFINE m == [mem[w] EXCEPT !.created = TRUE]
  <2>1. /\ m \in Memory /\ m.created = TRUE /\ m.outcome = mem[w].outcome
        /\ m.verified = mem[w].verified /\ m.preserve = mem[w].preserve
        /\ m.recovering = mem[w].recovering
    BY <1>1 DEF Memory
  <2>2. ReportThen(w, "copy", m) /\ pc[w] = "project"
    BY <1>5 DEF CopyProject, At
  <2> HIDE DEF m
  <2> QED
    BY <1>1, <1>2, <1>5, <2>1, <2>2, ReportFields
<1>6. CASE CopyFile(w)
  <2>1. PICK f \in Files :
          ReportThen(w, IF mem[w].copied \cup {f} = Files THEN "verify" ELSE "copy",
                     [mem[w] EXCEPT !.copied = mem[w].copied \cup {f}])
    BY <1>6 DEF CopyFile
  <2> DEFINE m == [mem[w] EXCEPT !.copied = mem[w].copied \cup {f}]
  <2>2. /\ m \in Memory /\ m.created = mem[w].created /\ m.outcome = mem[w].outcome
        /\ m.verified = mem[w].verified /\ m.preserve = mem[w].preserve
        /\ m.recovering = mem[w].recovering
    BY <1>1 DEF Memory
  <2>3. ReportThen(w, "verify", m) \/ ReportThen(w, "copy", m)
    BY <2>1
  <2>4. pc[w] = "copy" /\ ~CopyProject(w)
    BY <1>6 DEF CopyFile, At, CopyProject
  <2> HIDE DEF m
  <2> QED
    BY <1>1, <1>2, <2>2, <2>3, <2>4, ReportFields
<1>7. CASE (Recover(w) \/ RmtreeDone(w)) /\ pc'[w] = "report"
  <2>1. ReportThen(w, "begin", mem[w])
    BY <1>1, <1>7 DEF Recover, RmtreeDone, Goto
  <2>2. pc[w] \in {"recover", "discard"} /\ ~CopyProject(w)
    BY <1>1, <1>7 DEF Recover, RmtreeDone, At, CopyProject, Goto
  <2> QED
    BY <1>1, <1>2, <2>1, <2>2, ReportFields
<1> QED
  BY <1>3, <1>4, <1>5, <1>6, <1>7

\* The steps of a worker that change nothing in its memory, by their phases.
Quiet(w) ==
    LET from == pc[w] to == pc'[w] IN
    \/ from = "idle" /\ to = "check"
    \/ from = "check" /\ to \in {"recover", "cleanup", "release"}
    \/ from = "recover" /\ to \in {"discard", "release"}
    \/ from = "inspect" /\ to \in {"commit", "rec_lock"}
    \/ from = "rec_lock" /\ to = "rec_check"
    \/ from = "rec_check" /\ to \in {"rec_rename", "commit"}
    \/ from \in {"rename", "rec_rename"} /\ to = "commit"
    \/ from = "report" /\ to = "report_write"
    \/ from = "report_write" /\ to = mem[w].next
    \/ from = "verify" /\ to = "fingerprint"
    \/ from = "journal" /\ to = "publish"
    \/ from = "publish" /\ to = "rename"
    \/ from = "commit" /\ to = "commit_write"
    \/ from = "commit_write" /\ to = "quarantine" /\ ~mem[w].recovering /\ Spend("io")
    \/ from = "quarantine" /\ to = "verify_quarantine"
    \/ from = to /\ from \in {"discard", "clean"}
    \/ from = "finally" /\ to = "clean" /\ mem[w].created /\ ~mem[w].preserve
    \/ from = "finally" /\ to = "unlock" /\ (~mem[w].created \/ mem[w].preserve)
    \/ from = "clean" /\ to = "unlock"
    \/ from = "unlock" /\ to \in {"finish", "release", "final"}
    \/ from = "final" /\ to \in {"finish", "final_write"}
    \/ from = "final_write" /\ to = "finish"
    \/ from = "finish" /\ to \in {"cleanup", "release"}
    \/ from = "cleanup" /\ to = "release"
    \/ from = "unlink" /\ to \in {"sweep", "release"}
    \/ from = "sweep" /\ to = "release"

\* An exception leaves an attempt.
Raised(w) ==
    /\ pc[w] \in Attempt \ {"check", "recover"} /\ pc'[w] = "finally"
    /\ mem'[w].outcome # "none"
    /\ mem'[w].verified = mem[w].verified /\ mem'[w].preserve = mem[w].preserve
    /\ mem'[w].recovering = mem[w].recovering
    /\ \/ mem'[w].created = mem[w].created
       \/ mem'[w].created /\ CopyFails(w) /\ pc[w] \in {"project", "copy"}

\* The next report of the first attempt.
Reported(w) ==
    /\ pc'[w] = "report" /\ mem'[w].outcome = mem[w].outcome
    /\ mem'[w].verified = mem[w].verified
    /\ mem'[w].preserve = mem[w].preserve /\ mem'[w].recovering = mem[w].recovering
    /\ pc[w] = "project" => mem'[w].created
    /\ pc[w] # "project" => mem'[w].created = mem[w].created
    /\ \/ pc[w] = "begin" /\ mem'[w].next = "snapshot"
       \/ pc[w] = "snapshot" /\ mem'[w].next = "project"
       \/ pc[w] = "project" /\ mem'[w].next = "copy"
       \/ pc[w] = "copy" /\ mem'[w].next \in {"copy", "verify"}
       \/ pc[w] \in {"recover", "discard"} /\ mem'[w].next = "begin"

\* The steps that set one thing of their own in the memory.
Particular(w) ==
    \/ /\ pc[w] = "recover" /\ pc'[w] = "inspect"
       /\ mem'[w] = [mem[w] EXCEPT !.recovering = TRUE]
    \/ /\ pc[w] = "fingerprint" /\ pc'[w] = "journal"
       /\ mem'[w] = [mem[w] EXCEPT !.verified = staging[job[w]]]
    \/ /\ pc[w] = "commit_write" /\ pc'[w] = "finally"
       /\ mem'[w] = [mem[w] EXCEPT !.created = FALSE]
    \/ /\ pc[w] = "verify_quarantine" /\ pc'[w] = "finally"
       /\ mem'[w] = [mem[w] EXCEPT !.preserve = TRUE, !.outcome = "recovery_required"]
    \/ /\ pc[w] = "cleanup" /\ pc'[w] = "unlink"
       /\ mem'[w] = [mem[w] EXCEPT !.preserve = status[job[w]] = "recovery_required"]
    \/ pc[w] = "release" /\ pc'[w] = "idle" /\ mem'[w] = FreshMemory

\* Every step of a worker has one of these shapes.
LEMMA Shapes ==
    ASSUME Types, NEW w \in Workers, Process(w) \/ Execute(w)
    PROVE  \/ Quiet(w) /\ mem'[w] = mem[w]
           \/ Raised(w) \/ Reported(w) \/ Particular(w)
<1>1. /\ pc \in [Workers -> Phases] /\ mem \in [Workers -> Memory] /\ mem[w] \in Memory
  BY DEF Types, TypeOK
<1>2. \A kind \in Outcomes : Raise(w, kind) =>
         /\ pc'[w] = "finally" /\ mem'[w].outcome = kind
         /\ mem'[w].next = mem[w].next /\ mem'[w].verified = mem[w].verified
         /\ mem'[w].created = mem[w].created /\ mem'[w].preserve = mem[w].preserve
         /\ mem'[w].recovering = mem[w].recovering
  BY RaiseFields
<1>3. {"cancelled", "error", "recovery_required", "retry", "lease_lost"} \subseteq Outcomes \ {"none"}
  BY DEF Outcomes
<1>4. \A kind \in Outcomes \ {"none"} :
         Raise(w, kind) /\ pc[w] \in Attempt \ {"check", "recover"} => Raised(w)
  BY <1>2 DEF Raised
<1>5. CASE \E r \in Requests : Take(w, r)
  BY <1>1, <1>5 DEF Take, At, Goto, Quiet
<1>6. CASE CheckTerminal(w) \/ Postpone(w) \/ Finish(w) \/ Unlink(w) \/ Sweep(w)
  <2>1. mem' = mem
    BY <1>6 DEF CheckTerminal, Postpone, Finish, Unlink, Sweep
  <2> QED
    BY <1>1, <1>6, <2>1 DEF CheckTerminal, Postpone, Finish, Unlink, Sweep, At, Goto, Quiet
<1>7. CASE Recover(w)
  <2>1. CASE pc'[w] = "report"
    <3>1. pc[w] = "recover" /\ ~CopyProject(w)
      BY <1>7 DEF Recover, CopyProject, At
    <3> QED
      BY <1>7, <2>1, <3>1, ReportSteps DEF Reported
  <2>2. CASE pc'[w] # "report"
    <3>1. ~ReportThen(w, "begin", mem[w])
      BY <1>1, <2>2 DEF ReportThen, Goto
    <3>2. CASE mem' = mem
      BY <1>1, <1>7, <3>1, <3>2 DEF Recover, At, Goto, Quiet, Particular
    <3>3. CASE mem' = [mem EXCEPT ![w].recovering = TRUE] /\ Goto(w, "inspect")
      BY <1>1, <1>7, <3>3 DEF Recover, At, Goto, Particular
    <3> QED
      BY <1>7, <3>1, <3>2, <3>3 DEF Recover
  <2> QED
    BY <2>1, <2>2
<1>8. CASE Inspect(w) \/ RecoverLock(w) \/ RecoverCheck(w) \/ RecoverRename(w)
  <2>1. pc[w] \in Attempt \ {"check", "recover"}
    BY <1>8 DEF Inspect, RecoverLock, RecoverCheck, RecoverRename, At, Attempt
  <2>2. CASE mem' = mem /\ ~\E kind \in Outcomes \ {"none"} : Raise(w, kind)
    BY <1>1, <1>3, <1>8, <2>2
    DEF Inspect, RecoverLock, RecoverCheck, RecoverRename, At, Goto, Quiet
  <2> QED
    BY <1>3, <1>4, <1>8, <2>1, <2>2 DEF Inspect, RecoverLock, RecoverCheck, RecoverRename
<1>9. CASE Cleanup(w)
  <2>1. CASE Goto(w, "release") /\ UNCHANGED mem
    BY <1>1, <1>9, <2>1 DEF Cleanup, At, Goto, Quiet
  <2>2. CASE ~(Goto(w, "release") /\ UNCHANGED mem)
    BY <1>1, <1>9, <2>2 DEF Cleanup, At, Goto, Particular
  <2> QED
    BY <2>1, <2>2
<1>10. CASE Release(w)
  BY <1>1, <1>10 DEF Release, At, Goto, Particular
<1>11. CASE ReportCheck(w) \/ Verify(w) \/ PublishCheck(w) \/ Rename(w) \/ CommitCheck(w)
            \/ Quarantine(w) \/ WriteJournal(w)
  <2>1. pc[w] \in Attempt \ {"check", "recover"}
    BY <1>11 DEF ReportCheck, Verify, PublishCheck, Rename, CommitCheck, Quarantine, WriteJournal,
                 At, Attempt
  <2>2. CASE mem' = mem /\ ~\E kind \in Outcomes \ {"none"} : Raise(w, kind)
    BY <1>1, <1>3, <1>11, <2>2
    DEF ReportCheck, Verify, PublishCheck, Rename, CommitCheck, Quarantine, WriteJournal, At, Goto,
        Quiet
  <2> QED
    BY <1>3, <1>4, <1>11, <2>1, <2>2
    DEF ReportCheck, Verify, PublishCheck, Rename, CommitCheck, Quarantine, WriteJournal
<1>12. CASE ReportWrite(w)
  BY <1>1, <1>12 DEF ReportWrite, At, Goto, Quiet, Types, PhasesFollow, Follows
<1>13. CASE Begin(w)
  <2>1. pc[w] = "begin" /\ ~CopyProject(w)
    BY <1>13 DEF Begin, At, CopyProject
  <2>2. CASE Raise(w, "error")
    BY <1>3, <1>4, <2>1, <2>2 DEF Attempt
  <2>3. CASE ~Raise(w, "error")
    BY <1>13, <2>1, <2>3, ReportSteps DEF Reported
  <2> QED
    BY <2>2, <2>3
<1>14. CASE SnapshotSource(w) \/ CopyProject(w) \/ CopyFile(w)
  <2>1. pc[w] = "project" <=> CopyProject(w)
    BY <1>14 DEF SnapshotSource, CopyProject, CopyFile, At
  <2> QED
    BY <1>14, <2>1, ReportSteps DEF Reported
<1>15. CASE CopyFails(w)
  <2>1. mem'[w] = [mem[w] EXCEPT !.created = TRUE, !.outcome = "error"]
    BY <1>1, <1>15 DEF CopyFails
  <2>2. /\ mem'[w].outcome = "error" /\ mem'[w].verified = mem[w].verified
        /\ mem'[w].preserve = mem[w].preserve /\ mem'[w].recovering = mem[w].recovering
        /\ mem'[w].created
    BY <1>1, <2>1 DEF Memory
  <2> QED
    BY <1>1, <1>15, <2>2 DEF CopyFails, Goto, Raised, Attempt
<1>16. CASE Fingerprint(w)
  <2>1. pc[w] = "fingerprint"
    BY <1>16 DEF Fingerprint, At
  <2>2. CASE \E kind \in Outcomes \ {"none"} : Raise(w, kind)
    BY <1>4, <2>1, <2>2 DEF Attempt
  <2>3. CASE ~\E kind \in Outcomes \ {"none"} : Raise(w, kind)
    <3>1. mem' = [mem EXCEPT ![w].verified = staging[job[w]]] /\ Goto(w, "journal")
      BY <1>3, <1>16, <2>3 DEF Fingerprint
    <3> QED
      BY <1>1, <2>1, <3>1 DEF Goto, Particular
  <2> QED
    BY <2>2, <2>3
<1>17. CASE CommitWrite(w)
  BY <1>1, <1>17 DEF CommitWrite, At, Goto, Particular
<1>18. CASE WriteFails(w)
  <2>1. pc[w] \in Attempt \ {"check", "recover"} \/ pc[w] = "final_write"
    BY <1>18 DEF WriteFails, At, Attempt
  <2>2. CASE mem' = mem /\ ~\E kind \in Outcomes \ {"none"} : Raise(w, kind)
    BY <1>1, <1>3, <1>18, <2>2 DEF WriteFails, At, Goto, Quiet
  <2>3. CASE (\E kind \in Outcomes \ {"none"} : Raise(w, kind)) /\ pc[w] # "final_write"
    BY <1>4, <2>1, <2>3
  <2>4. CASE pc[w] = "final_write"
    BY <1>1, <1>18, <2>4 DEF WriteFails, At, Goto, Quiet
  <2> QED
    BY <1>3, <1>18, <2>2, <2>3, <2>4 DEF WriteFails
<1>19. CASE VerifyQuarantine(w)
  <2>1. pc[w] = "verify_quarantine"
    BY <1>19 DEF VerifyQuarantine, At
  <2>2. CASE \E kind \in Outcomes \ {"none"} : Raise(w, kind)
    BY <1>4, <2>1, <2>2 DEF Attempt
  <2>3. CASE ~\E kind \in Outcomes \ {"none"} : Raise(w, kind)
    <3>1. /\ mem' = [mem EXCEPT ![w] = [@ EXCEPT !.preserve = TRUE,
                                                 !.outcome = "recovery_required"]]
          /\ Goto(w, "finally")
      BY <1>3, <1>19, <2>3 DEF VerifyQuarantine
    <3> QED
      BY <1>1, <2>1, <3>1 DEF Goto, Particular
  <2> QED
    BY <2>2, <2>3
<1>20. CASE Finally(w)
  BY <1>1, <1>20 DEF Finally, At, Goto, Quiet
<1>21. CASE RmtreeFile(w)
  BY <1>21 DEF RmtreeFile, Quiet
<1>22. CASE RmtreeDone(w)
  <2>1. CASE pc[w] = "discard"
    <3>1. pc'[w] = "report" /\ ~CopyProject(w)
      BY <1>1, <1>22, <2>1 DEF RmtreeDone, At, ReportThen, Goto, CopyProject
    <3> QED
      BY <1>22, <2>1, <3>1, ReportSteps DEF Reported
  <2>2. CASE pc[w] # "discard"
    BY <1>1, <1>22, <2>2 DEF RmtreeDone, At, Goto, Quiet
  <2> QED
    BY <2>1, <2>2
<1>23. CASE RmtreeFails(w)
  <2>1. CASE pc[w] = "discard"
    BY <1>3, <1>4, <1>23, <2>1 DEF RmtreeFails, At, Attempt
  <2>2. CASE pc[w] # "discard"
    BY <1>1, <1>23, <2>2 DEF RmtreeFails, At, Goto, Quiet
  <2> QED
    BY <2>1, <2>2
<1>24. CASE Unlock(w)
  BY <1>1, <1>24 DEF Unlock, At, Goto, Quiet
<1>25. CASE FinalCheck(w) \/ FinalWrite(w)
  BY <1>1, <1>25 DEF FinalCheck, FinalWrite, At, Goto, Quiet
<1> QED
  BY <1>5, <1>6, <1>7, <1>8, <1>9, <1>10, <1>11, <1>12, <1>13, <1>14, <1>15, <1>16, <1>17, <1>18,
     <1>19, <1>20, <1>21, <1>22, <1>23, <1>24, <1>25
  DEF Process, Execute, Rmtree

\* Kinds over a step of a worker, and over any behaviour.
LEMMA WorkerKinds ==
    ASSUME Types, Kinds, NEW w \in Workers, Process(w) \/ Execute(w)
    PROVE  Kinds'
<1>1. Types' /\ Frame(w)
  BY ProcessTypes, ExecuteTypes
<1>2. /\ mem[w] \in Memory /\ Kind(w) /\ Follows(w) /\ (faults'["io"] = 0 => faults["io"] = 0)
  BY <1>1 DEF Types, TypeOK, Kinds, PhasesFollow, Frame
<1>3. SUFFICES Kind(w)'
  BY <1>1 DEF Frame, Kinds, Kind, Late, Towards
<1>4. mem[w] = FreshMemory =>
         /\ ~mem[w].recovering /\ ~mem[w].created /\ ~mem[w].preserve /\ mem[w].next = "idle"
  BY DEF FreshMemory
<1>5. /\ mem[w].recovering \in BOOLEAN /\ mem[w].created \in BOOLEAN /\ mem[w].preserve \in BOOLEAN
  BY <1>2 DEF Memory
<1>6. CASE Quiet(w) /\ mem'[w] = mem[w]
  <2>1. /\ mem'[w].recovering = mem[w].recovering /\ mem'[w].created = mem[w].created
        /\ mem'[w].preserve = mem[w].preserve /\ mem'[w].next = mem[w].next
    BY <1>6
  <2>2. /\ pc[w] \in {"idle", "check", "recover"} =>
              ~mem[w].recovering /\ ~mem[w].created /\ ~mem[w].preserve
        /\ pc[w] \in {"report", "report_write"} =>
              mem[w].next \in {"begin", "snapshot", "project", "copy", "verify"}
    BY <1>2, <1>4 DEF Follows
  <2>3. Spend("io") => faults'["io"] # 0
    BY SpendCounts DEF Types, FaultKinds
  <2>4. /\ pc'[w] \in Plain \cup {"quarantine", "verify_quarantine"} => ~mem'[w].recovering
        /\ pc'[w] \in Recovering => mem'[w].recovering
    BY <1>2, <1>6, <2>1, <2>2 DEF Quiet, Kind, Plain, Recovering
  <2>5. /\ mem'[w].recovering => ~mem'[w].created
        /\ Late(w)' => mem'[w].created
    BY <1>2, <1>6, <2>1, <2>2 DEF Quiet, Kind, Late, Towards
  <2>6. faults'["io"] = 0 => pc'[w] \notin {"quarantine", "verify_quarantine"}
    BY <1>2, <1>6, <2>1, <2>2, <2>3 DEF Quiet, Kind
  <2>7. faults'["io"] = 0 /\ pc'[w] \in Attempt \cup {"finally"} => ~mem'[w].preserve
    BY <1>2, <1>6, <2>1, <2>2 DEF Quiet, Kind, Attempt
  <2> QED
    BY <2>4, <2>5, <2>6, <2>7 DEF Kind
<1>7. CASE Raised(w)
  <2>1. CopyFails(w) => ~mem[w].recovering
    BY <1>2 DEF CopyFails, Kind, Plain
  <2> QED
    BY <1>2, <1>7, <2>1
    DEF Raised, Kind, Late, Towards, Plain, Recovering, Attempt
<1>8. CASE Reported(w)
  BY <1>2, <1>4, <1>8 DEF Reported, Kind, Late, Towards, Plain, Recovering, Attempt, Follows
<1>9. CASE Particular(w)
  <2>1. CASE pc'[w] = "inspect" /\ pc[w] = "recover"
    <3>1. mem'[w].recovering /\ ~mem'[w].created /\ ~mem'[w].preserve
      BY <1>2, <1>4, <1>9, <2>1 DEF Particular, Follows, Memory
    <3> QED
      BY <2>1, <3>1 DEF Kind, Late, Towards, Plain, Recovering
  <2>2. CASE pc'[w] = "journal"
    <3>1. /\ pc[w] = "fingerprint" /\ mem'[w].recovering = mem[w].recovering
          /\ mem'[w].created = mem[w].created /\ mem'[w].preserve = mem[w].preserve
      BY <1>2, <1>9, <2>2 DEF Particular, Memory
    <3> QED
      BY <1>2, <2>2, <3>1 DEF Kind, Late, Towards, Plain, Recovering, Attempt
  <2>3. CASE pc[w] = "commit_write"
    <3>1. /\ pc'[w] = "finally" /\ ~mem'[w].created /\ mem'[w].preserve = mem[w].preserve
      BY <1>2, <1>9, <2>3 DEF Particular, Memory
    <3> QED
      BY <1>2, <2>3, <3>1 DEF Kind, Late, Towards, Plain, Recovering, Attempt
  <2>4. CASE pc[w] = "verify_quarantine"
    <3>1. /\ pc'[w] = "finally" /\ mem'[w].recovering = mem[w].recovering
      BY <1>2, <1>9, <2>4 DEF Particular, Memory
    <3> QED
      BY <1>2, <2>4, <3>1 DEF Kind, Late, Towards, Plain, Recovering
  <2>5. CASE pc[w] = "cleanup"
    <3>1. /\ pc'[w] = "unlink" /\ mem'[w].recovering = mem[w].recovering
          /\ mem'[w].created = mem[w].created
      BY <1>2, <1>9, <2>5 DEF Particular, Memory
    <3> QED
      BY <1>2, <3>1 DEF Kind, Late, Towards, Plain, Recovering, Attempt
  <2>6. CASE pc'[w] = "idle" /\ mem'[w] = FreshMemory
    BY <2>6 DEF FreshMemory, Kind, Late, Towards, Plain, Recovering, Attempt
  <2> QED
    BY <1>9, <2>1, <2>2, <2>3, <2>4, <2>5, <2>6 DEF Particular
<1> QED
  BY <1>6, <1>7, <1>8, <1>9, Shapes

LEMMA KindsInvariant == Spec => []Kinds
<1>1. Init => Kinds
  BY DEF Init, Kinds, Kind, Late, Towards, Plain, Recovering, Attempt, FreshMemory
<1>2. ASSUME Types, Kinds, [Next]_vars PROVE Kinds'
  <2>1. CASE \E w \in Workers : Process(w) \/ Execute(w)
    BY <1>2, <2>1, WorkerKinds
  <2>2. CASE Environment
    <3>1. /\ faults'["io"] = 0 => faults["io"] = 0
          /\ \A v \in Workers :
                \/ pc'[v] = pc[v] /\ mem'[v] = mem[v]
                \/ pc'[v] = "idle" /\ mem'[v] = FreshMemory
      BY <1>2, <2>2, EnvironmentFrame
    <3> SUFFICES ASSUME NEW v \in Workers PROVE Kind(v)'
      BY DEF Kinds
    <3>2. CASE pc'[v] = pc[v] /\ mem'[v] = mem[v]
      BY <1>2, <3>1, <3>2 DEF Kinds, Kind, Late, Towards
    <3>3. CASE pc'[v] = "idle" /\ mem'[v] = FreshMemory
      BY <3>3 DEF Kind, Late, Towards, Plain, Recovering, Attempt, FreshMemory
    <3> QED
      BY <3>1, <3>2, <3>3
  <2>3. CASE Terminated \/ UNCHANGED vars
    BY <1>2, <2>3 DEF Terminated, vars, world, Kinds, Kind, Late, Towards
  <2> QED
    BY <1>2, <2>1, <2>2, <2>3 DEF Next
<1> QED
  BY <1>1, <1>2, TypesInvariant, PTL DEF Spec

\* LocksHeld over a step of a worker, and over any behaviour.
LEMMA WorkerLocksHeld ==
    ASSUME Types, Locks, Kinds, LocksHeld, NEW w \in Workers, Process(w) \/ Execute(w)
    PROVE  LocksHeld'
<1>1. Types' /\ Frame(w) /\ NoWorker \notin Workers /\ NoRequest \notin Requests
  BY ProcessTypes, ExecuteTypes, NamesAssumption
<1>2. SUFFICES ASSUME LeasesHeld', NEW v \in Workers, Holds(v)' PROVE lockBy' = v
  BY DEF LocksHeld
<1>3. LeasesHeld /\ \A u \in Workers : Holds(u) => lockBy = u
  BY <1>1, <1>2 DEF Frame, LocksHeld
<1>4. /\ mem[w] \in Memory /\ pc \in [Workers -> Phases] /\ Kind(w) /\ Follows(w)
  BY DEF Types, TypeOK, Kinds, PhasesFollow
<1>5. \/ TakeLock(w) /\ pc[w] \in {"begin", "rec_lock"} /\ pc'[w] \in LockPhases
      \/ LetsGo(w) \/ Discards(w) \/ UNCHANGED lock
  BY LockSteps
<1>6. CASE v = w
  <2>1. CASE Begin(w) \/ RecoverLock(w)
    <3>1. CASE TakeLock(w)
      BY <1>6, <3>1 DEF TakeLock
    <3>2. CASE ~TakeLock(w)
      <4>1. pc'[w] = "finally"
        BY <1>4, <2>1, <3>2 DEF Begin, RecoverLock, Raise, Goto
      <4> QED
        BY <1>2, <1>6, <4>1 DEF Holds, Towards
    <3> QED
      BY <3>1, <3>2
  <2>2. CASE ~(Begin(w) \/ RecoverLock(w))
    <3>1. pc[w] \notin {"begin", "rec_lock"}
      BY <2>2 DEF Process, Execute, Take, CheckTerminal, Postpone, Recover, Inspect, RecoverCheck,
         RecoverRename, Finish, Cleanup, Unlink, Sweep, Release, ReportCheck, ReportWrite,
         SnapshotSource, CopyProject, CopyFile, CopyFails, Verify, Fingerprint, WriteJournal,
         PublishCheck, Rename, CommitCheck, CommitWrite, WriteFails, Quarantine, VerifyQuarantine,
         Finally, Rmtree, RmtreeFile, RmtreeDone, RmtreeFails, Unlock, FinalCheck, FinalWrite, At
    <3>2. Holds(w) /\ pc[w] \notin {"begin", "rec_lock", "check", "recover", "unlock"}
      <4>1. CASE Quiet(w) /\ mem'[w] = mem[w]
        BY <1>2, <1>4, <1>6, <3>1, <4>1 DEF Quiet, Holds, Towards, Kind, Plain, Recovering, Follows
      <4>2. CASE Raised(w)
        BY <1>2, <1>6, <4>2 DEF Raised, Holds, Towards
      <4>3. CASE Reported(w)
        BY <1>2, <1>6, <3>1, <4>3 DEF Reported, Holds, Towards
      <4>4. CASE Particular(w)
        BY <1>2, <1>6, <4>4 DEF Particular, Holds, Towards
      <4> QED
        BY <4>1, <4>2, <4>3, <4>4, Shapes
    <3>3. UNCHANGED lock
      BY <1>5, <3>2 DEF LetsGo, Discards
    <3> QED
      BY <1>3, <1>6, <3>2, <3>3 DEF lock
  <2> QED
    BY <2>1, <2>2
<1>7. CASE v # w
  <2>1. Holds(v) /\ pc[v] # "idle" /\ pc[v] \notin {"idle", "check"}
    BY <1>1, <1>2, <1>7 DEF Frame, Holds, Towards
  <2>2. lockBy = v /\ lockReq = job[v] /\ job[v] \in Requests
    BY <1>3, <2>1 DEF Locks, LockOwners, Types, PhasesFollow, Follows
  <2>3. pc[w] # "idle" => job[w] # job[v]
    BY <1>3, <1>7, <2>1, OneOwner
  <2>4. ~(TakeLock(w) /\ pc[w] \in {"begin", "rec_lock"})
    <3> SUFFICES ASSUME TakeLock(w), pc[w] \in {"begin", "rec_lock"} PROVE FALSE
      OBVIOUS
    <3>1. lockBy' = w /\ lockBy # w
      BY <1>7, <2>2 DEF TakeLock
    <3>2. Begin(w) \/ RecoverLock(w)
      <4>1. ~UNCHANGED lock
        BY <3>1 DEF lock
      <4> QED
        BY <4>1 DEF Process, Execute, Take, CheckTerminal, Postpone, Recover, Inspect, RecoverCheck,
         RecoverRename, Finish, Cleanup, Unlink, Sweep, Release, ReportCheck, ReportWrite,
         SnapshotSource, CopyProject, CopyFile, CopyFails, Verify, Fingerprint, WriteJournal,
         PublishCheck, Rename, CommitCheck, CommitWrite, WriteFails, Quarantine, VerifyQuarantine,
         Finally, Rmtree, RmtreeFile, RmtreeDone, RmtreeFails, Unlock, FinalCheck, FinalWrite, At
    <3>3. ~UNCHANGED lock
      BY <3>1 DEF lock
    <3>4. LockAvailable \/ lockReq = job[w]
      BY <3>2, <3>3 DEF Begin, RecoverLock, DiscardLockOf, lock
    <3> QED
      BY <1>1, <2>2, <2>3, <3>4 DEF LockAvailable
  <2>5. UNCHANGED lock \/ LeaveLock(w)
    BY <1>5, <1>7, <2>2, <2>3, <2>4 DEF LetsGo, Discards, DiscardLockOf
  <2> QED
    BY <1>7, <2>2, <2>5 DEF LeaveLock, lock
<1> QED
  BY <1>6, <1>7

LEMMA LocksHeldInvariant == Spec => []LocksHeld
<1>1. Init => LocksHeld
  BY DEF Init, LocksHeld, Holds, Towards
<1>2. ASSUME Types, Locks, Kinds, LocksHeld, [Next]_vars PROVE LocksHeld'
  <2>1. CASE \E w \in Workers : Process(w) \/ Execute(w)
    BY <1>2, <2>1, WorkerLocksHeld
  <2>2. CASE Environment
    <3>1. /\ LeasesHeld' => LeasesHeld
          /\ \A v \in Workers :
                \/ pc'[v] = pc[v] /\ mem'[v] = mem[v]
                \/ pc'[v] = "idle" /\ mem'[v] = FreshMemory
          /\ \/ UNCHANGED lockBy
             \/ lockBy' = NoWorker /\ lockBy \in Workers /\ pc'[lockBy] = "idle"
      BY <1>2, <2>2, EnvironmentFrame
    <3> SUFFICES ASSUME LeasesHeld', NEW v \in Workers, Holds(v)' PROVE lockBy' = v
      BY DEF LocksHeld
    <3>2. pc'[v] # "idle"
      BY DEF Holds, Towards
    <3>3. Holds(v)
      BY <3>1, <3>2 DEF Holds, Towards
    <3> QED
      BY <1>2, <3>1, <3>2, <3>3 DEF LocksHeld
  <2>3. CASE Terminated \/ UNCHANGED vars
    BY <1>2, <2>3 DEF Terminated, vars, lock, world, LocksHeld, Holds, Towards, LeasesHeld
  <2> QED
    BY <1>2, <2>1, <2>2, <2>3 DEF Next
<1> QED
  BY <1>1, <1>2, TypesInvariant, LocksInvariant, KindsInvariant, PTL DEF Spec

-----------------------------------------------------------------------------
(* What a step does to the files of its request, and what lets it happen    *)

\* Removing and copying files adds no user's edit.
LEMMA OwnFiles ==
    ASSUME Types, NEW w \in Workers, Process(w) \/ Execute(w), pc[w] # "idle"
    PROVE  /\ \/ journal'[job[w]] = journal[job[w]]
              \/ /\ pc[w] = "journal" /\ pc'[w] = "publish"
                 /\ journal'[job[w]] = mem[w].verified
              \/ pc[w] = "sweep" /\ pc'[w] = "release" /\ journal'[job[w]] = NoFolder
           /\ \/ staging'[job[w]] = staging[job[w]]
              \/ /\ pc[w] \in {"discard", "clean"} /\ pc'[w] = pc[w]
                 /\ staging[job[w]] # NoFolder
                 /\ ~HasEdit(staging[job[w]]) => ~HasEdit(staging'[job[w]])
              \/ /\ \/ pc[w] = "discard" /\ pc'[w] = "report"
                    \/ pc[w] = "clean" /\ pc'[w] = "unlock"
                 /\ staging'[job[w]] = NoFolder
              \/ /\ pc[w] \in {"project", "copy"} /\ pc'[w] = "report"
                 /\ staging'[job[w]] # NoFolder
                 /\ ~HasEdit(staging[job[w]]) => ~HasEdit(staging'[job[w]])
              \/ /\ pc[w] \in {"rename", "rec_rename"} /\ pc'[w] = "commit"
                 /\ staging'[job[w]] = NoFolder /\ Publish(w)
              \/ /\ pc[w] = "verify_quarantine" /\ pc'[w] = "finally"
                 /\ staging'[job[w]] = NoFolder /\ Publish(w)
              \/ /\ pc[w] = "quarantine" /\ pc'[w] = "verify_quarantine"
                 /\ staging[job[w]] = NoFolder /\ staging'[job[w]] = target
<1>1. /\ pc \in [Workers -> Phases] /\ staging \in [Requests -> Folder]
      /\ journal \in [Requests -> Folder] /\ source \in [Files -> Nat]
      /\ job[w] \in Requests /\ staging[job[w]] \in Folder
  BY DEF Types, TypeOK, PhasesFollow, Follows
<1>2. /\ Edited # Missing /\ Edited \notin Nat
      /\ \A folder \in [Files -> Content] : folder # NoFolder
  BY NamesAssumption DEF Content
<1> DEFINE Journal == \/ journal'[job[w]] = journal[job[w]]
                      \/ /\ pc[w] = "journal" /\ pc'[w] = "publish"
                         /\ journal'[job[w]] = mem[w].verified
                      \/ /\ pc[w] = "sweep" /\ pc'[w] = "release"
                         /\ journal'[job[w]] = NoFolder
<1>3. Journal
  <2>1. CASE WriteJournal(w) \/ Sweep(w)
    BY <1>1, <2>1 DEF WriteJournal, Sweep, At, Goto
  <2>2. CASE ~(WriteJournal(w) \/ Sweep(w))
    <3>1. journal' = journal
      BY <2>2 DEF Process, Execute, Take, CheckTerminal, Postpone, Recover, Inspect, RecoverLock,
       RecoverCheck, RecoverRename, Finish, Cleanup, Unlink, Release, ReportCheck, ReportWrite,
       Begin, SnapshotSource, CopyProject, CopyFile, CopyFails, Verify, Fingerprint, PublishCheck,
       Rename, CommitCheck, CommitWrite, WriteFails, Quarantine, VerifyQuarantine, Finally, Rmtree,
       RmtreeFile, RmtreeDone, RmtreeFails, Unlock, FinalCheck, FinalWrite, protocol
    <3> QED
      BY <3>1
  <2> QED
    BY <2>1, <2>2
<1> HIDE DEF Journal
<1>4. CASE RmtreeFile(w)
  <2>1. PICK f \in Files : staging' = [staging EXCEPT ![job[w]][f] = Missing]
    BY <1>4 DEF RmtreeFile
  <2>2. /\ pc[w] \in {"discard", "clean"} /\ pc' = pc /\ staging[job[w]] # NoFolder
    BY <1>4 DEF RmtreeFile
  <2>3. staging[job[w]] \in [Files -> Content]
    BY <1>1, <2>2 DEF Folder
  <2>4. staging'[job[w]] = [staging[job[w]] EXCEPT ![f] = Missing]
    BY <1>1, <2>1
  <2>5. ~HasEdit(staging[job[w]]) => ~HasEdit(staging'[job[w]])
    BY <1>2, <2>2, <2>3, <2>4 DEF HasEdit
  <2> QED
    BY <1>3, <2>2, <2>5 DEF Journal
<1>5. CASE RmtreeDone(w)
  <2>1. /\ staging'[job[w]] = NoFolder
        /\ \/ pc[w] = "discard" /\ pc'[w] = "report"
           \/ pc[w] = "clean" /\ pc'[w] = "unlock"
    BY <1>1, <1>5 DEF RmtreeDone, ReportThen, At, Goto
  <2> QED
    BY <1>3, <2>1 DEF Journal
<1>6. CASE CopyProject(w)
  <2>1. /\ staging'[job[w]] = EmptyFolder /\ pc[w] = "project" /\ pc'[w] = "report"
    BY <1>1, <1>6 DEF CopyProject, ReportThen, At, Goto
  <2>2. EmptyFolder # NoFolder /\ ~HasEdit(EmptyFolder)
    BY <1>2 DEF EmptyFolder, HasEdit, Content
  <2> QED
    BY <1>3, <2>1, <2>2 DEF Journal
<1>7. CASE CopyFile(w)
  <2>1. pc[w] = "copy" /\ pc'[w] = "report"
    BY <1>1, <1>7 DEF CopyFile, ReportThen, At, Goto
  <2>2. PICK f \in Files :
          LET r == job[w]
              folder == IF staging[r] = NoFolder THEN EmptyFolder ELSE staging[r]
          IN staging' = [staging EXCEPT ![r] = [folder EXCEPT ![f] = source[f]]]
    BY <1>7 DEF CopyFile
  <2> DEFINE base == IF staging[job[w]] = NoFolder THEN EmptyFolder ELSE staging[job[w]]
  <2>3. base \in [Files -> Content]
    BY <1>1 DEF EmptyFolder, Content, Folder
  <2>4. ~HasEdit(staging[job[w]]) => \A g \in Files : base[g] # Edited
    BY <1>2 DEF EmptyFolder, HasEdit
  <2>5. staging'[job[w]] = [base EXCEPT ![f] = source[f]]
    BY <1>1, <2>2
  <2>6. source[f] \in Content /\ source[f] # Edited
    BY <1>1, <1>2 DEF Content
  <2> HIDE DEF base
  <2>7. staging'[job[w]] \in [Files -> Content]
    BY <2>3, <2>5, <2>6
  <2>8. ~HasEdit(staging[job[w]]) => ~HasEdit(staging'[job[w]])
    BY <2>3, <2>4, <2>5, <2>6 DEF HasEdit
  <2> QED
    BY <1>2, <1>3, <2>1, <2>7, <2>8 DEF Journal
<1>8. CASE Rename(w) \/ RecoverRename(w)
  <2>1. \/ staging' = staging
        \/ /\ pc[w] \in {"rename", "rec_rename"} /\ pc'[w] = "commit"
           /\ staging'[job[w]] = NoFolder /\ Publish(w)
    BY <1>1, <1>8 DEF Rename, RecoverRename, Publish, At, Goto, folders
  <2> QED
    BY <1>3, <2>1 DEF Journal
<1>9. CASE VerifyQuarantine(w)
  <2>1. \/ staging' = staging
        \/ /\ pc[w] = "verify_quarantine" /\ pc'[w] = "finally"
           /\ staging'[job[w]] = NoFolder /\ Publish(w)
    BY <1>1, <1>9 DEF VerifyQuarantine, Publish, At, Goto, Raise, folders
  <2> QED
    BY <1>3, <2>1 DEF Journal
<1>10. CASE Quarantine(w)
  <2>1. \/ staging' = staging
        \/ /\ pc[w] = "quarantine" /\ pc'[w] = "verify_quarantine"
           /\ staging[job[w]] = NoFolder /\ staging'[job[w]] = target
    BY <1>1, <1>10 DEF Quarantine, At, Goto, folders
  <2> QED
    BY <1>3, <2>1 DEF Journal
<1>11. CASE ~(\/ RmtreeFile(w) \/ RmtreeDone(w) \/ CopyProject(w) \/ CopyFile(w) \/ Rename(w)
              \/ RecoverRename(w) \/ VerifyQuarantine(w) \/ Quarantine(w))
  <2>1. staging' = staging
    BY <1>11 DEF Process, Execute, Take, CheckTerminal, Postpone, Recover, Inspect, RecoverLock,
       RecoverCheck, Finish, Cleanup, Unlink, Sweep, Release, ReportCheck, ReportWrite,
       Begin, SnapshotSource, CopyFails, Verify, Fingerprint, WriteJournal, PublishCheck,
       CommitCheck, CommitWrite, WriteFails, Finally, Rmtree, RmtreeFails, Unlock, FinalCheck,
       FinalWrite, folders
  <2> QED
    BY <1>3, <2>1 DEF Journal
<1> QED
  BY <1>4, <1>5, <1>6, <1>7, <1>8, <1>9, <1>10, <1>11

\* What a worker has read when it goes on.
LEMMA Guards ==
    ASSUME Types, NEW w \in Workers, Process(w) \/ Execute(w)
    PROVE  LET r == job[w] IN
           /\ pc[w] = "recover" /\ pc'[w] \in {"discard", "report"} => journal[r] = NoFolder
           /\ pc[w] = "recover" /\ pc'[w] = "report" => staging[r] = NoFolder
           /\ pc[w] = "recover" /\ pc'[w] = "inspect" => journal[r] # NoFolder
           /\ pc[w] = "discard" /\ pc'[w] = "report" => staging'[r] = NoFolder
           /\ pc[w] = "inspect" /\ pc'[w] = "rec_lock" =>
                 target = NoFolder /\ staging[r] = journal[r]
           /\ pc[w] = "inspect" /\ pc'[w] = "commit" =>
                 target = journal[r] /\ staging[r] = NoFolder
           /\ pc[w] = "rec_check" /\ pc'[w] = "commit" => staging[r] = NoFolder
           /\ pc[w] = "begin" /\ pc'[w] = "report" => staging[r] = NoFolder
           /\ pc[w] = "fingerprint" /\ pc'[w] = "journal" =>
                 target = NoFolder /\ staging[r] # NoFolder
           /\ pc[w] = "journal" /\ pc'[w] = "publish" => journal'[r] = mem[w].verified
           /\ pc[w] = "clean" /\ pc'[w] = "unlock" /\ faults'["io"] = 0 => staging'[r] = NoFolder
           /\ pc[w] \in {"rename", "rec_rename"} /\ pc'[w] = "commit" =>
                 Publish(w) /\ staging'[r] = NoFolder
<1>1. /\ pc \in [Workers -> Phases] /\ staging \in [Requests -> Folder]
      /\ journal \in [Requests -> Folder]
      /\ pc[w] # "idle" => job[w] \in Requests
  BY DEF Types, TypeOK, PhasesFollow, Follows
<1>2. Spend("io") => faults'["io"] # 0
  BY SpendCounts DEF Types, FaultKinds
<1>3. CASE pc[w] = "recover"
  <2>1. Recover(w) \/ pc'[w] = "release"
    BY <1>1, <1>3 DEF Process, Execute, Take, CheckTerminal, Postpone, Inspect, RecoverLock,
       RecoverCheck, RecoverRename, Finish, Cleanup, Unlink, Sweep, Release, ReportCheck,
       ReportWrite, Begin, SnapshotSource, CopyProject, CopyFile, CopyFails, Verify, Fingerprint,
       WriteJournal, PublishCheck, Rename, CommitCheck, CommitWrite, WriteFails, Quarantine,
       VerifyQuarantine, Finally, Rmtree, RmtreeFile, RmtreeDone, RmtreeFails, Unlock, FinalCheck,
       FinalWrite, At, Goto
  <2> QED
    BY <1>1, <1>3, <2>1 DEF Recover, Goto, ReportThen
<1>4. CASE pc[w] = "discard" \/ pc[w] = "clean"
  <2>1. Rmtree(w)
    BY <1>4 DEF Process, Execute, Take, CheckTerminal, Postpone, Recover, Inspect, RecoverLock,
       RecoverCheck, RecoverRename, Finish, Cleanup, Unlink, Sweep, Release, ReportCheck,
       ReportWrite, Begin, SnapshotSource, CopyProject, CopyFile, CopyFails, Verify, Fingerprint,
       WriteJournal, PublishCheck, Rename, CommitCheck, CommitWrite, WriteFails, Quarantine,
       VerifyQuarantine, Finally, Unlock, FinalCheck, FinalWrite, At
  <2> QED
    BY <1>1, <1>2, <1>4, <2>1
    DEF Rmtree, RmtreeFile, RmtreeDone, RmtreeFails, At, Goto, Raise, ReportThen
<1>5. CASE pc[w] \in {"inspect", "rec_check", "rec_rename"}
  <2>1. Inspect(w) \/ RecoverCheck(w) \/ RecoverRename(w)
    BY <1>5 DEF Process, Execute, Take, CheckTerminal, Postpone, Recover, RecoverLock,
       Finish, Cleanup, Unlink, Sweep, Release, ReportCheck,
       ReportWrite, Begin, SnapshotSource, CopyProject, CopyFile, CopyFails, Verify, Fingerprint,
       WriteJournal, PublishCheck, Rename, CommitCheck, CommitWrite, WriteFails, Quarantine,
       VerifyQuarantine, Finally, Rmtree, RmtreeFile, RmtreeDone, RmtreeFails, Unlock, FinalCheck,
       FinalWrite, At
  <2> QED
    BY <1>1, <1>5, <2>1 DEF Inspect, RecoverCheck, RecoverRename, Publish, At, Goto, Raise
<1>6. CASE pc[w] \in {"begin", "fingerprint", "journal", "rename"}
  <2>1. Begin(w) \/ Fingerprint(w) \/ WriteJournal(w) \/ WriteFails(w) \/ Rename(w)
    BY <1>6 DEF Process, Execute, Take, CheckTerminal, Postpone, Recover, Inspect, RecoverLock,
       RecoverCheck, RecoverRename, Finish, Cleanup, Unlink, Sweep, Release, ReportCheck,
       ReportWrite, SnapshotSource, CopyProject, CopyFile, CopyFails, Verify,
       PublishCheck, CommitCheck, CommitWrite, Quarantine,
       VerifyQuarantine, Finally, Rmtree, RmtreeFile, RmtreeDone, RmtreeFails, Unlock, FinalCheck,
       FinalWrite, At
  <2> QED
    BY <1>1, <1>6, <2>1
    DEF Begin, Fingerprint, WriteJournal, WriteFails, Rename, Publish, At, Goto, Raise, ReportThen
<1> QED
  BY <1>3, <1>4, <1>5, <1>6

\* Why an attempt ends with an exception while the leases are held.
LEMMA RaiseReasons ==
    ASSUME Types, LeasesHeld', NEW w \in Workers, Process(w) \/ Execute(w), Raised(w)
    PROVE  LET r == job[w] kind == mem'[w].outcome IN
           /\ kind = "cancelled" => pc[w] = "report"
           /\ kind = "error" => pc[w] \in (Plain \ {"discard", "report", "publish"})
                                          \cup {"verify_quarantine"}
           /\ kind = "recovery_required" =>
                 pc[w] \in {"inspect", "rec_check", "quarantine", "verify_quarantine"}
           /\ faults'["io"] = 0 =>
                 pc[w] \in Recovering \cup {"report", "begin", "verify", "fingerprint", "rename"}
                           \cup {"quarantine", "verify_quarantine"}
           /\ pc[w] = "rename" /\ faults'["io"] = 0 =>
                 staging[r] = NoFolder \/ target # NoFolder
           /\ pc[w] = "inspect" =>
                 /\ kind = "recovery_required"
                 /\ ~(target = journal[r] /\ staging[r] = NoFolder)
                 /\ ~(target = NoFolder /\ staging[r] = journal[r])
           /\ pc[w] = "rec_check" /\ kind = "recovery_required" => target # NoFolder
           /\ pc[w] = "verify_quarantine" =>
                 \/ kind = "error" /\ staging[r] = mem[w].verified /\ UNCHANGED folders
                 \/ kind = "recovery_required" /\ (staging'[r] = NoFolder \/ mem'[w].preserve)
           /\ pc[w] # "verify_quarantine" => UNCHANGED folders
<1>1. /\ pc \in [Workers -> Phases] /\ staging \in [Requests -> Folder]
      /\ pc[w] # "idle" /\ job[w] \in Requests /\ pc'[w] = "finally"
      /\ mem[w] \in Memory
  BY DEF Types, TypeOK, PhasesFollow, Follows, Raised, Attempt
<1>2. Spend("io") => faults'["io"] # 0
  BY SpendCounts DEF Types, FaultKinds
<1>3. ~Lost(w)
  <2>1. Types' /\ Frame(w)
    BY ProcessTypes, ExecuteTypes
  <2>2. claim' = claim
    BY <1>1 DEF Goto, Process, Execute, Take, CheckTerminal, Postpone, Recover, Inspect, RecoverLock,
       RecoverCheck, RecoverRename, Finish, Cleanup, Unlink, Sweep, Release, ReportCheck,
       ReportWrite, Begin, SnapshotSource, CopyProject, CopyFile, CopyFails, Verify, Fingerprint,
       WriteJournal, PublishCheck, Rename, CommitCheck, CommitWrite, WriteFails, Quarantine,
       VerifyQuarantine, Finally, Rmtree, RmtreeFile, RmtreeDone, RmtreeFails, Unlock, FinalCheck,
       FinalWrite, owner, At
  <2> QED
    BY <2>1 DEF Frame, Types, LossesAreCounted, Lost
<1>4. \A kind \in Outcomes : Raise(w, kind) => mem'[w].outcome = kind
  BY RaiseFields
<1>5. {"cancelled", "error", "recovery_required", "retry", "lease_lost"} \subseteq Outcomes
  BY DEF Outcomes
<1>6. CASE Inspect(w) \/ RecoverCheck(w)
  BY <1>1, <1>3, <1>4, <1>5, <1>6 DEF Inspect, RecoverCheck, At, Goto, Plain, Recovering, folders
<1>7. CASE RecoverLock(w) \/ RecoverRename(w)
  <2>1. Raise(w, "retry") /\ UNCHANGED folders /\ pc[w] \in {"rec_lock", "rec_rename"}
    BY <1>1, <1>7 DEF RecoverLock, RecoverRename, At, Goto, folders
  <2> QED
    BY <1>4, <1>5, <2>1 DEF Recovering
<1>8. CASE ReportCheck(w) \/ Begin(w)
  BY <1>1, <1>3, <1>4, <1>5, <1>8 DEF ReportCheck, Begin, At, Goto, ReportThen, Plain, folders
<1>9. CASE CopyFails(w)
  <2>1. /\ mem'[w].outcome = "error" /\ Spend("io") /\ UNCHANGED folders
        /\ pc[w] \in {"project", "copy"}
    BY <1>1, <1>9 DEF CopyFails, Types, TypeOK, Memory
  <2> QED
    BY <1>2, <2>1 DEF Plain
<1>10. CASE Verify(w) \/ Fingerprint(w) \/ PublishCheck(w) \/ CommitCheck(w)
  BY <1>1, <1>3, <1>4, <1>5, <1>10
  DEF Verify, Fingerprint, PublishCheck, CommitCheck, At, Goto, Plain, folders
<1>11. CASE Rename(w) \/ Quarantine(w)
  BY <1>1, <1>2, <1>4, <1>5, <1>11 DEF Rename, Quarantine, At, Goto, Plain, folders
<1>12. CASE CommitWrite(w)
  <2>1. mem'[w].outcome = "none"
    BY <1>1, <1>12 DEF CommitWrite, At, Types, TypeOK, PhasesFollow, Follows, Attempt, Memory
  <2> QED
    BY <2>1 DEF Raised
<1>13. CASE WriteFails(w)
  <2>1. /\ Spend("io") /\ UNCHANGED folders
        /\ \/ pc[w] \in {"report_write", "journal"} /\ Raise(w, "error")
           \/ pc[w] = "commit_write" /\ Raise(w, "retry")
    BY <1>1, <1>13 DEF WriteFails, At, Goto
  <2> QED
    BY <1>2, <1>4, <1>5, <2>1 DEF Plain
<1>14. CASE VerifyQuarantine(w)
  <2>1. pc[w] = "verify_quarantine"
    BY <1>14 DEF VerifyQuarantine, At
  <2>2. /\ Raise(w, "error") => mem'[w].outcome = "error"
        /\ Raise(w, "recovery_required") => mem'[w].outcome = "recovery_required"
    BY <1>4, <1>5
  <2>3. CASE Raise(w, "error") /\ staging[job[w]] = mem[w].verified /\ UNCHANGED folders
    BY <2>1, <2>2, <2>3 DEF Plain
  <2>4. CASE Publish(w) /\ Raise(w, "recovery_required")
    <3>1. staging'[job[w]] = NoFolder
      BY <1>1, <2>4 DEF Publish
    <3> QED
      BY <2>1, <2>2, <2>4, <3>1 DEF Plain
  <2>5. CASE mem' = [mem EXCEPT ![w] = [@ EXCEPT !.preserve = TRUE,
                                                 !.outcome = "recovery_required"]]
    <3>1. mem'[w].preserve /\ mem'[w].outcome = "recovery_required"
      BY <1>1, <2>5 DEF Types, TypeOK, Memory
    <3> QED
      BY <2>1, <3>1 DEF Plain
  <2> QED
    BY <1>14, <2>3, <2>4, <2>5 DEF VerifyQuarantine
<1>15. CASE RmtreeFails(w)
  <2>1. pc[w] = "discard" /\ Spend("io") /\ UNCHANGED folders /\ Raise(w, "retry")
    BY <1>1, <1>15 DEF RmtreeFails, At, Goto, Raised, Attempt
  <2> QED
    BY <1>2, <1>4, <1>5, <2>1
<1>16. Execute(w) \/ Process(w)
  OBVIOUS
<1>17. CASE ~(\/ Inspect(w) \/ RecoverCheck(w) \/ RecoverLock(w) \/ RecoverRename(w)
              \/ ReportCheck(w) \/ Begin(w) \/ CopyFails(w) \/ Verify(w) \/ Fingerprint(w)
              \/ PublishCheck(w) \/ CommitCheck(w) \/ Rename(w) \/ Quarantine(w) \/ CommitWrite(w)
              \/ WriteFails(w) \/ VerifyQuarantine(w) \/ RmtreeFails(w))
  <2>1. pc'[w] # "finally" \/ pc[w] = "finally"
    BY <1>1, <1>17 DEF Process, Execute, Take, CheckTerminal, Postpone, Recover, Finish, Cleanup,
       Unlink, Sweep, Release, ReportWrite, SnapshotSource, CopyProject, CopyFile, WriteJournal,
       Finally, Rmtree, RmtreeFile, RmtreeDone, Unlock, FinalCheck, FinalWrite, At, Goto,
       ReportThen, Types, PhasesFollow, Follows
  <2> QED
    BY <1>1, <2>1 DEF Raised, Attempt
<1> QED
  BY <1>6, <1>7, <1>8, <1>9, <1>10, <1>11, <1>12, <1>13, <1>14, <1>15, <1>17

\* Faults and events: what they count up, and the target that users edit.
LEMMA WorkerFaults ==
    ASSUME Types, NEW w \in Workers, Process(w) \/ Execute(w)
    PROVE  /\ faults'["targetEdit"] = faults["targetEdit"]
           /\ Untouched' => Untouched
<1>1. faults' = faults \/ Spend("io")
  BY DEF Process, Execute, Take, CheckTerminal, Postpone, Recover, Inspect, RecoverLock,
     RecoverCheck, RecoverRename, Finish, Cleanup, Unlink, Sweep, Release, ReportCheck,
     ReportWrite, Begin, SnapshotSource, CopyProject, CopyFile, CopyFails, Verify, Fingerprint,
     WriteJournal, PublishCheck, Rename, CommitCheck, CommitWrite, WriteFails, Quarantine,
     VerifyQuarantine, Finally, Rmtree, RmtreeFile, RmtreeDone, RmtreeFails, Unlock, FinalCheck,
     FinalWrite, TryDiscardLockOf, ReleaseLock, LeaveLock, world
<1>2. faults'["targetEdit"] = faults["targetEdit"] /\ (faults'["io"] = 0 => faults["io"] = 0)
  BY <1>1 DEF Spend, Types, TypeOK, FaultKinds
<1> QED
  BY <1>2 DEF Untouched

LEMMA EnvironmentTarget ==
    ASSUME Types, Environment
    PROVE  /\ \/ target' = target /\ (faults'["targetEdit"] # 0 => faults["targetEdit"] # 0)
              \/ target # NoFolder /\ HasEdit(target') /\ faults'["targetEdit"] # 0
           /\ Untouched' => Untouched
<1>1. \A kind \in FaultKinds : Spend(kind) =>
         /\ faults'["targetEdit"] = 0 => faults["targetEdit"] = 0
         /\ faults'["io"] = 0 => faults["io"] = 0
         /\ kind = "targetEdit" => faults'["targetEdit"] # 0
         /\ kind # "targetEdit" => faults'["targetEdit"] = faults["targetEdit"]
  BY DEF Spend, Types, TypeOK, FaultKinds
<1>2. CASE \E f \in Files : EditTarget(f)
  <2>1. PICK f \in Files : EditTarget(f)
    BY <1>2
  <2>2. target \in [Files -> Content] /\ target' = [target EXCEPT ![f] = Edited]
    BY <2>1 DEF EditTarget, Types, TypeOK, Folder
  <2>3. target' \in [Files -> Content] /\ target'[f] = Edited
    BY <2>2 DEF Content
  <2>4. HasEdit(target')
    BY <2>3, NamesAssumption DEF HasEdit, Content
  <2> QED
    BY <1>1, <2>1, <2>4 DEF EditTarget, FaultKinds, Untouched
<1>3. CASE ~\E f \in Files : EditTarget(f)
  <2>1. \/ faults' = faults
        \/ \E kind \in FaultKinds \ {"targetEdit"} : Spend(kind)
    BY <1>3 DEF Environment, AskCancel, MarkCancel, EditSource, Displace, Crash, world, FaultKinds
  <2>2. target' = target
    BY <1>3 DEF Environment, AskCancel, MarkCancel, EditSource, Displace, Crash, folders
  <2> QED
    BY <1>1, <2>1, <2>2 DEF Untouched
<1> QED
  BY <1>2, <1>3

\* TargetFree over a step of a worker, and over any behaviour.
LEMMA WorkerTargetFree ==
    ASSUME Types, LocksHeld, TargetFree, NEW w \in Workers, Process(w) \/ Execute(w)
    PROVE  TargetFree'
<1>1. Types' /\ Frame(w)
  BY ProcessTypes, ExecuteTypes
<1>2. SUFFICES ASSUME LeasesHeld', NEW v \in Workers, pc'[v] \in {"journal", "publish", "rename"}
               PROVE  target' = NoFolder
  BY DEF TargetFree
<1>3. /\ LeasesHeld /\ \A u \in Workers : Holds(u) => lockBy = u
      /\ \A u \in Workers : pc[u] \in {"journal", "publish", "rename"} => target = NoFolder
  BY <1>1, <1>2 DEF Frame, LocksHeld, TargetFree
<1>4. \/ target' = target
      \/ pc[w] \in {"rename", "rec_rename"} /\ pc'[w] = "commit"
      \/ pc[w] = "verify_quarantine" /\ pc'[w] = "finally"
      \/ pc[w] = "quarantine" /\ target' = NoFolder
  BY TargetSteps, RaiseFields DEF Outcomes
<1>5. CASE v = w
  <2>1. pc[w] \in {"journal", "publish"} \/ (pc[w] = "fingerprint" /\ pc'[w] = "journal")
    <3>1. CASE Quiet(w) /\ mem'[w] = mem[w]
      BY <1>2, <1>5, <3>1 DEF Quiet, Types, PhasesFollow, Follows
    <3> QED
      BY <1>2, <1>5, <3>1, Shapes DEF Raised, Reported, Particular
  <2>2. target = NoFolder
    BY <1>3, <2>1, Guards
  <2> QED
    BY <1>4, <2>1, <2>2
<1>6. CASE v # w
  <2>1. pc[v] \in {"journal", "publish", "rename"}
    BY <1>1, <1>2, <1>6 DEF Frame
  <2>2. target = NoFolder /\ lockBy = v
    BY <1>3, <2>1 DEF Holds
  <2>3. ~Holds(w)
    BY <1>3, <1>6, <2>2
  <2> QED
    BY <1>4, <2>2, <2>3 DEF Holds
<1> QED
  BY <1>5, <1>6

LEMMA TargetFreeInvariant == Spec => []TargetFree
<1>1. Init => TargetFree
  BY DEF Init, TargetFree
<1>2. ASSUME Types, LocksHeld, TargetFree, [Next]_vars PROVE TargetFree'
  <2>1. CASE \E w \in Workers : Process(w) \/ Execute(w)
    BY <1>2, <2>1, WorkerTargetFree
  <2>2. CASE Environment
    <3>1. /\ LeasesHeld' => LeasesHeld
          /\ \A v \in Workers : pc'[v] = pc[v] \/ pc'[v] = "idle"
          /\ target' = target \/ target # NoFolder
      BY <1>2, <2>2, EnvironmentFrame, EnvironmentTarget
    <3> QED
      BY <1>2, <3>1 DEF TargetFree
  <2>3. CASE Terminated \/ UNCHANGED vars
    BY <1>2, <2>3 DEF Terminated, vars, folders, world, TargetFree, LeasesHeld
  <2> QED
    BY <1>2, <2>1, <2>2, <2>3 DEF Next
<1> QED
  BY <1>1, <1>2, TypesInvariant, LocksHeldInvariant, PTL DEF Spec

-----------------------------------------------------------------------------
(* Knowledge: what the phase of a worker says of its journal and staging    *)

\* A worker keeps its job from Take to Release.
LEMMA OwnJob ==
    ASSUME Types, NEW w \in Workers, Process(w) \/ Execute(w)
    PROVE  /\ pc[w] # "idle" => job[w] \in Requests
           /\ pc[w] # "idle" /\ pc'[w] # "idle" => job'[w] = job[w]
           /\ pc[w] = "idle" =>
                 /\ pc'[w] = "check" /\ mem'[w] = mem[w]
                 /\ UNCHANGED <<protocol, folders, world>>
<1>1. pc \in [Workers -> Phases] /\ (pc[w] # "idle" => job[w] \in Requests)
  BY DEF Types, TypeOK, PhasesFollow, Follows
<1>2. CASE \E r \in Requests : Take(w, r)
  BY <1>1, <1>2 DEF Take, At, Goto
<1>3. CASE Release(w)
  BY <1>1, <1>3 DEF Release, At, Goto
<1>4. CASE ~(Release(w) \/ \E r \in Requests : Take(w, r))
  <2>1. UNCHANGED job /\ pc[w] # "idle"
    BY <1>4 DEF Process, Execute, CheckTerminal, Postpone, Recover, Inspect, RecoverLock,
       RecoverCheck, RecoverRename, Finish, Cleanup, Unlink, Sweep, ReportCheck, ReportWrite, Begin,
       SnapshotSource, CopyProject, CopyFile, CopyFails, Verify, Fingerprint, WriteJournal,
       PublishCheck, Rename, CommitCheck, CommitWrite, WriteFails, Quarantine, VerifyQuarantine,
       Finally, Rmtree, RmtreeFile, RmtreeDone, RmtreeFails, Unlock, FinalCheck, FinalWrite, owner,
       At
  <2> QED
    BY <1>1, <2>1
<1> QED
  BY <1>2, <1>3, <1>4

\* The fields of the memory, one by one.
LEMMA Fields ==
    ASSUME Types, NEW w \in Workers, Process(w) \/ Execute(w), pc[w] # "idle", pc'[w] # "idle"
    PROVE  /\ \/ mem'[w].outcome = mem[w].outcome
              \/ pc[w] \in Attempt /\ pc'[w] = "finally"
           /\ \/ mem'[w].created = mem[w].created
              \/ pc[w] = "project" /\ pc'[w] = "report" /\ mem'[w].created
              \/ pc[w] \in {"project", "copy"} /\ pc'[w] = "finally" /\ CopyFails(w)
              \/ pc[w] = "commit_write" /\ pc'[w] = "finally" /\ ~mem'[w].created
           /\ \/ mem'[w].recovering = mem[w].recovering
              \/ pc[w] = "recover" /\ pc'[w] = "inspect"
           /\ \/ mem'[w].preserve = mem[w].preserve
              \/ /\ pc[w] = "verify_quarantine" /\ pc'[w] = "finally"
                 /\ mem'[w].preserve /\ mem'[w].outcome = "recovery_required"
              \/ pc[w] = "cleanup" /\ pc'[w] = "unlink"
           /\ \/ mem'[w].verified = mem[w].verified
              \/ pc[w] = "fingerprint" /\ pc'[w] = "journal" /\ mem'[w].verified = staging[job[w]]
           /\ \/ mem'[w].next = mem[w].next
              \/ pc'[w] \in {"report", "finally"}
<1>1. mem[w] \in Memory
  BY DEF Types, TypeOK
<1>2. CASE Quiet(w) /\ mem'[w] = mem[w]
  BY <1>2
<1>3. CASE Raised(w)
  BY <1>3 DEF Raised
<1>4. CASE Reported(w)
  BY <1>4 DEF Reported
<1>5. CASE Particular(w)
  BY <1>1, <1>5 DEF Particular, Memory, Attempt
<1> QED
  BY <1>2, <1>3, <1>4, <1>5, Shapes

\* The phases from which a worker comes to a phase.
Sources(to) ==
    CASE to = "idle" -> {"release"}
      [] to = "check" -> {"idle"}
      [] to = "recover" -> {"check"}
      [] to = "discard" -> {"recover", "discard"}
      [] to = "inspect" -> {"recover"}
      [] to = "rec_lock" -> {"inspect"}
      [] to = "rec_check" -> {"rec_lock"}
      [] to = "rec_rename" -> {"rec_check"}
      [] to = "report" -> {"begin", "snapshot", "project", "copy", "recover", "discard"}
      [] to = "report_write" -> {"report"}
      [] to \in {"begin", "snapshot", "project", "copy", "verify"} -> {"report_write"}
      [] to = "fingerprint" -> {"verify"}
      [] to = "journal" -> {"fingerprint"}
      [] to = "publish" -> {"journal"}
      [] to = "rename" -> {"publish"}
      [] to = "commit" -> {"inspect", "rec_check", "rename", "rec_rename"}
      [] to = "commit_write" -> {"commit"}
      [] to = "quarantine" -> {"commit_write"}
      [] to = "verify_quarantine" -> {"quarantine"}
      [] to = "finally" -> Attempt \ {"check", "recover"}
      [] to = "clean" -> {"finally", "clean"}
      [] to = "unlock" -> {"finally", "clean"}
      [] to = "final" -> {"unlock"}
      [] to = "final_write" -> {"final"}
      [] to = "finish" -> {"unlock", "final", "final_write"}
      [] to = "cleanup" -> {"check", "finish"}
      [] to = "unlink" -> {"cleanup"}
      [] to = "sweep" -> {"unlink"}
      [] to = "release" -> {"check", "recover", "unlock", "finish", "cleanup", "unlink", "sweep"}
      [] OTHER -> {}

\* Where a step comes from, and what it asks of the memory.
LEMMA Edges ==
    ASSUME Types, NEW w \in Workers, Process(w) \/ Execute(w)
    PROVE  /\ pc[w] \in Sources(pc'[w])
           /\ pc[w] = "report_write" /\ pc'[w] # "finally" => pc'[w] = mem[w].next
           /\ pc'[w] = "report" =>
                 mem'[w].next = CASE pc[w] \in {"recover", "discard"} -> "begin"
                                  [] pc[w] = "begin" -> "snapshot"
                                  [] pc[w] = "snapshot" -> "project"
                                  [] pc[w] = "project" -> "copy"
                                  [] OTHER -> mem'[w].next
           /\ pc'[w] = "report" /\ pc[w] = "copy" => mem'[w].next \in {"copy", "verify"}
           /\ pc[w] = "finally" /\ pc'[w] = "clean" => mem[w].created /\ ~mem[w].preserve
           /\ pc[w] = "finally" /\ pc'[w] = "unlock" => ~mem[w].created \/ mem[w].preserve
           /\ pc[w] = "commit_write" /\ pc'[w] = "quarantine" => ~mem[w].recovering
<1>1. Follows(w)
  BY DEF Types, PhasesFollow
<1>2. CASE Quiet(w) /\ mem'[w] = mem[w]
  BY <1>1, <1>2 DEF Quiet, Follows, Sources, Attempt
<1>3. CASE Raised(w)
  BY <1>3 DEF Raised, Sources, Attempt
<1>4. CASE Reported(w)
  BY <1>4 DEF Reported, Sources, Attempt
<1>5. CASE Particular(w)
  BY <1>5 DEF Particular, Sources, Attempt
<1> QED
  BY <1>2, <1>3, <1>4, <1>5, Shapes

\* What a step of a worker leaves it knowing, by what it knows.
LEMMA OwnKnows ==
    ASSUME Types, Retention, Kinds, TargetFree, Knowledge, LeasesHeld', LeasesHeld,
           NEW w \in Workers, Process(w) \/ Execute(w)
    PROVE  Knows(w)'
<1>1. Types' /\ Frame(w) /\ Follows(w) /\ Kind(w) /\ Knows(w) /\ mem[w] \in Memory
  BY ProcessTypes, ExecuteTypes DEF Types, TypeOK, PhasesFollow, Kinds, Knowledge
<1>2. ~HasEdit(NoFolder)
  BY DEF HasEdit
<1>3. ~HasEdit(mem'[w].verified)
  <2>1. pc[w] = "fingerprint" => ~HasEdit(staging[job[w]])
    BY <1>1 DEF Knows, Plain
  <2> QED
    BY <1>1, <1>2, <2>1, ManifestSteps DEF Knows
<1>4. CASE pc[w] = "idle" \/ pc'[w] = "idle"
  <2>1. pc'[w] \in {"check", "idle"}
    BY <1>4, OwnJob
  <2> QED
    BY <1>3, <2>1 DEF Knows, Early, Towards, Plain, Recovering, Published, Ending
<1>5. CASE pc[w] # "idle" /\ pc'[w] # "idle"
  <2> DEFINE r == job[w]
  <2>1. r \in Requests /\ job'[w] = r
    BY <1>5, OwnJob
  <2>2. /\ \/ journal'[r] = journal[r]
           \/ pc[w] = "journal" /\ pc'[w] = "publish" /\ journal'[r] = mem[w].verified
           \/ pc[w] = "sweep" /\ pc'[w] = "release"
        /\ \/ staging'[r] = staging[r]
           \/ pc[w] \in {"discard", "clean", "project", "copy"}
           \/ pc[w] \in {"rename", "rec_rename", "verify_quarantine"} /\ staging'[r] = NoFolder
           \/ pc[w] = "quarantine" /\ pc'[w] = "verify_quarantine"
        /\ pc[w] \in {"discard", "clean", "project", "copy"} /\ ~HasEdit(staging[r]) =>
              ~HasEdit(staging'[r])
    BY <1>2, <1>5, OwnFiles
  <2>3. pc[w] \in Sources(pc'[w])
    BY Edges
  <2>4. status[r] \notin Terminal \/ pc[w] # "recover"
    BY DEF Retention, Attempts, Open, Attempt
  <2>5. pc'[w] \in Plain \ {"publish", "rename"} => journal'[r] = NoFolder
    BY <1>1, <2>2, <2>3, Guards DEF Knows, Sources, Plain
  <2>6. pc'[w] \in {"publish", "rename", "verify_quarantine"} \cup Recovering \cup Published =>
           journal'[r] # NoFolder
    <3>1. CASE pc'[w] = "publish"
      BY <1>1, <2>2, <2>3, <3>1, Guards DEF Knows, Sources
    <3>2. CASE pc'[w] = "inspect"
      BY <2>2, <2>3, <3>2, Guards DEF Sources
    <3>3. CASE pc'[w] \in {"rename", "verify_quarantine", "rec_lock", "rec_check", "rec_rename"}
                          \cup Published
      BY <1>1, <2>2, <2>3, <3>3 DEF Knows, Sources, Recovering, Published
    <3> QED
      BY <3>1, <3>2, <3>3 DEF Recovering
  <2>7. Early(w)' => staging'[r] = NoFolder
    <3>1. CASE pc'[w] \in {"begin", "snapshot", "project"}
      BY <1>1, <1>5, <2>2, <2>3, <3>1, Guards, Edges, Fields DEF Knows, Sources, Early, Towards
    <3>2. CASE pc'[w] \in {"report", "report_write"}
      BY ZenonT(40), <1>1, <1>5, <2>2, <2>3, <3>2, Guards, Edges, Fields DEF Knows, Sources, Early, Towards
    <3> QED
      BY <3>1, <3>2 DEF Early, Towards
  <2>8. pc'[w] = "journal" => mem'[w].verified = staging'[r] /\ staging'[r] # NoFolder
    <3> SUFFICES ASSUME pc'[w] = "journal" PROVE mem'[w].verified = staging[r] /\ staging[r] # NoFolder
      BY <2>2, <2>3 DEF Sources
    <3>1. pc[w] = "fingerprint"
      BY <2>3 DEF Sources
    <3>2. mem'[w].verified = staging[r]
      <4>1. Particular(w)
        BY <3>1, Shapes DEF Quiet, Raised, Reported
      <4> QED
        BY <1>1, <3>1, <4>1 DEF Particular, Memory
    <3> QED
      BY <3>1, <3>2, Guards
  <2>9. pc'[w] \in {"publish", "rename"} => journal'[r] = staging'[r] /\ staging'[r] # NoFolder
    <3>1. CASE pc'[w] = "publish"
      BY <1>1, <2>2, <2>3, <3>1, Guards DEF Knows, Sources
    <3>2. CASE pc'[w] = "rename"
      BY <1>1, <2>2, <2>3, <3>2 DEF Knows, Sources
    <3> QED
      BY <3>1, <3>2
  <2>10. pc'[w] \in {"rec_lock", "rec_check", "rec_rename"} => staging'[r] = journal'[r]
    BY <1>1, <2>2, <2>3, Guards DEF Knows, Sources
  <2>11. pc'[w] \in Published /\ ~mem'[w].recovering => staging'[r] = NoFolder
    BY <1>1, <1>5, <2>2, <2>3, Guards, Fields DEF Knows, Sources, Published, Kind, Recovering
  <2>12. pc'[w] \in Plain \cup {"clean"} => ~HasEdit(staging'[r])
    <3>1. CASE pc[w] = "recover"
      <4>1. pc'[w] \in {"discard", "report"} => ~HasEdit(staging[r])
        BY <2>1, <2>4, <3>1, Guards DEF Knowledge, Private
      <4> QED
        BY <2>2, <2>3, <3>1, <4>1 DEF Sources, Plain
    <3>2. CASE pc[w] = "finally"
      BY <1>1, <2>2, <2>3, <3>2, Edges DEF Knows, Sources, Plain
    <3>3. CASE pc[w] \notin {"recover", "finally"}
      BY <1>1, <2>2, <2>3, <3>3 DEF Knows, Sources, Plain
    <3> QED
      BY <3>1, <3>2, <3>3
  <2>13. pc'[w] = "finally" /\ mem'[w].created /\ ~mem'[w].preserve => ~HasEdit(staging'[r])
    <3> SUFFICES ASSUME pc'[w] = "finally", mem'[w].created, ~mem'[w].preserve
                 PROVE  ~HasEdit(staging'[r])
      OBVIOUS
    <3>1. CASE pc[w] \in Plain
      BY <1>1, <1>2, <2>2, <3>1 DEF Knows, Plain
    <3>2. CASE pc[w] \in Recovering \cup Published
      <4>1. mem[w].created
        BY <1>5, <3>2, Fields DEF Recovering, Published
      <4>2. ~mem[w].recovering /\ pc[w] \in Published
        BY <1>1, <3>2, <4>1 DEF Kind
      <4> QED
        BY <1>1, <1>2, <2>2, <4>2 DEF Knows, Published
    <3>3. CASE pc[w] = "verify_quarantine"
      <4>1. Raised(w)
        <5>1. Raised(w) \/ Particular(w)
          BY <3>3, Shapes DEF Quiet, Reported
        <5> QED
          BY <1>1, <3>3, <5>1 DEF Particular, Memory
      <4>2. staging'[r] = mem[w].verified \/ staging'[r] = NoFolder
        BY <2>1, <3>3, <4>1, RaiseReasons DEF folders
      <4> QED
        BY <1>1, <1>2, <4>2 DEF Knows
    <3> QED
      BY <2>3, <3>1, <3>2, <3>3 DEF Sources, Attempt, Plain, Recovering, Published
  <2>14. pc'[w] = "clean" => mem'[w].created
    BY <1>1, <1>5, <2>3, Edges, Fields DEF Sources, Knows
  <2>15. pc'[w] \in Ending /\ mem'[w].outcome = "cancelled" => journal'[r] = NoFolder
    <3>1. CASE pc'[w] = "finally" /\ mem'[w].outcome = "cancelled"
      <4>1. Raised(w)
        <5>1. Raised(w) \/ Particular(w)
          BY <1>1, <2>3, <3>1, Shapes DEF Quiet, Reported, Sources, Attempt, Follows
        <5>2. pc[w] \in Attempt => mem[w].outcome = "none"
          BY <1>1 DEF Follows
        <5> QED
          BY <1>1, <3>1, <5>1, <5>2 DEF Particular, Memory, Attempt
      <4>2. pc[w] = "report"
        BY <3>1, <4>1, RaiseReasons
      <4> QED
        BY <1>1, <2>2, <4>2 DEF Knows, Plain
    <3>2. CASE pc'[w] # "finally"
      BY <1>1, <1>5, <2>2, <2>3, <3>2, Fields DEF Sources, Knows, Ending
    <3> QED
      BY <3>1, <3>2
  <2> HIDE DEF r
  <2> QED
    BY <1>3, <2>1, <2>5, <2>6, <2>7, <2>8, <2>9, <2>10, <2>11, <2>12, <2>13, <2>14, <2>15 DEF Knows
<1> QED
  BY <1>4, <1>5

\* The same while no call has failed.
LEMMA OwnKnowsMore ==
    ASSUME Types, Kinds, TargetFree, Knowledge, LeasesHeld', LeasesHeld,
           NEW w \in Workers, Process(w) \/ Execute(w), faults'["io"] = 0
    PROVE  KnowsMore(w)'
<1>1. /\ Types' /\ Frame(w) /\ faults["io"] = 0
      /\ Follows(w) /\ Kind(w) /\ Kind(w)' /\ mem[w] \in Memory
      /\ Knows(w) /\ KnowsMore(w)
  BY ProcessTypes, ExecuteTypes, WorkerKinds DEF Types, TypeOK, PhasesFollow, Kinds, Knowledge, Frame
<1>2. CASE pc[w] = "idle" \/ pc'[w] = "idle"
  <2>1. pc'[w] \in {"check", "idle"}
    BY <1>2, OwnJob
  <2> QED
    BY <2>1 DEF KnowsMore
<1>3. CASE pc[w] # "idle" /\ pc'[w] # "idle"
  <2> DEFINE r == job[w]
  <2>1. r \in Requests /\ job'[w] = r
    BY <1>3, OwnJob
  <2>2. /\ pc'[w] \in {"finally", "clean", "unlock", "final", "final_write"} =>
              journal'[r] = journal[r]
        /\ pc'[w] \in {"finally", "clean", "unlock", "final", "final_write"}
           /\ pc[w] \notin {"discard", "clean", "project", "copy", "verify_quarantine"} =>
              staging'[r] = staging[r]
    BY <1>3, OwnFiles
  <2>3. pc[w] \in Sources(pc'[w])
    BY Edges
  <2>4. /\ pc[w] \in Attempt => mem[w].outcome = "none"
        /\ pc[w] \notin {"quarantine", "verify_quarantine"}
        /\ pc[w] = "finally" => ~mem[w].preserve
    BY <1>1 DEF Follows, Kind
  <2>5. ASSUME pc'[w] = "finally", pc[w] # "commit_write"
        PROVE  /\ Raised(w)
               /\ pc[w] \in Recovering \cup {"report", "begin", "verify", "fingerprint"}
               /\ mem'[w].outcome \in {"error", "cancelled"} => pc[w] \notin Recovering
    <3>1. Raised(w)
      <4>1. Raised(w) \/ Particular(w)
        BY <1>1, <2>3, <2>5, Shapes DEF Quiet, Reported, Sources, Attempt, Follows
      <4> QED
        BY <2>4, <2>5, <4>1 DEF Particular
    <3>2. pc[w] # "rename"
      <4> SUFFICES ASSUME pc[w] = "rename" PROVE FALSE
        OBVIOUS
      <4>1. target = NoFolder /\ staging[job[w]] # NoFolder
        BY <1>1 DEF TargetFree, Knows
      <4> QED
        BY <3>1, <4>1, RaiseReasons
    <3> QED
      BY <2>4, <3>1, <3>2, RaiseReasons DEF Recovering, Plain
  <2>6. ASSUME pc'[w] = "finally", pc[w] = "commit_write" PROVE mem'[w].outcome \notin {"error", "cancelled"}
    BY <1>1, <2>4, <2>6, Shapes, RaiseReasons DEF Quiet, Reported, Particular, Memory, Attempt, Plain
  <2>7. pc'[w] \in {"finally", "clean"} /\ mem'[w].created => journal'[r] = NoFolder
    <3> SUFFICES ASSUME pc'[w] \in {"finally", "clean"}, mem'[w].created PROVE journal[r] = NoFolder
      BY <2>2
    <3>1. CASE pc'[w] = "clean"
      BY <1>1, <1>3, <2>3, <3>1, Fields DEF KnowsMore, Sources
    <3>2. CASE pc'[w] = "finally" /\ pc[w] # "commit_write"
      <4>1. pc[w] \notin Recovering
        <5> SUFFICES ASSUME pc[w] \in Recovering PROVE FALSE
          OBVIOUS
        <5>1. mem[w].created
          BY <1>3, <3>2, Fields DEF Recovering
        <5> QED
          BY <1>1, <5>1 DEF Kind
      <4> QED
        BY <1>1, <2>5, <3>2, <4>1 DEF Knows, Plain
    <3>3. CASE pc'[w] = "finally" /\ pc[w] = "commit_write"
      <4>1. Raised(w) \/ ~mem'[w].created
        BY <1>1, <3>3, Shapes DEF Quiet, Reported, Particular, Memory
      <4>2. ~Raised(w)
        BY <3>3, RaiseReasons DEF Recovering
      <4> QED
        BY <4>1, <4>2
    <3> QED
      BY <3>1, <3>2, <3>3
  <2>8. pc'[w] = "finally" /\ mem'[w].outcome \in {"error", "cancelled"} =>
           mem'[w].created \/ staging'[r] = NoFolder
    <3> SUFFICES ASSUME pc'[w] = "finally", mem'[w].outcome \in {"error", "cancelled"}, ~mem'[w].created
                 PROVE  staging'[r] = NoFolder
      OBVIOUS
    <3>1. pc[w] \in {"report", "begin", "verify", "fingerprint"}
      BY <2>5, <2>6
    <3>2. ~mem[w].created
      BY <1>3, <3>1, Fields
    <3>3. Early(w)
      BY <1>1, <3>1, <3>2 DEF Kind, Late, Early, Towards, Follows
    <3> QED
      BY <1>1, <2>2, <3>1, <3>3 DEF Knows
  <2>9. pc'[w] \in {"unlock", "final", "final_write"} /\ mem'[w].outcome \in {"error", "cancelled"} =>
           staging'[r] = NoFolder
    <3> SUFFICES ASSUME pc'[w] \in {"unlock", "final", "final_write"},
                        mem'[w].outcome \in {"error", "cancelled"}
                 PROVE  staging'[r] = NoFolder
      OBVIOUS
    <3>1. pc[w] \in {"finally", "clean", "unlock", "final"} /\ mem[w].outcome = mem'[w].outcome
      BY <1>3, <2>3, Fields DEF Sources
    <3>2. CASE pc[w] = "finally"
      <4>1. ~mem[w].created
        BY <2>3, <2>4, <3>2, Edges DEF Sources
      <4> QED
        BY <1>1, <2>2, <3>1, <3>2, <4>1 DEF KnowsMore
    <3>3. CASE pc[w] = "clean"
      BY <2>3, <3>3, Guards DEF Sources
    <3>4. CASE pc[w] \in {"unlock", "final"}
      BY <1>1, <2>2, <3>1, <3>4 DEF KnowsMore
    <3> QED
      BY <3>1, <3>2, <3>3, <3>4
  <2> HIDE DEF r
  <2> QED
    BY <2>1, <2>7, <2>8, <2>9 DEF KnowsMore
<1> QED
  BY <1>2, <1>3

\* A status that is not terminal was not terminal before.
LEMMA OwnPrivate ==
    ASSUME Types, Retention, Knowledge, LeasesHeld', LeasesHeld,
           NEW w \in Workers, Process(w) \/ Execute(w), NEW r \in Requests
    PROVE  Private(r)'
<1>1. Types' /\ Frame(w) /\ Knows(w) /\ Private(r) /\ Retention
  BY ProcessTypes, ExecuteTypes DEF Knowledge
<1>2. SUFFICES ASSUME status'[r] \notin Terminal, journal'[r] = NoFolder PROVE ~HasEdit(staging'[r])
  BY DEF Private
<1>3. status[r] \notin Terminal
  BY <1>2, WorkerRetention
<1>4. CASE pc[w] = "idle" \/ r # job[w]
  <2>1. journal'[r] = journal[r] /\ staging'[r] = staging[r]
    BY <1>1, <1>4, OwnJob DEF Frame, protocol, folders
  <2> QED
    BY <1>1, <1>2, <1>3, <2>1 DEF Private
<1>5. CASE pc[w] # "idle" /\ r = job[w]
  <2>1. journal[r] = NoFolder
    <3>1. pc[w] # "sweep"
      BY <1>3, <1>5 DEF Retention, Unlinks
    <3>2. pc[w] = "journal" => mem[w].verified # NoFolder
      BY <1>1 DEF Knows
    <3> QED
      BY <1>2, <1>5, <3>1, <3>2, OwnFiles
  <2>2. ~HasEdit(staging[r]) /\ ~HasEdit(NoFolder) /\ pc[w] # "quarantine"
    BY <1>1, <1>3, <1>5, <2>1 DEF Private, HasEdit, Knows, Published
  <2> QED
    BY <1>5, <2>2, OwnFiles
<1> QED
  BY <1>4, <1>5

\* Knowledge over a step of a worker, and over any behaviour.
LEMMA WorkerKnowledge ==
    ASSUME Types, Retention, Kinds, TargetFree, Knowledge,
           NEW w \in Workers, Process(w) \/ Execute(w)
    PROVE  Knowledge'
<1>1. Types' /\ Frame(w)
  BY ProcessTypes, ExecuteTypes
<1>2. SUFFICES ASSUME LeasesHeld'
               PROVE  /\ \A v \in Workers : Knows(v)' /\ (faults'["io"] = 0 => KnowsMore(v)')
                      /\ \A r \in Requests : Private(r)'
  BY DEF Knowledge
<1>3. LeasesHeld
  BY <1>1, <1>2 DEF Frame
<1>4. \A r \in Requests : Private(r)'
  BY <1>2, <1>3, OwnPrivate
<1>5. ASSUME NEW v \in Workers PROVE Knows(v)' /\ (faults'["io"] = 0 => KnowsMore(v)')
  <2>1. CASE v = w
    BY <1>2, <1>3, <2>1, OwnKnows, OwnKnowsMore
  <2>2. CASE v # w
    <3>1. /\ pc'[v] = pc[v] /\ job'[v] = job[v] /\ mem'[v] = mem[v]
          /\ faults'["io"] = 0 => faults["io"] = 0
      BY <1>1, <2>2 DEF Frame
    <3>2. Knows(v) /\ (faults["io"] = 0 => KnowsMore(v))
      BY <1>3 DEF Knowledge
    <3>3. CASE pc[v] = "idle"
      BY <3>1, <3>2, <3>3
      DEF Knows, KnowsMore, Early, Towards, Plain, Recovering, Published, Ending
    <3>4. CASE pc[v] # "idle"
      <4>1. job[v] \in Requests /\ (pc[w] # "idle" => job[v] # job[w])
        BY <1>3, <2>2, <3>4, OneOwner, OwnJob DEF Types, PhasesFollow, Follows
      <4>2. journal'[job[v]] = journal[job[v]] /\ staging'[job[v]] = staging[job[v]]
        BY <1>1, <4>1, OwnJob DEF Frame, protocol, folders
      <4> QED
        BY <3>1, <3>2, <4>2 DEF Knows, KnowsMore, Early, Towards
    <3> QED
      BY <3>3, <3>4
  <2> QED
    BY <2>1, <2>2
<1> QED
  BY <1>4, <1>5

LEMMA KnowledgeInvariant == Spec => []Knowledge
<1>1. Init => Knowledge
  BY DEF Init, Knowledge, Knows, KnowsMore, Private, HasEdit, Early, Towards, Plain, Recovering,
         Published, Ending, FreshMemory
<1>2. ASSUME Types, Retention, Kinds, TargetFree, Knowledge, [Next]_vars PROVE Knowledge'
  <2>1. CASE \E w \in Workers : Process(w) \/ Execute(w)
    BY <1>2, <2>1, WorkerKnowledge
  <2>2. CASE Environment
    <3>1. /\ UNCHANGED <<status, journal, staging>>
          /\ LeasesHeld' => LeasesHeld
          /\ faults'["io"] = 0 => faults["io"] = 0
          /\ \A v \in Workers :
                \/ pc'[v] = pc[v] /\ job'[v] = job[v] /\ mem'[v] = mem[v]
                \/ pc'[v] = "idle" /\ mem'[v] = FreshMemory
      BY <1>2, <2>2, EnvironmentFrame
    <3> SUFFICES ASSUME LeasesHeld'
                 PROVE  /\ \A v \in Workers : Knows(v)' /\ (faults'["io"] = 0 => KnowsMore(v)')
                        /\ \A r \in Requests : Private(r)'
      BY DEF Knowledge
    <3>2. \A r \in Requests : Private(r)'
      BY <1>2, <3>1 DEF Knowledge, Private
    <3>3. ASSUME NEW v \in Workers PROVE Knows(v)' /\ (faults'["io"] = 0 => KnowsMore(v)')
      <4>1. Knows(v) /\ (faults["io"] = 0 => KnowsMore(v))
        BY <1>2, <3>1 DEF Knowledge
      <4>2. CASE pc'[v] = "idle" /\ mem'[v] = FreshMemory
        BY <4>2 DEF Knows, KnowsMore, HasEdit, Early, Towards, Plain, Recovering, Published, Ending,
                    FreshMemory
      <4>3. CASE pc'[v] = pc[v] /\ job'[v] = job[v] /\ mem'[v] = mem[v]
        BY <3>1, <4>1, <4>3 DEF Knows, KnowsMore, Early, Towards
      <4> QED
        BY <3>1, <4>2, <4>3
    <3> QED
      BY <3>2, <3>3
  <2>3. CASE Terminated \/ UNCHANGED vars
    BY <1>2, <2>3 DEF Terminated, vars, protocol, folders, world, owner, Knowledge, Knows, KnowsMore,
                      Private, Early, Towards, LeasesHeld
  <2> QED
    BY <1>2, <2>1, <2>2, <2>3 DEF Next
<1> QED
  BY <1>1, <1>2, TypesInvariant, RetentionInvariant, KindsInvariant, TargetFreeInvariant, PTL
  DEF Spec

-----------------------------------------------------------------------------
(* Outlook: what the worker, or a recovery to come, makes of the target     *)

\* A step means nothing for what the request has of the target.
Respects(r) ==
    /\ targetOf' = r <=> targetOf = r
    /\ Untouched' => Untouched
    /\ faults'["io"] = 0 => faults["io"] = 0
    /\ Untouched' /\ targetOf \notin {r, NoRequest} => targetOf' \notin {r, NoRequest}
    /\ Untouched' /\ targetOf = r => target' = target

\* The target changes hands only by the publication and the rollback of its owner.
LEMMA OwnTarget ==
    ASSUME Types, Kinds, Knowledge, Outlook, LeasesHeld, LeasesHeld',
           NEW w \in Workers, Process(w) \/ Execute(w)
    PROVE  /\ (target' # NoFolder) <=> (targetOf' \in Requests)
           /\ \A r \in Requests : r # job[w] => Respects(r)
           /\ \/ UNCHANGED <<target, targetOf>>
              \/ /\ targetOf' = job[w] /\ target = NoFolder /\ target' = staging[job[w]]
                 /\ \/ pc[w] \in {"rename", "rec_rename"} /\ pc'[w] = "commit"
                    \/ pc[w] = "verify_quarantine" /\ faults'["io"] # 0
              \/ /\ pc[w] = "quarantine" /\ pc'[w] = "verify_quarantine" /\ targetOf' = NoRequest
                 /\ faults'["io"] # 0
<1>1. /\ NoRequest \notin Requests /\ Kind(w) /\ Knows(w) /\ Sees(w) /\ Types' /\ Frame(w)
      /\ (target # NoFolder) <=> (targetOf \in Requests)
      /\ targetOf \in Requests \cup {NoRequest}
      /\ staging \in [Requests -> Folder]
  BY ProcessTypes, ExecuteTypes, NamesAssumption DEF Types, TypeOK, Kinds, Knowledge, Outlook
<1>2. (Untouched' => Untouched) /\ (faults'["io"] = 0 => faults["io"] = 0)
  BY <1>1, WorkerFaults DEF Frame
<1>3. CASE UNCHANGED <<target, targetOf>>
  BY <1>1, <1>2, <1>3 DEF Respects
<1>4. CASE /\ Publish(w) /\ staging'[job[w]] = NoFolder
           /\ \/ pc[w] \in {"rename", "rec_rename"} /\ pc'[w] = "commit" /\ mem' = mem
              \/ pc[w] = "verify_quarantine" /\ Raise(w, "recovery_required")
  <2>1. /\ targetOf' = job[w] /\ target = NoFolder /\ target' = staging[job[w]]
        /\ target' # NoFolder /\ job[w] \in Requests
    BY <1>4, OwnJob DEF Publish
  <2>2. pc[w] = "verify_quarantine" => faults'["io"] # 0
    BY <1>1, <1>2 DEF Kind
  <2>3. targetOf = NoRequest
    BY <1>1, <2>1
  <2>4. \A r \in Requests : r # job[w] => Respects(r)
    BY <1>1, <1>2, <2>1, <2>3 DEF Respects
  <2> QED
    BY <1>4, <2>1, <2>2, <2>4
<1>5. CASE /\ pc[w] = "quarantine" /\ pc'[w] = "verify_quarantine" /\ mem' = mem
           /\ staging'[job[w]] = target /\ target # NoFolder
           /\ target' = NoFolder /\ targetOf' = NoRequest
  <2>1. targetOf = job[w] /\ faults["io"] # 0 /\ job[w] \in Requests
    BY <1>1, <1>5, OwnJob DEF Sees, Kind, Published
  <2>2. faults'["io"] # 0 /\ ~Untouched'
    BY <1>2, <2>1 DEF Untouched
  <2> QED
    BY <1>1, <1>2, <1>5, <2>1, <2>2 DEF Respects
<1> QED
  BY <1>3, <1>4, <1>5, TargetSteps

\* What a step of a worker leaves it knowing of the target.
LEMMA OwnSees ==
    ASSUME Types, Retention, Kinds, Knowledge, Outlook, LeasesHeld, LeasesHeld',
           NEW w \in Workers, Process(w) \/ Execute(w)
    PROVE  Sees(w)'
<1>1. /\ NoRequest \notin Requests /\ Kind(w) /\ Knows(w) /\ Sees(w) /\ Follows(w)
      /\ mem[w] \in Memory
      /\ (target # NoFolder) <=> (targetOf \in Requests)
      /\ targetOf \in Requests \cup {NoRequest}
  BY NamesAssumption DEF Types, TypeOK, PhasesFollow, Kinds, Knowledge, Outlook
<1>2. /\ Untouched' => Untouched
      /\ faults'["io"] = 0 => faults["io"] = 0
      /\ \A r \in Requests : Sure(r)' => Sure(r)
  <2>1. faults'["io"] = 0 => faults["io"] = 0
    BY ProcessTypes, ExecuteTypes DEF Frame
  <2> QED
    BY <2>1, WorkerFaults DEF Sure
<1>3. CASE pc[w] = "idle" \/ pc'[w] = "idle"
  <2>1. pc'[w] \in {"check", "idle"}
    BY <1>3, OwnJob
  <2> QED
    BY <2>1 DEF Sees, Plain, Published, Ending
<1>4. CASE pc[w] # "idle" /\ pc'[w] # "idle"
  <2> DEFINE r == job[w]
  <2>1. r \in Requests /\ job'[w] = r /\ r # NoRequest
    BY <1>1, <1>4, OwnJob
  <2>2. /\ \/ UNCHANGED <<target, targetOf>>
           \/ /\ targetOf' = r /\ target = NoFolder
              /\ \/ pc[w] \in {"rename", "rec_rename"} /\ pc'[w] = "commit"
                 \/ pc[w] = "verify_quarantine" /\ faults'["io"] # 0
           \/ /\ pc[w] = "quarantine" /\ pc'[w] = "verify_quarantine" /\ targetOf' = NoRequest
              /\ faults'["io"] # 0
    BY OwnTarget
  <2>3. pc[w] \in Sources(pc'[w])
    BY Edges
  <2>4. pc[w] \in Attempt \ {"check"} => Whereabouts(r)
    BY <2>1 DEF Retention, Attempts, Open, Outlook
  <2>5. pc'[w] \in Plain \cup {"verify_quarantine", "rec_lock", "rec_check", "rec_rename"} =>
           targetOf' # r
    <3>1. CASE pc[w] = "recover"
      <4>1. pc'[w] \in {"discard", "report"} => targetOf # r
        BY <2>4, <3>1, Guards DEF Whereabouts, Attempt
      <4> QED
        BY <2>2, <2>3, <3>1, <4>1 DEF Sources, Plain
    <3>2. CASE pc[w] = "inspect"
      <4>1. pc'[w] = "rec_lock" => targetOf # r
        BY <1>1, <2>1, <3>2, Guards
      <4> QED
        BY <2>2, <2>3, <3>2, <4>1 DEF Sources, Plain
    <3>3. CASE pc[w] = "quarantine"
      <4>1. pc'[w] = "verify_quarantine" => targetOf' = NoRequest
        <5> SUFFICES ASSUME pc'[w] = "verify_quarantine" PROVE targetOf' = NoRequest
          OBVIOUS
        <5>1. Quarantine(w)
          BY <3>3 DEF Process, Execute, Take, CheckTerminal, Postpone, Recover, Inspect,
           RecoverLock, RecoverCheck, RecoverRename, Finish, Cleanup, Unlink, Sweep, Release,
           ReportCheck, ReportWrite, Begin, SnapshotSource, CopyProject, CopyFile, CopyFails, Verify,
           Fingerprint, WriteJournal, PublishCheck, Rename, CommitCheck, CommitWrite, WriteFails,
           VerifyQuarantine, Finally, Rmtree, RmtreeFile, RmtreeDone, RmtreeFails, Unlock,
           FinalCheck, FinalWrite, At
        <5>2. ~Raise(w, "recovery_required")
          BY RaiseFields DEF Outcomes
        <5> QED
          BY <5>1, <5>2 DEF Quarantine
      <4> QED
        BY <2>1, <2>3, <3>3, <4>1 DEF Sources, Plain
    <3>4. CASE pc[w] \notin {"recover", "inspect", "quarantine"}
      BY <1>1, <2>2, <2>3, <3>4 DEF Sees, Sources, Plain
    <3> QED
      BY <3>1, <3>2, <3>3, <3>4
  <2>6. ASSUME pc'[w] = "finally", mem'[w].outcome \in {"error", "cancelled", "recovery_required"}
        PROVE  Raised(w) \/ (pc[w] = "verify_quarantine" /\ mem'[w].outcome = "recovery_required")
    <3>1. Raised(w) \/ Particular(w)
      BY <1>1, <2>3, <2>6, Shapes DEF Quiet, Reported, Sources, Attempt, Follows
    <3> QED
      BY <1>1, <2>3, <2>6, <3>1 DEF Particular, Memory, Follows, Attempt
  <2>7. pc'[w] \in Ending /\ mem'[w].outcome \in {"error", "cancelled"} => targetOf' # r
    <3> SUFFICES ASSUME pc'[w] \in Ending, mem'[w].outcome \in {"error", "cancelled"}
                 PROVE  targetOf' # r
      OBVIOUS
    <3>1. CASE pc'[w] = "finally"
      <4>1. Raised(w)
        BY <2>6, <3>1
      <4>2. pc[w] \in Plain \cup {"verify_quarantine"} /\ UNCHANGED folders
        BY <4>1, RaiseReasons DEF Plain
      <4> QED
        BY <1>1, <4>2 DEF Sees, folders
    <3>2. CASE pc'[w] # "finally"
      BY <1>1, <1>4, <2>2, <2>3, <3>2, Fields DEF Sees, Sources, Ending
    <3> QED
      BY <3>1, <3>2
  <2>8. pc'[w] \in Published /\ (~mem'[w].recovering \/ Sure(r)') => targetOf' = r
    <3> SUFFICES ASSUME pc'[w] \in Published, ~mem'[w].recovering \/ Sure(r)' PROVE targetOf' = r
      OBVIOUS
    <3>1. CASE pc[w] \in {"rename", "rec_rename"}
      BY <2>3, <3>1, Guards DEF Publish, Sources, Published
    <3>2. CASE pc[w] = "rec_check"
      <4>1. pc'[w] = "commit"
        BY <2>3, <3>2 DEF Sources, Published
      <4> QED
        BY <1>1, <3>2, <4>1, Guards DEF Knows, Recovering
    <3>3. CASE pc[w] = "inspect"
      <4>1. /\ pc'[w] = "commit" /\ target = journal[r] /\ staging[r] = NoFolder
            /\ journal[r] # NoFolder /\ Sure(r)
        BY <1>1, <1>2, <1>4, <2>1, <2>3, <3>3, Guards, Fields
        DEF Sources, Published, Knows, Kind, Recovering
      <4>2. targetOf = r
        BY <1>1, <2>4, <3>3, <4>1 DEF Whereabouts, Attempt, Sure
      <4> QED
        BY <2>2, <3>3, <4>2
    <3>4. CASE pc[w] \in {"commit", "commit_write"}
      BY <1>1, <1>2, <1>4, <2>1, <2>2, <2>3, <3>4, Fields DEF Sees, Sources, Published
    <3> QED
      BY <2>3, <3>1, <3>2, <3>3, <3>4 DEF Sources, Published
  <2>9. pc'[w] \in Ending /\ mem'[w].outcome = "recovery_required" /\ Untouched' =>
           targetOf' \notin {r, NoRequest}
    <3> SUFFICES ASSUME pc'[w] \in Ending, mem'[w].outcome = "recovery_required", Untouched'
                 PROVE  targetOf' \notin {r, NoRequest}
      OBVIOUS
    <3>1. faults'["io"] = 0 /\ Untouched /\ pc[w] \notin {"quarantine", "verify_quarantine"}
      BY <1>1, <1>2 DEF Untouched, Kind
    <3>2. CASE pc'[w] = "finally"
      <4>1. Raised(w)
        BY <2>6, <3>1, <3>2
      <4>2. pc[w] \in {"inspect", "rec_check"} /\ UNCHANGED folders
        BY <3>1, <4>1, RaiseReasons
      <4>3. CASE pc[w] = "rec_check"
        <5>1. target # NoFolder
          BY <4>1, <4>3, RaiseReasons
        <5> QED
          BY <1>1, <4>2, <4>3, <5>1 DEF Sees, folders
      <4>4. CASE pc[w] = "inspect"
        <5>1. /\ ~(target = journal[r] /\ staging[r] = NoFolder)
              /\ ~(target = NoFolder /\ staging[r] = journal[r])
              /\ journal[r] # NoFolder
          BY <1>1, <4>1, <4>4, RaiseReasons DEF Knows, Recovering
        <5>2. targetOf # r /\ staging[r] = journal[r]
          BY <2>4, <3>1, <4>4, <5>1 DEF Whereabouts, Attempt, Untouched
        <5> QED
          BY <1>1, <4>2, <5>1, <5>2 DEF folders
      <4> QED
        BY <4>2, <4>3, <4>4
    <3>3. CASE pc'[w] # "finally"
      BY <1>1, <1>4, <2>2, <2>3, <3>1, <3>3, Fields DEF Sees, Sources, Ending
    <3> QED
      BY <3>2, <3>3
  <2> QED
    BY <2>1, <2>5, <2>7, <2>8, <2>9 DEF Sees
<1> QED
  BY <1>3, <1>4

\* Where a step of the worker of a request leaves its copy.
LEMMA OwnWhereabouts ==
    ASSUME Types, Retention, Kinds, Knowledge, Outlook, LeasesHeld, LeasesHeld',
           NEW w \in Workers, Process(w) \/ Execute(w), pc[w] # "idle",
           NEW r \in Requests, r = job[w], status'[r] \notin Terminal
    PROVE  Whereabouts(r)'
<1>1. /\ NoRequest \notin Requests /\ Kind(w) /\ Knows(w) /\ Sees(w)
      /\ (faults["io"] = 0 => KnowsMore(w)) /\ (faults'["io"] = 0 => faults["io"] = 0)
      /\ r \in Requests /\ staging \in [Requests -> Folder]
  BY NamesAssumption, ProcessTypes, ExecuteTypes, OwnJob
  DEF Types, TypeOK, Kinds, Knowledge, Outlook, Frame
<1>2. status[r] \notin Terminal /\ pc[w] # "sweep" /\ Whereabouts(r)
  <2>1. status[r] \notin Terminal
    BY <1>1, WorkerRetention
  <2> QED
    BY <1>1, <2>1 DEF Retention, Unlinks, Outlook
<1>3. /\ \/ UNCHANGED <<target, targetOf>>
         \/ /\ targetOf' = r /\ target = NoFolder /\ target' = staging[r]
            /\ \/ pc[w] \in {"rename", "rec_rename"} /\ pc'[w] = "commit"
               \/ pc[w] = "verify_quarantine" /\ faults'["io"] # 0
         \/ pc[w] = "quarantine" /\ targetOf' = NoRequest /\ faults'["io"] # 0
      /\ Untouched' => Untouched
  BY OwnTarget, WorkerFaults
<1>4. \/ journal'[r] = journal[r]
      \/ /\ pc[w] = "journal" /\ pc'[w] = "publish" /\ journal'[r] = staging[r]
         /\ staging[r] # NoFolder
  BY <1>1, <1>2, OwnFiles DEF Knows
<1>5. \/ staging'[r] = staging[r]
      \/ pc[w] \in {"discard", "clean", "project", "copy", "rename", "rec_rename"}
      \/ pc[w] \in {"quarantine", "verify_quarantine"}
  BY OwnFiles
<1>6. journal'[r] = NoFolder => targetOf' # r
  <2> SUFFICES ASSUME journal'[r] = NoFolder PROVE targetOf' # r
    OBVIOUS
  <2>1. journal[r] = NoFolder
    BY <1>4
  <2>2. pc[w] \notin {"rename", "rec_rename", "verify_quarantine"}
    BY <1>1, <2>1 DEF Knows, Recovering
  <2> QED
    BY <1>1, <1>2, <1>3, <2>1, <2>2 DEF Whereabouts
<1>7. ASSUME faults'["io"] = 0, journal'[r] # NoFolder
      PROVE  \/ targetOf' # r /\ staging'[r] = journal'[r]
             \/ targetOf' = r /\ staging'[r] = NoFolder /\ (Untouched' => target' = journal'[r])
  <2>1. pc[w] \notin {"quarantine", "verify_quarantine"}
    BY <1>1, <1>7 DEF Kind
  <2>2. CASE pc[w] = "journal" /\ journal'[r] # journal[r]
    <3>1. targetOf # r /\ staging'[r] = staging[r] /\ journal'[r] = staging[r]
      BY <1>1, <1>4, <1>5, <2>2 DEF Sees, Plain
    <3> QED
      BY <1>3, <2>2, <3>1
  <2>3. CASE journal'[r] = journal[r]
    <3>1. pc[w] \notin {"discard", "project", "copy", "clean"}
      BY <1>1, <1>7, <2>3 DEF Knows, KnowsMore, Plain
    <3>2. CASE pc[w] \in {"rename", "rec_rename"} /\ pc'[w] = "commit"
      <4>1. targetOf' = r /\ staging'[r] = NoFolder /\ target' = staging[r]
        BY <3>2, Guards DEF Publish
      <4>2. staging[r] = journal[r]
        BY <1>1, <3>2 DEF Knows
      <4> QED
        BY <2>3, <4>1, <4>2
    <3>3. CASE ~(pc[w] \in {"rename", "rec_rename"} /\ pc'[w] = "commit")
      <4>1. UNCHANGED <<target, targetOf>>
        BY <1>3, <2>1, <3>3
      <4>2. staging'[r] = staging[r]
        BY <1>5, <2>1, <3>1, <3>3, OwnFiles
      <4> QED
        BY <1>1, <1>2, <1>3, <1>7, <2>3, <4>1, <4>2 DEF Whereabouts
    <3> QED
      BY <3>2, <3>3
  <2> QED
    BY <1>4, <2>2, <2>3
<1> QED
  BY <1>6, <1>7 DEF Whereabouts

\* What a step writes into the status of its request.
LEMMA StatusSteps ==
    ASSUME Types, NEW w \in Workers, Process(w) \/ Execute(w), pc[w] # "idle"
    PROVE  \/ status' = status
           \/ /\ UNCHANGED <<folders, journal>>
              /\ \/ status'[job[w]] = "processing"
                 \/ pc[w] = "commit_write" /\ pc'[w] = "finally" /\ status'[job[w]] = "success"
                 \/ pc[w] = "final_write" /\ status'[job[w]] = mem[w].outcome
<1>1. status \in [Requests -> Statuses] /\ job[w] \in Requests /\ pc \in [Workers -> Phases]
  BY OwnJob DEF Types, TypeOK
<1>2. CASE ReportWrite(w) \/ CommitWrite(w) \/ FinalWrite(w)
  BY <1>1, <1>2 DEF ReportWrite, CommitWrite, FinalWrite, At, Goto
<1>3. CASE ~(ReportWrite(w) \/ CommitWrite(w) \/ FinalWrite(w))
  BY <1>3 DEF Process, Execute, Take, CheckTerminal, Postpone, Recover, Inspect, RecoverLock,
     RecoverCheck, RecoverRename, Finish, Cleanup, Unlink, Sweep, Release, ReportCheck, Begin,
     SnapshotSource, CopyProject, CopyFile, CopyFails, Verify, Fingerprint, WriteJournal,
     PublishCheck, Rename, CommitCheck, WriteFails, Quarantine, VerifyQuarantine, Finally, Rmtree,
     RmtreeFile, RmtreeDone, RmtreeFails, Unlock, FinalCheck, protocol
<1> QED
  BY <1>2, <1>3

\* A status that a worker writes is true of the target.
LEMMA OwnTold ==
    ASSUME Types, Retention, Kinds, Knowledge, Outlook, LeasesHeld, LeasesHeld',
           NEW w \in Workers, Process(w) \/ Execute(w), pc[w] # "idle",
           NEW r \in Requests, r = job[w]
    PROVE  Told(r)'
<1>1. /\ NoRequest \notin Requests /\ Kind(w) /\ Sees(w) /\ Follows(w) /\ Told(r)
      /\ (faults'["io"] = 0 => faults["io"] = 0)
  BY NamesAssumption, ProcessTypes, ExecuteTypes
  DEF Types, TypeOK, PhasesFollow, Kinds, Outlook, Frame, Told
<1>2. (Untouched' => Untouched) /\ (Sure(r)' => Sure(r))
  BY <1>1, WorkerFaults DEF Sure
<1>3. CASE status' = status /\ UNCHANGED <<target, targetOf>>
  BY <1>1, <1>2, <1>3 DEF Told
<1>4. CASE status' = status /\ ~UNCHANGED <<target, targetOf>>
  <2>1. pc[w] \in {"rename", "rec_rename", "verify_quarantine", "quarantine"}
    BY <1>4, OwnTarget
  <2>2. status[r] \notin Terminal
    BY <2>1 DEF Retention, Attempts, Open, Attempt
  <2> QED
    BY <1>4, <2>2 DEF Told, Terminal
<1>5. CASE status' # status
  <2>1. /\ UNCHANGED <<target, targetOf>>
        /\ \/ status'[r] = "processing"
           \/ pc[w] = "commit_write" /\ status'[r] = "success"
           \/ pc[w] = "final_write" /\ status'[r] = mem[w].outcome
    BY <1>5, StatusSteps DEF folders
  <2>2. pc[w] = "commit_write" /\ Sure(r) => targetOf = r
    BY <1>1 DEF Sees, Published
  <2>3. pc[w] = "final_write" =>
           /\ mem[w].outcome \in {"cancelled", "error", "recovery_required"}
           /\ mem[w].outcome \in {"error", "cancelled"} => targetOf # r
           /\ mem[w].outcome = "recovery_required" /\ Untouched => targetOf \notin {r, NoRequest}
    BY <1>1 DEF Sees, Ending, Follows
  <2> QED
    BY <1>2, <2>1, <2>2, <2>3 DEF Told
<1> QED
  BY <1>3, <1>4, <1>5

\* What a step of somebody else leaves true.
LEMMA OthersOutlook ==
    ASSUME NEW r \in Requests, Respects(r)
    PROVE  /\ Told(r) /\ status'[r] = status[r] => Told(r)'
           /\ Whereabouts(r) /\ journal'[r] = journal[r] /\ staging'[r] = staging[r] =>
                 Whereabouts(r)'
<1>1. Sure(r)' => Sure(r)
  BY DEF Sure, Respects
<1> QED
  BY <1>1 DEF Told, Whereabouts, Respects

\* What another worker knows of the target survives too.
LEMMA OthersSee ==
    ASSUME NEW v \in Workers, Sees(v), Respects(job[v]), job[v] # NoRequest,
           UNCHANGED <<pc[v], job[v], mem[v]>>
    PROVE  Sees(v)'
<1>1. Sure(job[v])' => Sure(job[v])
  BY DEF Sure, Respects
<1> QED
  BY <1>1 DEF Sees, Respects

\* Outlook over a step of a worker, over an event, and over any behaviour.
LEMMA WorkerOutlook ==
    ASSUME Types, Retention, Kinds, Knowledge, Outlook, NEW w \in Workers, Process(w) \/ Execute(w)
    PROVE  Outlook'
<1>1. Types' /\ Frame(w)
  BY ProcessTypes, ExecuteTypes
<1>2. SUFFICES ASSUME LeasesHeld'
               PROVE  /\ (target' # NoFolder) <=> (targetOf' \in Requests)
                      /\ \A v \in Workers : Sees(v)'
                      /\ \A r \in Requests : status'[r] \notin Terminal => Whereabouts(r)'
                      /\ \A r \in Requests : Told(r)'
  BY DEF Outlook
<1>3. LeasesHeld /\ NoRequest \notin Requests
  BY <1>1, <1>2, NamesAssumption DEF Frame
<1>4. (target' # NoFolder) <=> (targetOf' \in Requests)
  BY <1>2, <1>3, OwnTarget
<1>5. \A r \in Requests : r # job[w] => Respects(r)
  BY <1>2, <1>3, OwnTarget
<1>6. pc[w] = "idle" => \A r \in Requests : Respects(r)
  BY OwnJob DEF folders, world, Respects, Untouched
<1>7. ASSUME NEW v \in Workers PROVE Sees(v)'
  <2>1. CASE v = w
    BY <1>2, <1>3, <2>1, OwnSees
  <2>2. CASE v # w
    <3>1. UNCHANGED <<pc[v], job[v], mem[v]>> /\ Sees(v)
      BY <1>1, <1>3, <2>2 DEF Frame, Outlook
    <3>2. CASE pc[v] = "idle"
      BY <3>1, <3>2 DEF Sees, Plain, Published, Ending
    <3>3. CASE pc[v] # "idle"
      <4>1. job[v] \in Requests /\ (pc[w] # "idle" => job[v] # job[w])
        BY <1>3, <2>2, <3>3, OneOwner DEF Types, PhasesFollow, Follows
      <4> QED
        BY <1>3, <1>5, <1>6, <3>1, <4>1, OthersSee
    <3> QED
      BY <3>2, <3>3
  <2> QED
    BY <2>1, <2>2
<1>8. ASSUME NEW r \in Requests
      PROVE  Told(r)' /\ (status'[r] \notin Terminal => Whereabouts(r)')
  <2>1. CASE pc[w] # "idle" /\ r = job[w]
    BY <1>2, <1>3, <2>1, OwnTold, OwnWhereabouts
  <2>2. CASE pc[w] = "idle" \/ r # job[w]
    <3>1. /\ Respects(r) /\ status'[r] = status[r]
          /\ journal'[r] = journal[r] /\ staging'[r] = staging[r]
      BY <1>1, <1>5, <1>6, <2>2, OwnJob DEF Frame, protocol, folders
    <3> QED
      BY <1>3, <3>1, OthersOutlook DEF Outlook
  <2> QED
    BY <2>1, <2>2
<1> QED
  BY <1>4, <1>7, <1>8

LEMMA EnvironmentOutlook ==
    ASSUME Types, Outlook, Environment
    PROVE  Outlook'
<1>1. /\ UNCHANGED <<status, journal, staging, targetOf>>
      /\ LeasesHeld' => LeasesHeld
      /\ faults'["io"] = 0 => faults["io"] = 0
      /\ \A v \in Workers :
            \/ UNCHANGED <<pc[v], job[v], mem[v]>>
            \/ pc'[v] = "idle"
  BY EnvironmentFrame
<1>2. /\ target' = target \/ (target # NoFolder /\ target' # NoFolder /\ ~Untouched')
      /\ Untouched' => Untouched
  BY EnvironmentTarget DEF HasEdit, Untouched
<1>3. SUFFICES ASSUME LeasesHeld'
               PROVE  /\ (target' # NoFolder) <=> (targetOf' \in Requests)
                      /\ \A v \in Workers : Sees(v)'
                      /\ \A r \in Requests : status'[r] \notin Terminal => Whereabouts(r)'
                      /\ \A r \in Requests : Told(r)'
  BY DEF Outlook
<1>4. LeasesHeld /\ \A r \in Requests \cup {NoRequest} : Respects(r)
  BY <1>1, <1>2, <1>3 DEF Respects
<1>5. (target' # NoFolder) <=> (targetOf' \in Requests)
  BY <1>1, <1>2, <1>4 DEF Outlook
<1>6. ASSUME NEW v \in Workers PROVE Sees(v)'
  <2>1. CASE pc'[v] = "idle"
    BY <2>1 DEF Sees, Plain, Published, Ending
  <2>2. CASE UNCHANGED <<pc[v], job[v], mem[v]>> /\ pc[v] # "idle"
    <3>1. job[v] \in Requests /\ job[v] # NoRequest
      BY <2>2, NamesAssumption DEF Types, PhasesFollow, Follows
    <3> QED
      BY <1>4, <2>2, <3>1, OthersSee DEF Outlook
  <2> QED
    BY <1>1, <2>1, <2>2
<1>7. ASSUME NEW r \in Requests
      PROVE  Told(r)' /\ (status'[r] \notin Terminal => Whereabouts(r)')
  BY <1>1, <1>4, OthersOutlook DEF Outlook
<1> QED
  BY <1>5, <1>6, <1>7

LEMMA OutlookInvariant == Spec => []Outlook
<1>1. Init => Outlook
  BY NamesAssumption
  DEF Init, Outlook, Sees, Whereabouts, Told, Plain, Published, Ending, Terminal
<1>2. ASSUME Types, Retention, Kinds, Knowledge, Outlook, [Next]_vars PROVE Outlook'
  <2>1. CASE \E w \in Workers : Process(w) \/ Execute(w)
    BY <1>2, <2>1, WorkerOutlook
  <2>2. CASE Environment
    BY <1>2, <2>2, EnvironmentOutlook
  <2>3. CASE Terminated \/ UNCHANGED vars
    BY <1>2, <2>3
    DEF Terminated, vars, protocol, folders, world, owner, Outlook, Sees, Whereabouts, Told, Sure,
        Untouched, LeasesHeld
  <2> QED
    BY <1>2, <2>1, <2>2, <2>3 DEF Next
<1> QED
  BY <1>1, <1>2, TypesInvariant, RetentionInvariant, KindsInvariant, KnowledgeInvariant, PTL DEF Spec

\* StatusTellsTheTarget, for any instance: while no live worker lost its lease,
\* a polled status agrees with the folder that its request asked for.
THEOREM StatusesAreTrue == Spec => []StatusTellsTheTarget
<1>1. Outlook => StatusTellsTheTarget
  BY DEF Outlook, Told, Sure, StatusTellsTheTarget
<1> QED
  BY <1>1, OutlookInvariant, PTL

\* CrashesNeedNobody, for any instance and any number of deaths: a job asks for a
\* person only after a failed call, an edit of the target, or a rival for it.
THEOREM CrashesRecover == Spec => [](LeasesHeld => CrashesNeedNobody)
<1>1. Outlook => (LeasesHeld => CrashesNeedNobody)
  BY DEF Outlook, Told, Untouched, CrashesNeedNobody
<1> QED
  BY <1>1, OutlookInvariant, PTL

-----------------------------------------------------------------------------
(* What is left behind, and what is never deleted                          *)

\* Leftovers over a step of a worker, and over any behaviour.
LEMMA WorkerLeftovers ==
    ASSUME Types, Retention, Kinds, Knowledge, Leftovers,
           NEW w \in Workers, Process(w) \/ Execute(w)
    PROVE  Leftovers'
<1>1. Types' /\ Frame(w)
  BY ProcessTypes, ExecuteTypes
<1>2. SUFFICES ASSUME LeasesHeld', faults'["io"] = 0, NEW r \in Requests
               PROVE  /\ status'[r] \in {"error", "cancelled"} => staging'[r] = NoFolder
                      /\ status'[r] = "cancelled" => journal'[r] = NoFolder
  BY DEF Leftovers, FailureLeavesNothing
<1>3. /\ LeasesHeld /\ faults["io"] = 0
      /\ status[r] \in {"error", "cancelled"} => staging[r] = NoFolder
      /\ status[r] = "cancelled" => journal[r] = NoFolder
  BY <1>1, <1>2 DEF Frame, Leftovers, FailureLeavesNothing
<1>4. /\ Knows(w) /\ KnowsMore(w) /\ Follows(w)
      /\ pc[w] \in Attempt \ {"check"} => status[job[w]] \notin Terminal
  BY <1>3 DEF Knowledge, Types, PhasesFollow, Retention, Attempts, Open
<1>5. CASE pc[w] = "idle" \/ r # job[w]
  <2>1. status'[r] = status[r] /\ staging'[r] = staging[r] /\ journal'[r] = journal[r]
    BY <1>1, <1>5, OwnJob DEF Frame, protocol, folders
  <2> QED
    BY <1>3, <2>1
<1>6. CASE pc[w] # "idle" /\ r = job[w] /\ status' = status
  <2>1. \/ staging'[r] \in {staging[r], NoFolder}
        \/ pc[w] = "clean" /\ staging[r] # NoFolder
        \/ pc[w] \in {"discard", "project", "copy", "quarantine"}
    BY <1>6, OwnFiles
  <2>2. journal'[r] \in {journal[r], NoFolder} \/ pc[w] = "journal"
    BY <1>6, OwnFiles
  <2> QED
    BY <1>3, <1>4, <1>6, <2>1, <2>2 DEF Attempt, Terminal
<1>7. CASE pc[w] # "idle" /\ r = job[w] /\ status' # status
  <2>1. /\ staging'[r] = staging[r] /\ journal'[r] = journal[r]
        /\ \/ status'[r] \in {"processing", "success"}
           \/ pc[w] = "final_write" /\ status'[r] = mem[w].outcome
    BY <1>7, StatusSteps DEF folders
  <2> QED
    BY <1>4, <1>7, <2>1 DEF Knows, KnowsMore, Ending
<1> QED
  BY <1>5, <1>6, <1>7

LEMMA LeftoversInvariant == Spec => []Leftovers
<1>1. Init => Leftovers
  BY DEF Init, Leftovers, FailureLeavesNothing
<1>2. ASSUME Types, Retention, Kinds, Knowledge, Leftovers, [Next]_vars PROVE Leftovers'
  <2>1. CASE \E w \in Workers : Process(w) \/ Execute(w)
    BY <1>2, <2>1, WorkerLeftovers
  <2>2. CASE Environment
    <3>1. /\ UNCHANGED <<status, journal, staging>>
          /\ LeasesHeld' => LeasesHeld
          /\ faults'["io"] = 0 => faults["io"] = 0
      BY <1>2, <2>2, EnvironmentFrame
    <3> QED
      BY <1>2, <3>1 DEF Leftovers, FailureLeavesNothing
  <2>3. CASE Terminated \/ UNCHANGED vars
    BY <1>2, <2>3
    DEF Terminated, vars, protocol, folders, world, Leftovers, FailureLeavesNothing, LeasesHeld
  <2> QED
    BY <1>2, <2>1, <2>2, <2>3 DEF Next
<1> QED
  BY <1>1, <1>2, TypesInvariant, RetentionInvariant, KindsInvariant, KnowledgeInvariant, PTL DEF Spec

\* FailureLeavesNothing, for any instance: while no live worker lost its lease and
\* no call failed, a failed or cancelled job leaves no staging folder behind.
THEOREM FailuresAreClean == Spec => [](LeasesHeld => FailureLeavesNothing)
<1>1. Leftovers => (LeasesHeld => FailureLeavesNothing)
  BY DEF Leftovers
<1> QED
  BY <1>1, LeftoversInvariant, PTL

\* EditsAreNeverLost in the words of HasEdit.
LEMMA EditsAre ==
    EditsAreNeverLost <=>
        (faults["targetEdit"] > 0 /\ LeasesHeld =>
            HasEdit(target) \/ \E r \in Requests : HasEdit(staging[r]))
  BY DEF EditsAreNeverLost, HasEdit

\* An edit moves with its folder, or stays.
LEMMA WorkerEdits ==
    ASSUME Types, Kinds, Knowledge, LeasesHeld, LeasesHeld',
           NEW w \in Workers, Process(w) \/ Execute(w),
           HasEdit(target) \/ \E r \in Requests : HasEdit(staging[r])
    PROVE  HasEdit(target') \/ \E r \in Requests : HasEdit(staging'[r])
<1>1. Frame(w) /\ Knows(w) /\ ~HasEdit(NoFolder)
  BY ProcessTypes, ExecuteTypes DEF Knowledge, HasEdit
<1>2. CASE HasEdit(target)
  <2>1. target # NoFolder
    BY <1>1, <1>2
  <2>2. CASE target' = target
    BY <1>2, <2>2
  <2>3. CASE target' # target
    <3>1. pc[w] = "quarantine" /\ staging'[job[w]] = target
      BY <2>1, <2>3, TargetSteps DEF Publish
    <3> QED
      BY <1>2, <3>1, OwnJob
  <2> QED
    BY <2>2, <2>3
<1>3. ASSUME NEW r \in Requests, HasEdit(staging[r])
      PROVE  HasEdit(target') \/ HasEdit(staging'[r])
  <2>1. CASE pc[w] = "idle" \/ r # job[w]
    <3>1. staging'[r] = staging[r]
      BY <1>1, <2>1, OwnJob DEF Frame, folders
    <3> QED
      BY <1>3, <3>1
  <2>2. CASE pc[w] # "idle" /\ r = job[w]
    <3>1. pc[w] \notin {"discard", "clean", "project", "copy"} /\ staging[r] # NoFolder
      BY <1>1, <1>3, <2>2 DEF Knows, Plain
    <3>2. staging'[r] = staging[r] \/ Publish(w)
      BY <2>2, <3>1, OwnFiles
    <3>3. Publish(w) => target' = staging[r]
      BY <2>2 DEF Publish
    <3> QED
      BY <1>3, <3>2, <3>3
  <2> QED
    BY <2>1, <2>2
<1> QED
  BY <1>2, <1>3

\* EditsAreNeverLost, for any instance: no rollback and no recovery deletes what a
\* user changed in the visible target.
THEOREM EditsSurvive == Spec => []EditsAreNeverLost
<1>1. Init => EditsAreNeverLost
  BY DEF Init, EditsAreNeverLost, FaultKinds
<1>2. ASSUME Types, Kinds, Knowledge, EditsAreNeverLost, [Next]_vars PROVE EditsAreNeverLost'
  <2> SUFFICES ASSUME LeasesHeld', faults'["targetEdit"] > 0
               PROVE  HasEdit(target') \/ \E r \in Requests : HasEdit(staging'[r])
    BY DEF EditsAreNeverLost, HasEdit
  <2>1. CASE \E w \in Workers : Process(w) \/ Execute(w)
    <3>1. PICK w \in Workers : Process(w) \/ Execute(w)
      BY <2>1
    <3>2. LeasesHeld /\ faults["targetEdit"] > 0
      BY <1>2, <3>1, ProcessTypes, ExecuteTypes, WorkerFaults DEF Frame
    <3>3. HasEdit(target) \/ \E r \in Requests : HasEdit(staging[r])
      BY <1>2, <3>2, EditsAre
    <3> QED
      BY <1>2, <3>1, <3>2, <3>3, WorkerEdits
  <2>2. CASE Environment
    <3>1. staging' = staging /\ LeasesHeld
      BY <1>2, <2>2, EnvironmentFrame
    <3>2. \/ target' = target /\ faults["targetEdit"] # 0
          \/ HasEdit(target')
      BY <1>2, <2>2, EnvironmentTarget
    <3>3. faults["targetEdit"] # 0 => faults["targetEdit"] > 0
      BY <1>2 DEF Types, TypeOK, FaultKinds
    <3> QED
      BY <1>2, <3>1, <3>2, <3>3, EditsAre
  <2>3. CASE Terminated \/ UNCHANGED vars
    BY <1>2, <2>3, EditsAre DEF Terminated, vars, folders, world, LeasesHeld
  <2> QED
    BY <1>2, <2>1, <2>2, <2>3 DEF Next
<1> QED
  BY <1>1, <1>2, TypesInvariant, KindsInvariant, KnowledgeInvariant, PTL DEF Spec

-----------------------------------------------------------------------------
(* The lease of a request, as it is promised                                *)

\* The claims on the lease of one request.
ClaimOn(r) == [w \in Workers |-> IF job[w] = r THEN claim[w] ELSE "none"]

Claims(r) == INSTANCE FencedClaim WITH claim <- ClaimOn(r)

\* Which steps of a job touch a claim.
LEMMA ClaimSteps ==
    ASSUME NEW w \in Workers, Process(w) \/ Execute(w), ~Release(w),
           \A r \in Requests : ~Take(w, r)
    PROVE  UNCHANGED owner
  BY DEF Process, Execute, CheckTerminal, Postpone, Recover, Inspect, RecoverLock,
     RecoverCheck, RecoverRename, Finish, Cleanup, Unlink, Sweep, ReportCheck, ReportWrite, Begin,
     SnapshotSource, CopyProject, CopyFile, CopyFails, Verify, Fingerprint, WriteJournal,
     PublishCheck, Rename, CommitCheck, CommitWrite, WriteFails, Quarantine, VerifyQuarantine,
     Finally, Rmtree, RmtreeFile, RmtreeDone, RmtreeFails, Unlock, FinalCheck, FinalWrite

LEMMA TakeClaims ==
    ASSUME Types, NEW w \in Workers, NEW q \in Requests, Take(w, q), NEW r \in Requests
    PROVE  [Claims(r)!Next]_(ClaimOn(r))
<1>1. /\ job \in [Workers -> Requests \cup {NoRequest}] /\ job' = [job EXCEPT ![w] = q]
      /\ claim \in [Workers -> {"none", "valid", "lost"}]
      /\ claim' = [claim EXCEPT ![w] = "valid"] /\ claim[w] = "none"
      /\ \A v \in Workers : job[v] = q => claim[v] # "valid"
  BY DEF Take, At, Types, TypeOK, PhasesFollow, Follows
<1>2. CASE r = q
  <2>1. ClaimOn(r)' = [ClaimOn(r) EXCEPT ![w] = "valid"]
    BY <1>1, <1>2 DEF ClaimOn
  <2>2. ClaimOn(r)[w] = "none" /\ \A v \in Workers : ClaimOn(r)[v] # "valid"
    BY <1>1, <1>2 DEF ClaimOn
  <2> QED
    BY <2>1, <2>2 DEF Claims!Next, Claims!Enter
<1>3. CASE r # q
  <2>1. ClaimOn(r)' = ClaimOn(r)
    BY <1>1, <1>3 DEF ClaimOn
  <2> QED
    BY <2>1
<1> QED
  BY <1>2, <1>3

LEMMA LeaveClaims ==
    ASSUME Types, NEW w \in Workers, pc[w] # "idle", job' = [job EXCEPT ![w] = NoRequest],
           claim' = [claim EXCEPT ![w] = "none"], NEW r \in Requests
    PROVE  [Claims(r)!Next]_(ClaimOn(r))
<1>1. /\ job \in [Workers -> Requests \cup {NoRequest}] /\ claim[w] # "none"
      /\ claim \in [Workers -> {"none", "valid", "lost"}] /\ r # NoRequest
  BY NamesAssumption DEF Types, TypeOK, PhasesFollow, Follows
<1>2. CASE job[w] = r
  <2>1. ClaimOn(r)' = [ClaimOn(r) EXCEPT ![w] = "none"] /\ ClaimOn(r)[w] # "none"
    BY <1>1, <1>2 DEF ClaimOn
  <2> QED
    BY <2>1 DEF Claims!Next, Claims!Leave
<1>3. CASE job[w] # r
  <2>1. ClaimOn(r)' = ClaimOn(r)
    BY <1>1, <1>3 DEF ClaimOn
  <2> QED
    BY <2>1
<1> QED
  BY <1>2, <1>3

LEMMA DisplaceClaims ==
    ASSUME Types, NEW w \in Workers, Displace(w), NEW r \in Requests
    PROVE  [Claims(r)!Next]_(ClaimOn(r))
<1>1. /\ job' = job /\ claim[w] = "valid" /\ claim' = [claim EXCEPT ![w] = "lost"]
      /\ claim \in [Workers -> {"none", "valid", "lost"}]
  BY DEF Displace, Types, TypeOK
<1>2. CASE job[w] = r
  <2>1. ClaimOn(r)' = [ClaimOn(r) EXCEPT ![w] = "lost"] /\ ClaimOn(r)[w] = "valid"
    BY <1>1, <1>2 DEF ClaimOn
  <2> QED
    BY <2>1 DEF Claims!Next, Claims!Displace
<1>3. CASE job[w] # r
  <2>1. ClaimOn(r)' = ClaimOn(r)
    BY <1>1, <1>3 DEF ClaimOn
  <2> QED
    BY <2>1
<1> QED
  BY <1>2, <1>3

LEMMA StepClaims ==
    ASSUME Types, [Next]_vars, NEW r \in Requests
    PROVE  [Claims(r)!Next]_(ClaimOn(r))
<1>1. CASE UNCHANGED owner
  BY <1>1 DEF owner, ClaimOn
<1>2. ASSUME NEW w \in Workers, Process(w) \/ Execute(w)
      PROVE  [Claims(r)!Next]_(ClaimOn(r))
  <2>1. Release(w) => pc[w] # "idle" /\ job' = [job EXCEPT ![w] = NoRequest]
                      /\ claim' = [claim EXCEPT ![w] = "none"]
    BY DEF Release, At
  <2> QED
    BY <1>1, <1>2, <2>1, TakeClaims, LeaveClaims, ClaimSteps
<1>3. ASSUME NEW w \in Workers, Crash(w) PROVE [Claims(r)!Next]_(ClaimOn(r))
  BY <1>3, LeaveClaims DEF Crash
<1>4. ASSUME Environment, \A w \in Workers : ~Displace(w) /\ ~Crash(w)
      PROVE  UNCHANGED owner
  BY <1>4 DEF Environment, AskCancel, MarkCancel, EditSource, EditTarget
<1> QED
  BY <1>1, <1>2, <1>3, <1>4, DisplaceClaims DEF Next, Environment, Terminated, vars

\* A duplication uses the lease of its request as FencedClaim promises it and
\* EngineJobLease implements it: each request has one valid claim at most, however
\* its workers take, lose and leave it.
THEOREM DuplicationUsesFencedClaim ==
    ASSUME NEW r \in Requests
    PROVE  Spec => Claims(r)!Spec
<1>1. Init => Claims(r)!Init
  BY DEF Init, ClaimOn, Claims!Init
<1>2. Types /\ [Next]_vars => [Claims(r)!Next]_(ClaimOn(r))
  BY StepClaims
<1> QED
  BY <1>1, <1>2, TypesInvariant, PTL DEF Spec, Claims!Spec
=============================================================================
