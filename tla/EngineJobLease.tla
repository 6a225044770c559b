--------------------------- MODULE EngineJobLease ---------------------------
(***************************************************************************)
(* The lease of arcrho_engine_job_lease.py: one exclusively created file   *)
(* on a shared folder, renewed by touching its modification time, removed  *)
(* by its owner and taken over by others when it has become stale.  One    *)
(* action is one file-system call, so that calls of different workers      *)
(* interleave.                                                             *)
(*                                                                         *)
(* Time is abstracted to one bit: a file is stale or it is not.  The file  *)
(* may become stale whenever nobody touches it for long enough, whether    *)
(* its owner is dead, paused or cut off from the share.                    *)
(***************************************************************************)
EXTENDS Naturals

CONSTANTS
    Workers,     \* Engine processes that share the folder
    CrashProne,  \* those that may die at any time and come back later
    Tokens,      \* uuid4 owner tokens
    NoToken      \* "no file" and "no lease held"

ASSUME WorkersAssumption == CrashProne \subseteq Workers
ASSUME TokensAssumption == NoToken \notin Tokens

VARIABLES
    fileToken,    \* owner token of the lease file, NoToken when there is none
    fileWritten,  \* the JSON payload has reached the file
    fileStale,    \* its age exceeds stale_seconds
    pc,           \* where each worker is in acquire / hold / release
    attempt,      \* the loop index of acquire_engine_job_lease
    token,        \* the token of the lease a worker holds or is creating
    failed,       \* the heartbeat_failed latch of that lease
    beating,      \* the heartbeat thread of that lease runs
    touching,     \* workers whose heartbeat is between its read and its utime
    slow,         \* history: tokens whose file has been stale
    raced         \* history: tokens created while another worker was about to
                  \* rename or unlink the path on the strength of an older look

fileVars == <<fileToken, fileWritten, fileStale>>
beatVars == <<failed, beating, touching>>
history == <<slow, raced>>
vars == <<fileVars, pc, attempt, token, beatVars, history>>

Phases == {"idle", "open", "write", "stat", "rename", "held", "unlink"}

TypeOK ==
    /\ fileToken \in Tokens \cup {NoToken}
    /\ fileWritten \in BOOLEAN
    /\ fileStale \in BOOLEAN
    /\ pc \in [Workers -> Phases]
    /\ attempt \in [Workers -> {0, 1}]
    /\ token \in [Workers -> Tokens \cup {NoToken}]
    /\ failed \in [Workers -> BOOLEAN]
    /\ beating \in [Workers -> BOOLEAN]
    /\ touching \in SUBSET Workers
    /\ slow \in SUBSET Tokens
    /\ raced \in SUBSET Tokens

Init ==
    /\ fileToken = NoToken /\ fileWritten = FALSE /\ fileStale = FALSE
    /\ pc = [w \in Workers |-> "idle"]
    /\ attempt = [w \in Workers |-> 0]
    /\ token = [w \in Workers |-> NoToken]
    /\ failed = [w \in Workers |-> FALSE]
    /\ beating = [w \in Workers |-> FALSE]
    /\ touching = {}
    /\ slow = {} /\ raced = {}

-----------------------------------------------------------------------------
(* Reading the file.                                                       *)

FileExists == fileToken # NoToken

\* engine_job_lease_is_owned: an empty or foreign file is not mine.
Owned(w) == FileExists /\ fileWritten /\ fileToken = token[w]

\* The history is kept for these: uuid4 never repeats a token, so a token no
\* worker refers to any more stands for a fresh one.
LiveTokens == {token[v] : v \in Workers}

\* A worker on its way to remove the path because of what it read earlier.
Removing(w) == pc[w] \in {"rename", "unlink"}

Goto(w, phase) == pc' = [pc EXCEPT ![w] = phase]

\* Broken: the loop has no end.
NextAttemptUnbounded(w) ==
    /\ Goto(w, "open")
    /\ attempt' = [attempt EXCEPT ![w] = @ + 1]

\* acquire returns None, or the next attempt of its two.
NextAttempt(w) ==
    IF attempt[w] = 0
    THEN /\ Goto(w, "open")
         /\ attempt' = [attempt EXCEPT ![w] = 1]
    ELSE /\ Goto(w, "idle")
         /\ UNCHANGED attempt

-----------------------------------------------------------------------------
(* acquire_engine_job_lease                                                *)

StartAcquire(w) ==
    /\ pc[w] = "idle" /\ w \notin touching
    /\ Goto(w, "open")
    /\ attempt' = [attempt EXCEPT ![w] = 0]
    /\ UNCHANGED <<fileVars, token, beatVars, history>>

\* Broken: open("w") truncates a lease that exists.
CreateOverwriting(w) ==
    /\ pc[w] = "open"
    /\ \E t \in Tokens \ LiveTokens :
        /\ fileToken' = t
        /\ token' = [token EXCEPT ![w] = t]
    /\ fileWritten' = FALSE /\ fileStale' = FALSE
    /\ Goto(w, "write")
    /\ UNCHANGED <<attempt, beatVars, history>>

\* open("x") creates the file: it exists for everyone, still empty.
Create(w) ==
    /\ pc[w] = "open" /\ ~FileExists
    /\ \E t \in Tokens :
        /\ t \notin LiveTokens
        /\ fileToken' = t
        /\ token' = [token EXCEPT ![w] = t]
        /\ raced' = (raced \cap LiveTokens) \cup
                    (IF \E v \in Workers : Removing(v) THEN {t} ELSE {})
    /\ slow' = slow \cap LiveTokens
    /\ fileWritten' = FALSE /\ fileStale' = FALSE
    /\ Goto(w, "write")
    /\ UNCHANGED <<attempt, beatVars>>

\* FileExistsError
OpenExists(w) ==
    /\ pc[w] = "open" /\ FileExists
    /\ Goto(w, "stat")
    /\ UNCHANGED <<fileVars, attempt, token, beatVars, history>>

\* Broken: the payload is written to the path instead of the open handle.
WriteByPath(w) ==
    /\ pc[w] = "write"
    /\ fileToken' = token[w]
    /\ fileWritten' = TRUE
    /\ Goto(w, "held")
    /\ failed' = [failed EXCEPT ![w] = FALSE]
    /\ beating' = [beating EXCEPT ![w] = TRUE]
    /\ UNCHANGED <<fileStale, attempt, token, touching, history>>

\* The payload goes to the open handle: to nobody if the path was renamed.
\* The consumer then starts the heartbeat of the lease it was given.
Write(w) ==
    /\ pc[w] = "write"
    /\ fileWritten' = (fileWritten \/ fileToken = token[w])
    /\ Goto(w, "held")
    /\ failed' = [failed EXCEPT ![w] = FALSE]
    /\ beating' = [beating EXCEPT ![w] = TRUE]
    /\ UNCHANGED <<fileToken, fileStale, attempt, token, touching, history>>

\* Writing raises: the exception leaves acquire and the empty file stays.
WriteFails(w) ==
    /\ pc[w] = "write"
    /\ Goto(w, "idle")
    /\ token' = [token EXCEPT ![w] = NoToken]
    /\ UNCHANGED <<fileVars, attempt, beatVars, history>>

StatGone(w) ==
    /\ pc[w] = "stat" /\ ~FileExists
    /\ NextAttempt(w)
    /\ UNCHANGED <<fileVars, token, beatVars, history>>

StatLive(w) ==
    /\ pc[w] = "stat" /\ FileExists /\ ~fileStale
    /\ Goto(w, "idle")
    /\ UNCHANGED <<fileVars, attempt, token, beatVars, history>>

\* Broken: the age is not compared with stale_seconds.
StatAnyAge(w) ==
    /\ pc[w] = "stat" /\ FileExists
    /\ Goto(w, "rename")
    /\ UNCHANGED <<fileVars, attempt, token, beatVars, history>>

\* Broken: a stale lease is respected like a live one.
StatStaleRespected(w) ==
    /\ pc[w] = "stat" /\ FileExists /\ fileStale
    /\ Goto(w, "idle")
    /\ UNCHANGED <<fileVars, attempt, token, beatVars, history>>

StatStale(w) ==
    /\ pc[w] = "stat" /\ FileExists /\ fileStale
    /\ Goto(w, "rename")
    /\ UNCHANGED <<fileVars, attempt, token, beatVars, history>>

\* The rename moves whatever file the path names now; deleting the private
\* copy afterwards concerns nobody.  FileNotFoundError also retries.
Rename(w) ==
    /\ pc[w] = "rename"
    /\ fileToken' = NoToken /\ fileWritten' = FALSE /\ fileStale' = FALSE
    /\ NextAttempt(w)
    /\ UNCHANGED <<token, beatVars, history>>

\* Any other OSError, a sharing violation for instance.
RenameFails(w) ==
    /\ pc[w] = "rename" /\ FileExists
    /\ Goto(w, "idle")
    /\ UNCHANGED <<fileVars, attempt, token, beatVars, history>>

AcquireStep(w) ==
    \/ StartAcquire(w) \/ Create(w) \/ OpenExists(w) \/ Write(w)
    \/ WriteFails(w) \/ StatGone(w) \/ StatLive(w) \/ StatStale(w)
    \/ Rename(w) \/ RenameFails(w)

-----------------------------------------------------------------------------
(* The heartbeat thread                                                    *)

\* refresh_engine_job_lease read its own token and is about to call utime.
BeatOwned(w) ==
    /\ beating[w] /\ w \notin touching /\ Owned(w)
    /\ touching' = touching \cup {w}
    /\ UNCHANGED <<fileVars, pc, attempt, token, failed, beating, history>>

\* utime renews the path, whoever owns it by now.
BeatTouch(w) ==
    /\ w \in touching /\ FileExists
    /\ fileStale' = FALSE
    /\ touching' = touching \ {w}
    /\ UNCHANGED <<fileToken, fileWritten, pc, attempt, token, failed,
                   beating, history>>

\* Broken: the thread ends without latching heartbeat_failed.
BeatMissUnlatched(w) ==
    /\ beating[w] \/ w \in touching
    /\ touching' = touching \ {w}
    /\ beating' = [beating EXCEPT ![w] = FALSE]
    /\ UNCHANGED <<fileVars, pc, attempt, token, failed, history>>

\* The token is not mine, cannot be read, or utime fails: the first miss is
\* latched and the thread ends.  A thread whose lease was already released
\* latches an event nobody looks at any more.
BeatMiss(w) ==
    /\ beating[w] \/ w \in touching
    /\ touching' = touching \ {w}
    /\ failed' = [failed EXCEPT ![w] = (@ \/ beating[w])]
    /\ beating' = [beating EXCEPT ![w] = FALSE]
    /\ UNCHANGED <<fileVars, pc, attempt, token, history>>

BeatStep(w) == BeatOwned(w) \/ BeatTouch(w) \/ BeatMiss(w)

-----------------------------------------------------------------------------
(* release_engine_job_lease, after stop_engine_job_lease_heartbeat: the     *)
(* join may time out and leave the thread before its utime.                *)

\* Broken: release does not read the owner token.
ReleaseUnchecked(w) ==
    /\ pc[w] = "held" /\ ~failed[w]
    /\ Goto(w, "unlink")
    /\ beating' = [beating EXCEPT ![w] = FALSE]
    /\ UNCHANGED <<fileVars, attempt, token, failed, touching, history>>

ReleaseCheck(w) ==
    /\ pc[w] = "held" /\ ~failed[w] /\ Owned(w)
    /\ Goto(w, "unlink")
    /\ beating' = [beating EXCEPT ![w] = FALSE]
    /\ UNCHANGED <<fileVars, attempt, token, failed, touching, history>>

\* heartbeat_failed, a foreign token, or a token that could not be read.
ReleaseSkip(w) ==
    /\ pc[w] = "held"
    /\ Goto(w, "idle")
    /\ token' = [token EXCEPT ![w] = NoToken]
    /\ beating' = [beating EXCEPT ![w] = FALSE]
    /\ UNCHANGED <<fileVars, attempt, failed, touching, history>>

\* The unlink removes whatever file the path names now.
ReleaseUnlink(w) ==
    /\ pc[w] = "unlink"
    /\ fileToken' = NoToken /\ fileWritten' = FALSE /\ fileStale' = FALSE
    /\ Goto(w, "idle")
    /\ token' = [token EXCEPT ![w] = NoToken]
    /\ UNCHANGED <<attempt, beatVars, history>>

ReleaseUnlinkFails(w) ==
    /\ pc[w] = "unlink"
    /\ Goto(w, "idle")
    /\ token' = [token EXCEPT ![w] = NoToken]
    /\ UNCHANGED <<fileVars, attempt, beatVars, history>>

ReleaseStep(w) ==
    ReleaseCheck(w) \/ ReleaseSkip(w) \/ ReleaseUnlink(w) \/ ReleaseUnlinkFails(w)

-----------------------------------------------------------------------------
(* The environment                                                         *)

\* Nobody has touched the file for stale_seconds.
Age ==
    /\ FileExists /\ ~fileStale
    /\ fileStale' = TRUE
    /\ slow' = slow \cup {fileToken}
    /\ UNCHANGED <<fileToken, fileWritten, pc, attempt, token, beatVars, raced>>

\* The process dies with both its threads and is started again: only the
\* file survives.
Crash(w) ==
    /\ w \in CrashProne /\ (pc[w] # "idle" \/ w \in touching)
    /\ Goto(w, "idle")
    /\ token' = [token EXCEPT ![w] = NoToken]
    /\ beating' = [beating EXCEPT ![w] = FALSE]
    /\ touching' = touching \ {w}
    /\ UNCHANGED <<fileVars, attempt, failed, history>>

Next ==
    \/ Age
    \/ \E w \in Workers :
        AcquireStep(w) \/ BeatStep(w) \/ ReleaseStep(w) \/ Crash(w)

\* The file belongs to nobody who could still renew or remove it.
Abandoned(t) ==
    /\ t # NoToken /\ fileToken = t
    /\ \A w \in Workers : token[w] # t

\* A worker that stays up polls for the job and keeps its heartbeat thread
\* scheduled; its job may take for ever, but a latched loss ends it (the next
\* ownership check raises), and so does a release that has begun.  An unattended
\* file grows old.
Fairness ==
    /\ WF_vars(Age /\ Abandoned(fileToken))
    /\ \A w \in Workers :
        /\ WF_vars(BeatStep(w))
        /\ WF_vars(ReleaseStep(w) /\ (failed[w] \/ pc[w] = "unlink"))
    /\ \A w \in Workers \ CrashProne :
        /\ WF_vars(StartAcquire(w))
        /\ WF_vars(Create(w) \/ OpenExists(w))
        /\ WF_vars(Write(w) \/ WriteFails(w))
        /\ WF_vars(StatGone(w) \/ StatLive(w) \/ StatStale(w))
        /\ SF_vars(Rename(w))

Spec == Init /\ [][Next]_vars
FairSpec == Spec /\ Fairness

-----------------------------------------------------------------------------
(* Properties                                                              *)

Holding(w) == pc[w] = "held"

\* A worker that believes it holds the lease while the file says otherwise has
\* either let its own file grow stale, or created it while another worker was
\* between looking at an older file and removing the path: the "known residual
\* gap" of the module's docstring is the only way to lose a fresh lease.
DisplacementExplained ==
    \A w \in Workers :
        Holding(w) /\ fileToken # token[w] => token[w] \in slow \cup raced

\* As long as no lease has been stale and no creation has raced a removal,
\* two workers never hold the lease together.
ExclusionWhileFresh ==
    \A v, w \in Workers :
        Holding(v) /\ Holding(w) /\ v # w
            => \E u \in {v, w} : token[u] \in slow \cup raced

\* The unlink of a release removes another worker's file only if that file was
\* created inside the gap between the releaser's read and its unlink.
ReleaseRemovesOwn ==
    [][\A w \in Workers :
        /\ pc[w] = "unlink" /\ pc'[w] = "idle"
        /\ FileExists /\ ~FileExists'
        => fileToken = token[w] \/ fileToken \in raced]_vars

\* The file as a claim: what engine_job_lease_is_owned tells each holder.
Claim == [w \in Workers |->
    IF ~Holding(w) THEN "none" ELSE IF Owned(w) THEN "valid" ELSE "lost"]

Claims == INSTANCE FencedClaim WITH claim <- Claim

\* Every behaviour of the files is a behaviour of fenced claims: one valid
\* claim at a time, and a lost claim never becomes valid again.
ImplementsFencedClaim == Claims!Spec

\* A holder whose file is gone or foreign learns of it: its heartbeat latches
\* heartbeat_failed, or it gives up the lease first.
LossIsNoticed ==
    \A w \in Workers : Claim[w] = "lost" ~> failed[w] \/ ~Holding(w)

\* The file of a dead worker does not keep the job for ever: someone who stays
\* up removes it.
AbandonedIsTakenOver ==
    \A t \in Tokens : Abandoned(t) ~> ~Abandoned(t)

=============================================================================
