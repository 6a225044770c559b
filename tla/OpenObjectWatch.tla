-------------------------- MODULE OpenObjectWatch --------------------------
(***************************************************************************)
(* The change watch of an open dataset window (object_change_watch.js,     *)
(* wired by dataset_viewer_main.js): it polls a stat fingerprint of the    *)
(* object and alerts once when somebody else has rewritten it.  The        *)
(* window's own saves and the dependent-propagation jobs that this         *)
(* application started pause the watch and rebase it afterwards.           *)
(*                                                                         *)
(* The object is the sequence of its writes: version v was written by      *)
(* author[v], and a later version has a later recorded time.  A            *)
(* fingerprint is a version.  The client's cache of the share may answer a *)
(* stat with an older version for a while, back and forth; the attribution *)
(* is read from the payload, which is current.  The model ends with the     *)
(* alert: it stops the timer, and the watch neither polls nor rebases again.*)
(***************************************************************************)
EXTENDS Integers, Sequences

CONSTANTS
    Saves,        \* saves that the window makes
    WalkJobs,     \* propagation jobs of this application that rewrite the object
    Outsider,     \* any other writer
    MaxOutside    \* bound: writes by others

Unknown == -1
Brackets == Saves \cup WalkJobs
Writers == Brackets \cup {Outsider}

ASSUME WritersAssumption == Saves \cap WalkJobs = {} /\ Outsider \notin Brackets

VARIABLES
    author,      \* who wrote each version, in order; version 0 was opened
    lags,        \* stat reads of this client may lag behind the share
    floor,       \* the oldest version that a stat may still report
    saving,      \* each save: idle, posted, landed, answered, done
    walk,        \* each job: the phase of its broadcasts, when it wrote
    pauses,      \* pauseDepth
    baseline,    \* baselineToken
    selfWriteAt, \* the newest version the watch knows the window has in view
    poll,        \* the poll in flight, if any
    rebasing,    \* rebases in flight; a resume takes its pause off at the end
    alert        \* what was alerted

shareVars == <<author, lags, floor>>
clientVars == <<saving, walk>>
watchVars == <<author, lags, floor, saving, walk, pauses, baseline,
               selfWriteAt, poll, rebasing, alert>>

newest == Len(author)
WriterOf(v) == IF v = 0 THEN Outsider ELSE author[v]
VersionOf(w) == CHOOSE v \in 1..newest : author[v] = w

IdlePoll == [phase |-> "idle", valid |-> FALSE, from |-> 0, token |-> 0]
NoAlert == [raised |-> FALSE, version |-> 0, read |-> FALSE]

WatchTypeOK ==
    LET Versions == 0..newest IN
    /\ author \in Seq(Writers)
    /\ lags \in BOOLEAN
    /\ floor \in Versions
    /\ saving \in [Saves -> {"idle", "posted", "landed", "answered", "done"}]
    /\ walk \in [WalkJobs -> [phase: {"idle", "queued", "started", "finished"},
                              wrote: {"no", "before", "during", "after"}]]
    /\ pauses \in Nat
    /\ baseline \in Versions \cup {Unknown}
    /\ selfWriteAt \in Versions
    /\ poll \in [phase: {"idle", "reading", "moved"}, valid: BOOLEAN,
                 from: Versions, token: Versions]
    /\ \A r \in rebasing : r \in [by: Brackets, ends: BOOLEAN, valid: BOOLEAN,
                                  from: Versions]
    /\ alert \in [raised: BOOLEAN, version: Versions, read: BOOLEAN]

\* The window has loaded version 0 and noted its time; the first poll takes
\* the baseline.
WatchInit ==
    /\ author = <<>>
    /\ lags \in BOOLEAN
    /\ floor = 0
    /\ saving = [s \in Saves |-> "idle"]
    /\ walk = [j \in WalkJobs |-> [phase |-> "idle", wrote |-> "no"]]
    /\ pauses = 0
    /\ baseline = Unknown
    /\ selfWriteAt = 0
    /\ poll = IdlePoll
    /\ rebasing = {}
    /\ alert = NoAlert

-----------------------------------------------------------------------------
(* The share *)

\* A version appears; where stats do not lag it is visible at once.
Writes(w) ==
    /\ author' = Append(author, w)
    /\ floor' = IF lags THEN floor ELSE newest + 1
    /\ UNCHANGED lags

OutsiderWrites ==
    /\ Len(SelectSeq(author, LAMBDA w : w = Outsider)) < MaxOutside
    /\ Writes(Outsider)
    /\ UNCHANGED <<clientVars, pauses, baseline, selfWriteAt, poll, rebasing, alert>>

\* The client's cached metadata expires.
StatCacheExpires ==
    /\ floor < newest
    /\ floor' = newest
    /\ UNCHANGED <<author, lags, clientVars, pauses, baseline, selfWriteAt, poll,
                   rebasing, alert>>

\* What a read begun when `from' was the oldest answer may return now.
Answers(from) == from..newest

-----------------------------------------------------------------------------
(* createObjectChangeWatch *)

\* rebase: a new generation, whose read replaces the baseline.  A read of a
\* generation before only ends the pause that waits for it, if there is one.
RebaseBegins(by, ends) ==
    /\ rebasing' = {[r EXCEPT !.valid = FALSE, !.from = newest] : r \in {q \in rebasing : q.ends}}
                   \cup {[by |-> by, ends |-> ends, valid |-> TRUE, from |-> floor]}
    /\ poll' = [poll EXCEPT !.valid = FALSE]

\* Broken: the pause ends at once and the rebase answers whenever it does.
ResumeBeginsUnpaused(by) == RebaseBegins(by, FALSE) /\ pauses' = pauses - 1

\* resume: rebase first, and take the pause off when the rebase has answered.
ResumeBegins(by) == RebaseBegins(by, TRUE) /\ UNCHANGED pauses

\* Broken: every rebase takes a pause off.
RebaseAnswersResuming(r, token) ==
    /\ token \in Answers(r.from) \cup {Unknown}
    /\ rebasing' = rebasing \ {r}
    /\ baseline' = IF r.valid THEN token ELSE baseline
    /\ pauses' = pauses - 1
    /\ UNCHANGED <<shareVars, clientVars, selfWriteAt, poll, alert>>

RebaseAnswers(r, token) ==
    /\ token \in Answers(r.from) \cup {Unknown}
    /\ rebasing' = rebasing \ {r}
    /\ baseline' = IF r.valid THEN token ELSE baseline
    /\ pauses' = IF r.ends THEN pauses - 1 ELSE pauses
    /\ UNCHANGED <<shareVars, clientVars, selfWriteAt, poll, alert>>

NoteSelfWrite(v) == selfWriteAt' = IF v > selfWriteAt THEN v ELSE selfWriteAt

PollBegins ==
    /\ pauses = 0 /\ poll.phase = "idle"
    /\ poll' = [phase |-> "reading", valid |-> TRUE, from |-> floor, token |-> 0]
    /\ UNCHANGED <<shareVars, clientVars, pauses, baseline, selfWriteAt, rebasing, alert>>

\* Broken: a pause is only looked at before the poll.
PollCountsUnlooked == TRUE

\* The result of a poll is dropped when the watch was paused or rebased
\* while it was in flight.
PollCounts == pauses = 0 /\ poll.valid

PollReads(token) ==
    /\ poll.phase = "reading"
    /\ token \in Answers(poll.from)
    /\ IF PollCounts /\ baseline # Unknown /\ token # baseline
       THEN /\ poll' = [phase |-> "moved", valid |-> poll.valid, from |-> newest, token |-> token]
            /\ UNCHANGED baseline
       ELSE /\ poll' = IdlePoll
            /\ baseline' = IF PollCounts /\ baseline = Unknown THEN token ELSE baseline
    /\ UNCHANGED <<shareVars, clientVars, pauses, selfWriteAt, rebasing, alert>>

PollFails ==
    /\ poll.phase = "reading"
    /\ poll' = IdlePoll
    /\ UNCHANGED <<shareVars, clientVars, pauses, baseline, selfWriteAt, rebasing, alert>>

\* Broken: the stamp of the window's own write is not compared.
IsOwnWriteNever(v, read) == FALSE

\* isOwnWriteArrivingLate; an unreadable attribution proves nothing.
IsOwnWriteArrivingLate(v, read) == read /\ v <= selfWriteAt

PollAttributes(v, read) ==
    /\ poll.phase = "moved"
    /\ v \in Answers(poll.from)
    /\ poll' = IdlePoll
    /\ IF ~PollCounts THEN UNCHANGED <<baseline, alert>>
       ELSE IF IsOwnWriteArrivingLate(v, read)
       THEN baseline' = poll.token /\ UNCHANGED alert
       ELSE /\ alert' = [raised |-> TRUE, version |-> v, read |-> read]
            /\ UNCHANGED baseline
    /\ UNCHANGED <<shareVars, clientVars, pauses, selfWriteAt, rebasing>>

-----------------------------------------------------------------------------
(* The window's own saves (data_tab_persistence_controller.js) *)

SaveBegins(s) ==
    /\ saving[s] = "idle"
    /\ \A other \in Saves : saving[other] \in {"idle", "done"}
    /\ saving' = [saving EXCEPT ![s] = "posted"]
    /\ pauses' = pauses + 1
    /\ UNCHANGED <<shareVars, walk, baseline, selfWriteAt, poll, rebasing, alert>>

SaveLands(s) ==
    /\ saving[s] = "posted"
    /\ Writes(s)
    /\ saving' = [saving EXCEPT ![s] = "landed"]
    /\ UNCHANGED <<walk, pauses, baseline, selfWriteAt, poll, rebasing, alert>>

\* Broken: only a successful answer ends the pause.
SaveAnsweredResumingOnSuccess(s) ==
    /\ saving[s] \in {"posted", "landed"}
    /\ saving' = [saving EXCEPT ![s] = IF saving[s] = "landed" THEN "answered" ELSE "done"]
    /\ IF saving[s] = "landed" THEN ResumeBegins(s) ELSE UNCHANGED <<pauses, rebasing, poll>>
    /\ UNCHANGED <<shareVars, walk, baseline, selfWriteAt, alert>>

\* withDataTabDatasetMutation ends with the response, successful or not.
SaveAnswered(s) ==
    /\ saving[s] \in {"posted", "landed"}
    /\ saving' = [saving EXCEPT ![s] = IF saving[s] = "landed" THEN "answered" ELSE "done"]
    /\ ResumeBegins(s)
    /\ UNCHANGED <<shareVars, walk, baseline, selfWriteAt, alert>>

\* Only after the dependent walk has been tracked is the write's time noted.
SaveNoted(s) ==
    /\ saving[s] = "answered"
    /\ saving' = [saving EXCEPT ![s] = "done"]
    /\ NoteSelfWrite(VersionOf(s))
    /\ RebaseBegins(s, FALSE)
    /\ UNCHANGED <<shareVars, walk, pauses, baseline, alert>>

-----------------------------------------------------------------------------
(* Jobs of this application: deferDependencyClearUntilPropagation broadcasts *)
(* the start and the terminal status, wireSamePropagationScopePause listens  *)

WalkQueued(j) ==
    /\ walk[j].phase = "idle"
    /\ walk' = [walk EXCEPT ![j].phase = "queued"]
    /\ UNCHANGED <<shareVars, saving, pauses, baseline, selfWriteAt, poll, rebasing, alert>>

WalkStarted(j) ==
    /\ walk[j].phase = "queued"
    /\ walk' = [walk EXCEPT ![j].phase = "started"]
    /\ pauses' = pauses + 1
    /\ UNCHANGED <<shareVars, saving, baseline, selfWriteAt, poll, rebasing, alert>>

WalkWrites(j) ==
    /\ walk[j].phase # "idle" /\ walk[j].wrote = "no"
    /\ Writes(j)
    /\ walk' = [walk EXCEPT ![j].wrote =
           CASE walk[j].phase = "queued" -> "before"
             [] walk[j].phase = "started" -> "during"
             [] walk[j].phase = "finished" -> "after"]
    /\ UNCHANGED <<saving, pauses, baseline, selfWriteAt, poll, rebasing, alert>>

\* releaseJob: a terminal status, a poller that gave up, or the failsafe timer.
WalkFinished(j) ==
    /\ walk[j].phase = "started"
    /\ walk' = [walk EXCEPT ![j].phase = "finished"]
    /\ ResumeBegins(j)
    /\ UNCHANGED <<shareVars, saving, baseline, selfWriteAt, alert>>

-----------------------------------------------------------------------------
WatchNext ==
    /\ ~alert.raised
    /\ \/ OutsiderWrites
       \/ StatCacheExpires
       \/ PollBegins
       \/ \E v \in 0..newest : PollReads(v)
       \/ PollFails
       \/ \E v \in 0..newest, read \in BOOLEAN : PollAttributes(v, read)
       \/ \E r \in rebasing, v \in (0..newest) \cup {Unknown} : RebaseAnswers(r, v)
       \/ \E s \in Saves : \/ SaveBegins(s)
                           \/ SaveLands(s)
                           \/ SaveAnswered(s)
                           \/ SaveNoted(s)
       \/ \E j \in WalkJobs : \/ WalkQueued(j)
                              \/ WalkStarted(j)
                              \/ WalkWrites(j)
                              \/ WalkFinished(j)

WatchSpec == WatchInit /\ [][WatchNext]_watchVars

-----------------------------------------------------------------------------
(* Properties *)

\* A change that the window or this application made is alerted only through
\* a stated gap.  An own save: its attribution could not be read, or a stat
\* lagged between the answer of the save and the note of its time.  A job: it
\* wrote outside its pause, a stat lagged, or a save of the window superseded
\* the rebase that was to end the job's pause.
OwnChangeAlertsOnlyInAGap ==
    [][~alert.raised /\ alert'.raised =>
        LET writer == WriterOf(alert'.version) IN
        /\ writer \in Saves => ~alert'.read \/ (lags /\ saving[writer] = "answered")
        /\ writer \in WalkJobs => \/ walk[writer].wrote # "during"
                                  \/ lags
                                  \/ \E s \in Saves : saving[s] = "done"]_watchVars

\* The watch is not left paused or blind: an outside change newer than the
\* baseline is alerted, unless a rebase takes it for the baseline.
OutsideChangeIsAlerted ==
    LET unseen == /\ WriterOf(newest) = Outsider
                  /\ baseline \in 0..(newest - 1)
    IN []<>(unseen => alert.raised)
=============================================================================
