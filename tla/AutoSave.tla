------------------------------ MODULE AutoSave ------------------------------
(***************************************************************************)
(* The auto-saving grids of Project Settings: the debounce and single-     *)
(* flight scheduler (project_settings_auto_save.js) with the two tables    *)
(* that use it.  The answer to a reserving-class-types save replaces the   *)
(* rows of the grid.  The answer to a dataset-types save leaves them; it   *)
(* may be a job of the Engine, which the page follows to its end and until *)
(* then sends no save.                                                     *)
(*                                                                         *)
(* A table is the set of the edits that it contains.                       *)
(***************************************************************************)
EXTENDS Naturals

CONSTANTS
    MaxEdits,     \* bound: edits made
    AnswerIsGrid  \* the answer replaces the grid (reserving class types)

ASSUME AutoSaveAssumption == MaxEdits \in Nat /\ AnswerIsGrid \in BOOLEAN

VARIABLES
    made,      \* edits made
    grid,      \* state.rows
    disk,      \* the file; whether a given-up save or a job wrote it last
    debounce,  \* the debounce timer of the project is set
    slot,      \* inFlight
    pending,   \* the project is in `pending'
    sent,      \* saves sent
    carried,   \* the edits that a sent save has carried
    saves,     \* saves that have not settled
    status,    \* what the status line says: saved, error, applied, a late answer
    changeJobs,  \* jobs that the page follows
    changeRuns,  \* runningChangeJobByProject has the project
    submission,  \* lastSubmissionByProject: the rows of the project's, or none
    skipped,     \* edits whose save was not sent because a job was running
    reread,      \* what the file has had since the page asked for it, or nothing
    strayWrites, \* what a save without an answer or an unfollowed job may write
    givenUp      \* edits that the page took out of the grid or left unsent

schedulerVars == <<made, debounce, slot, pending, sent, carried>>
jobVars == <<changeJobs, changeRuns, submission, skipped, reread, strayWrites, givenUp>>
autoSaveVars == <<made, grid, disk, debounce, slot, pending, sent, carried, saves, status,
                  changeJobs, changeRuns, submission, skipped, reread, strayWrites, givenUp>>

Edits == 1..MaxEdits

\* A save holds the slot until it is released, by its end or by the watchdog.
\* It is crossed when the table is read again while it runs.
Save == [id: Nat, rows: SUBSET Edits, landed: BOOLEAN, holds: BOOLEAN, crossed: BOOLEAN]

ChangeJob == [id: Nat, rows: SUBSET Edits, written: BOOLEAN]

AutoSaveTypeOK ==
    /\ made \in 0..MaxEdits
    /\ grid \subseteq Edits
    /\ disk \in [rows: SUBSET Edits, late: BOOLEAN]
    /\ debounce \in BOOLEAN /\ slot \in BOOLEAN /\ pending \in BOOLEAN
    /\ sent \in Nat /\ carried \subseteq Edits
    /\ saves \subseteq Save
    /\ status \in {"saved", "error", "applied", "late"}
    /\ changeJobs \subseteq ChangeJob /\ changeRuns \in BOOLEAN
    /\ submission \subseteq SUBSET Edits /\ reread \subseteq SUBSET Edits
    /\ strayWrites \subseteq SUBSET Edits
    /\ skipped \subseteq Edits /\ givenUp \subseteq Edits

AutoSaveInit ==
    /\ made = 0 /\ grid = {} /\ disk = [rows |-> {}, late |-> FALSE]
    /\ debounce = FALSE /\ slot = FALSE /\ pending = FALSE
    /\ sent = 0 /\ carried = {} /\ saves = {} /\ status = "saved"
    /\ changeJobs = {} /\ changeRuns = FALSE /\ submission = {} /\ skipped = {}
    /\ reread = {} /\ strayWrites = {} /\ givenUp = {}

\* An edit changes the grid and schedules a save of the project.  While a job
\* runs the editor refuses; an edit or an import that it let in before may come.
EditsTable ==
    /\ made < MaxEdits
    /\ made' = made + 1
    /\ grid' = grid \cup {made + 1}
    /\ debounce' = TRUE
    /\ UNCHANGED <<disk, slot, pending, sent, carried, saves, status, jobVars>>

\* trigger: an edit that comes during a save waits for the slot; otherwise the
\* save takes it and carries the rows of the grid as they are now.  While a
\* change job runs the save gives the slot back and sends nothing.
Trigger ==
    /\ debounce /\ debounce' = FALSE
    /\ \/ /\ slot /\ pending' = TRUE
          /\ UNCHANGED <<slot, sent, carried, saves, skipped>>
       \/ /\ ~slot /\ changeRuns
          /\ skipped' = skipped \cup (grid \ carried)
          /\ UNCHANGED <<slot, pending, sent, carried, saves>>
       \/ /\ ~slot /\ ~changeRuns
          /\ slot' = TRUE /\ sent' = sent + 1 /\ carried' = carried \cup grid
          /\ saves' = saves \cup {[id |-> sent + 1, rows |-> grid, landed |-> FALSE,
                                    holds |-> TRUE, crossed |-> FALSE]}
          /\ UNCHANGED <<pending, skipped>>
    /\ UNCHANGED <<made, grid, disk, status, changeJobs, changeRuns, submission, reread,
                   strayWrites, givenUp>>

\* The file is written; a table that is being read may have these rows or older.
WritesFile(rows, late) ==
    /\ disk' = [rows |-> rows, late |-> late]
    /\ reread' = IF reread = {} THEN {} ELSE reread \cup {rows}

\* The server writes the table, however late.
SaveWritten(s) ==
    /\ ~s.landed
    /\ WritesFile(s.rows, ~s.holds)
    /\ saves' = (saves \ {s}) \cup {[s EXCEPT !.landed = TRUE]}
    /\ UNCHANGED <<grid, schedulerVars, status, changeJobs, changeRuns, submission, skipped,
                   strayWrites, givenUp>>

\* Broken: release does not remember that it was called.
ReleaseAgain(s) ==
    /\ slot' = FALSE /\ pending' = FALSE
    /\ debounce' = (debounce \/ pending)

\* Broken: the pending edits are forgotten.
ReleaseOnly(s) ==
    /\ pending' = FALSE
    /\ slot' = IF s.holds THEN FALSE ELSE slot
    /\ UNCHANGED debounce

\* release: once per save; pending edits are scheduled for a save of their own.
Release(s) ==
    IF s.holds
    THEN slot' = FALSE /\ pending' = FALSE /\ debounce' = (debounce \/ pending)
    ELSE UNCHANGED <<slot, pending, debounce>>

SaveReturned(s) ==
    /\ s.landed
    /\ saves' = saves \ {s}
    /\ grid' = IF AnswerIsGrid THEN s.rows ELSE grid
    /\ givenUp' = givenUp \cup (grid \ grid')
    /\ status' = IF s.holds /\ ~s.crossed THEN "saved" ELSE "late"
    /\ submission' = {}
    /\ Release(s)
    /\ UNCHANGED <<made, disk, sent, carried, changeJobs, changeRuns, skipped, reread,
                   strayWrites>>

\* An error answer, or none: what was sent may have been written, or may be yet,
\* and its rows are remembered for a retry.
SaveRejected(s, answered) ==
    /\ saves' = saves \ {s}
    /\ status' = "error"
    /\ submission' = IF answered THEN {} ELSE {s.rows}
    /\ strayWrites' = IF answered \/ s.landed THEN strayWrites
                                            ELSE strayWrites \cup {s.rows}
    /\ Release(s)
    /\ UNCHANGED <<made, grid, disk, sent, carried, changeJobs, changeRuns, skipped, reread,
                   givenUp>>

\* Broken: the watchdog reports and leaves the slot to the save.
SaveStalledKept(s) ==
    /\ s.holds
    /\ status' = "error"
    /\ UNCHANGED <<schedulerVars, grid, disk, saves, jobVars>>

\* The watchdog: the save is reported as stalled and gives up the slot.
SaveStalled(s) ==
    /\ s.holds
    /\ saves' = (saves \ {s}) \cup {[s EXCEPT !.holds = FALSE]}
    /\ status' = "error"
    /\ Release(s)
    /\ UNCHANGED <<made, grid, disk, sent, carried, jobVars>>

-----------------------------------------------------------------------------
(* Change jobs of the dataset types table *)

\* The answer is a job: the slot is given back and the page follows the job.
SaveBecomesJob(s) ==
    /\ ~AnswerIsGrid /\ ~s.landed
    /\ saves' = saves \ {s}
    /\ changeJobs' = changeJobs \cup {[id |-> s.id, rows |-> s.rows, written |-> FALSE]}
    /\ changeRuns' = TRUE /\ submission' = {s.rows} /\ status' = "applied"
    /\ Release(s)
    /\ UNCHANGED <<made, grid, disk, sent, carried, skipped, reread, strayWrites, givenUp>>

JobWritten(j) ==
    /\ ~j.written
    /\ WritesFile(j.rows, TRUE)
    /\ changeJobs' = (changeJobs \ {j}) \cup {[j EXCEPT !.written = TRUE]}
    /\ UNCHANGED <<grid, schedulerVars, saves, status, changeRuns, submission, skipped,
                   strayWrites, givenUp>>

\* editedWhileSubmitting: the grid is not what was submitted.
EditedWhileSubmitting == submission # {} /\ submission # {grid}

\* Broken: later edits are reported and not scheduled.
LeavesLaterEdits == UNCHANGED debounce

SchedulesLaterEdits == debounce' = TRUE

\* Success: later edits are scheduled, otherwise the table is read again.
JobSucceeds(j) ==
    /\ j.written
    /\ changeJobs' = changeJobs \ {j} /\ changeRuns' = FALSE
    /\ submission' = {} /\ status' = "applied"
    /\ \/ /\ EditedWhileSubmitting
          /\ SchedulesLaterEdits /\ skipped' = {}
          /\ UNCHANGED reread
       \/ /\ ~EditedWhileSubmitting
          /\ reread' = reread \cup {disk.rows}
          /\ UNCHANGED <<debounce, skipped>>
    /\ UNCHANGED <<made, grid, disk, slot, pending, sent, carried, saves, strayWrites, givenUp>>

\* Failure, or a status that cannot be read any more, in which case the job may
\* still write: nothing is scheduled, the next save is the user's decision.
JobFails(j, decided) ==
    /\ changeJobs' = changeJobs \ {j} /\ changeRuns' = FALSE
    /\ submission' = IF decided THEN {} ELSE submission
    /\ strayWrites' = IF decided \/ j.written THEN strayWrites
                                            ELSE strayWrites \cup {j.rows}
    /\ status' = "error"
    /\ givenUp' = givenUp \cup skipped /\ skipped' = {}
    /\ UNCHANGED <<grid, disk, schedulerVars, saves, reread>>

\* The table that was read replaces the grid; one that was not read empties it.
TableReread ==
    /\ reread # {} /\ reread' = {}
    /\ \E rows \in reread \cup {{}} :
          /\ grid' = rows
          /\ givenUp' = givenUp \cup ((grid \cup skipped) \ rows)
    /\ skipped' = {} /\ status' = "applied"
    /\ saves' = {[s EXCEPT !.crossed = TRUE] : s \in saves}
    /\ UNCHANGED <<disk, schedulerVars, changeJobs, changeRuns, submission, strayWrites>>

\* What nobody waits for any more is written after all.
StrayWritten(rows) ==
    /\ WritesFile(rows, TRUE)
    /\ strayWrites' = strayWrites \ {rows}
    /\ UNCHANGED <<grid, schedulerVars, saves, status, changeJobs, changeRuns, submission,
                   skipped, givenUp>>

AutoSaveNext ==
    \/ EditsTable
    \/ Trigger
    \/ \E s \in saves : \/ SaveWritten(s)
                        \/ SaveReturned(s)
                        \/ \E answered \in BOOLEAN : SaveRejected(s, answered)
                        \/ SaveStalled(s)
                        \/ SaveBecomesJob(s)
    \/ \E j \in changeJobs : \/ JobWritten(j)
                             \/ JobSucceeds(j)
                             \/ \E decided \in BOOLEAN : JobFails(j, decided)
    \/ TableReread
    \/ \E rows \in strayWrites : StrayWritten(rows)

AutoSaveSpec == AutoSaveInit /\ [][AutoSaveNext]_autoSaveVars

-----------------------------------------------------------------------------
(* Properties *)

\* The slot is held by exactly one save or by none: a given-up save that
\* answers late does not release the slot of its successor.
SlotHasOneHolder ==
    /\ slot <=> \E s \in saves : s.holds
    /\ \A s, t \in saves : s.holds /\ t.holds => s = t

Idle == ~debounce /\ ~slot /\ ~changeRuns

\* When nothing is scheduled or running and the status line says saved, the
\* file has the grid, unless a given-up save or a job wrote it last.
SavedMeansSaved ==
    Idle /\ status = "saved" => disk.rows = grid \/ disk.late

\* Every edit is sent in the end: a hung save does not keep the slot, the edits
\* that waited for it or for a change job are scheduled again; all but those
\* that an answer or a table read again took out of the grid, and those that
\* waited for a job that failed.
EveryEditIsSent == []<>(1..made \subseteq carried \cup givenUp)

\* The promise of the scheduler to edits that arrive while a save is running:
\* they are still in the grid when they get a save of their own.
EditsStayInTheGrid == [][grid \subseteq grid']_autoSaveVars
=============================================================================
