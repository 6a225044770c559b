---------------------------- MODULE DatasetRuns ----------------------------
(***************************************************************************)
(* The run, load and patch pipeline of a dataset page                      *)
(* (dataset_run_controller.js) over the server's patch of the cached CSV   *)
(* (dataset_service.py).  The user changes the inputs while runs are in    *)
(* flight; results of other inputs are dropped, and grid edits are sent    *)
(* with the modification time of the file they were made on.               *)
(*                                                                         *)
(* Inputs are identified with the dataset they select; the file of a       *)
(* dataset is the number of times it was written.                          *)
(***************************************************************************)
EXTENDS Naturals

CONSTANTS
    Datasets,
    FirstInputs,  \* what the page opens with
    NoDataset,
    MaxEntries,   \* bound: times the user enters inputs
    MaxReloads,   \* bound: loads outside a run
    MaxWrites     \* bound: writes of each file

ASSUME FirstInputsAssumption == FirstInputs \in Datasets /\ NoDataset \notin Datasets
ASSUME DatasetBounds == MaxEntries \in Nat /\ MaxReloads \in Nat /\ MaxWrites \in Nat

VARIABLES
    entries,     \* times the user entered inputs
    reloads,     \* loads begun outside a run
    inputs,      \* what the input fields hold
    timer,       \* autoRunTimer is set
    lastAutoKey,
    run,         \* the run in flight: its phase and its inputs
    queued,      \* queuedRunOptions is set
    rerun,       \* the queued run waits for its zero timeout
    dsId,        \* config.DS_ID
    loads,       \* loads in flight: for the run, for a patch or a reload
    model,       \* state.model: the dataset in the grid
    fileMtime,   \* state.fileMtime: a dataset and its number of writes
    edits,       \* the dataset on whose grid the unsaved edits were made
    patch,       \* the patch in flight
    file,        \* the number of writes of each file
    missed       \* inputs whose run failed or was skipped since last shown

inputVars == <<entries, reloads, inputs>>
runVars == <<timer, lastAutoKey, run, queued, rerun>>
gridVars == <<model, fileMtime, edits>>
datasetRunVars == <<entries, reloads, inputs, timer, lastAutoKey, run, queued, rerun,
                    dsId, loads, model, fileMtime, edits, patch, file, missed>>

MaybeDataset == Datasets \cup {NoDataset}
NoRun == [phase |-> "none", inputs |-> NoDataset]
NoMtime == [of |-> NoDataset, writes |-> 0]
NoPatch == [phase |-> "none", edits |-> NoDataset, mtime |-> NoMtime, to |-> NoDataset]

Mtimes == [of: MaybeDataset, writes: 0..MaxWrites]
DatasetRunsTypeOK ==
    /\ entries \in 0..MaxEntries /\ reloads \in 0..MaxReloads /\ inputs \in Datasets
    /\ timer \in BOOLEAN /\ queued \in BOOLEAN /\ rerun \in BOOLEAN
    /\ lastAutoKey \in MaybeDataset
    /\ run \in [phase: {"none", "validating", "requested", "loading"}, inputs: MaybeDataset]
    /\ dsId \in MaybeDataset
    /\ \A l \in loads : l \in [by: {"run", "patch", "reload"}, latest: BOOLEAN,
                               dsId: Datasets, inputs: Datasets]
    /\ \A l, m \in loads : l.by = m.by => l = m
    /\ model \in MaybeDataset /\ fileMtime \in Mtimes
    /\ edits \in MaybeDataset
    /\ patch \in [phase: {"none", "sent", "answered", "loading"}, edits: MaybeDataset,
                  mtime: Mtimes, to: MaybeDataset]
    /\ file \in [Datasets -> 0..MaxWrites]
    /\ missed \subseteq Datasets

\* The page opens with inputs and its first run is scheduled; the dataset id is
\* the one that was kept from an earlier page, or none.
DatasetRunsInit ==
    /\ entries = 0 /\ reloads = 0 /\ inputs = FirstInputs
    /\ timer = TRUE /\ lastAutoKey = NoDataset
    /\ run = NoRun /\ queued = FALSE /\ rerun = FALSE
    /\ dsId \in MaybeDataset /\ loads = {}
    /\ model = NoDataset /\ fileMtime = NoMtime /\ edits = NoDataset
    /\ patch = NoPatch
    /\ file = [d \in Datasets |-> 0]
    /\ missed = {}

-----------------------------------------------------------------------------
(* The user and other writers *)

\* Inputs are entered; the fields schedule an automatic run.
Enters(d) ==
    /\ entries < MaxEntries
    /\ entries' = entries + 1 /\ inputs' = d /\ timer' = TRUE
    /\ UNCHANGED <<reloads, lastAutoKey, run, queued, rerun, dsId, loads, gridVars, patch,
                   file, missed>>

EditsGrid ==
    /\ model # NoDataset /\ edits = NoDataset
    /\ edits' = model
    /\ UNCHANGED <<inputVars, runVars, dsId, loads, model, fileMtime, patch, file, missed>>

\* Somebody else rewrites a file.
FileRewritten(d) ==
    /\ file[d] < MaxWrites
    /\ file' = [file EXCEPT ![d] = @ + 1]
    /\ UNCHANGED <<inputVars, runVars, dsId, loads, gridVars, patch, missed>>

-----------------------------------------------------------------------------
(* Runs *)

RunBegins == run' = [phase |-> "validating", inputs |-> inputs]

\* autoRun: the inputs of the last automatic run are not run again, whatever
\* the grid shows by now; a run in flight is waited for.
AutoRun ==
    /\ timer
    /\ \/ /\ inputs = lastAutoKey
          /\ timer' = FALSE
          /\ missed' = IF model = inputs THEN missed ELSE missed \cup {inputs}
          /\ UNCHANGED <<lastAutoKey, run>>
       \/ /\ inputs # lastAutoKey /\ run.phase = "none"
          /\ timer' = FALSE /\ lastAutoKey' = inputs /\ RunBegins
          /\ UNCHANGED missed
    /\ UNCHANGED <<inputVars, queued, rerun, dsId, loads, gridVars, patch, file>>

\* Run and Clear Cache are disabled while a run is in flight.
RunClicked ==
    /\ run.phase = "none" /\ entries < MaxEntries
    /\ entries' = entries + 1 /\ RunBegins
    /\ UNCHANGED <<reloads, inputs, timer, lastAutoKey, queued, rerun, dsId, loads, gridVars,
                   patch, file, missed>>

\* The zero timeout of a queued run; an automatic run may have come before it.
Rerun ==
    /\ rerun
    /\ rerun' = FALSE
    /\ IF run.phase = "none"
       THEN RunBegins /\ UNCHANGED <<queued, lastAutoKey>>
       ELSE queued' = TRUE /\ lastAutoKey' = NoDataset /\ UNCHANGED run
    /\ UNCHANGED <<inputVars, timer, dsId, loads, gridVars, patch, file, missed>>

\* Inputs are missed from a failed or skipped run until they are shown.
Missed(d, how) ==
    CASE how = "failed" -> missed \cup {d}
      [] how = "shown" -> missed \ {d}
      [] how \in {"queued", "dropped"} -> missed

\* Broken: the queued run is left for the next end of a run.
RunEndsKeepingQueue(queue, how) ==
    /\ run' = NoRun
    /\ queued' = (queued \/ queue)
    /\ UNCHANGED rerun
    /\ missed' = Missed(run.inputs, how)

\* The finally block: the run is over and a queued one is started next.
RunEnds(queue, how) ==
    /\ run' = NoRun
    /\ queued' = FALSE
    /\ rerun' = (rerun \/ queued \/ queue)
    /\ missed' = Missed(run.inputs, how)

RunIsCurrent == inputs = run.inputs

\* validateTriInputsBeforeRun has answered: invalid, stale, or the request goes.
RunValidated(valid) ==
    /\ run.phase = "validating"
    /\ IF valid /\ RunIsCurrent
       THEN /\ run' = [run EXCEPT !.phase = "requested"]
            /\ UNCHANGED <<lastAutoKey, queued, rerun, missed>>
       ELSE /\ lastAutoKey' = IF valid THEN NoDataset ELSE lastAutoKey
            /\ RunEnds(valid, IF valid THEN "queued" ELSE "failed")
    /\ UNCHANGED <<inputVars, timer, dsId, loads, gridVars, patch, file>>

\* A load begins: an earlier one is no longer the latest, and when nothing waits
\* for its answer it is forgotten.
Load(by, d) ==
    loads' = {[l EXCEPT !.latest = FALSE] : l \in {m \in loads : m.by # "reload"}}
             \cup {[by |-> by, latest |-> TRUE, dsId |-> d, inputs |-> inputs]}

\* The server answers the run.  Only inputs that are still current switch the
\* page to the dataset that was built; an error allows the same inputs again,
\* a request that throws does not.
RunAnswered(answer) ==
    /\ run.phase = "requested"
    /\ IF answer = "thrown"
       THEN RunEnds(FALSE, "failed") /\ UNCHANGED <<lastAutoKey, dsId, loads>>
       ELSE IF ~RunIsCurrent
       THEN RunEnds(TRUE, "queued") /\ lastAutoKey' = NoDataset /\ UNCHANGED <<dsId, loads>>
       ELSE IF answer = "error"
       THEN RunEnds(FALSE, "failed") /\ lastAutoKey' = NoDataset /\ UNCHANGED <<dsId, loads>>
       ELSE /\ run' = [run EXCEPT !.phase = "loading"]
            /\ dsId' = run.inputs
            /\ Load("run", run.inputs)
            /\ UNCHANGED <<lastAutoKey, queued, rerun, missed>>
    /\ UNCHANGED <<inputVars, timer, gridVars, patch, file>>

-----------------------------------------------------------------------------
(* Loads *)

\* Broken: a load is current whatever the inputs have become.
LoadIsLatest(l) == l.latest

LoadIsCurrent(l) == l.latest /\ l.dsId = dsId /\ l.inputs = inputs

\* Broken: the file time is taken before the stale check.
PaintedMtimeFirst(l, ok) ==
    IF ~LoadIsCurrent(l)
    THEN /\ fileMtime' = [of |-> l.dsId, writes |-> file[l.dsId]]
         /\ UNCHANGED <<model, edits>>
    ELSE IF ok
    THEN /\ model' = l.dsId
         /\ fileMtime' = [of |-> l.dsId, writes |-> file[l.dsId]]
         /\ edits' = NoDataset
    ELSE /\ model' = NoDataset /\ fileMtime' = NoMtime
         /\ UNCHANGED edits

\* A load that is still current replaces the grid, its file time and the
\* unsaved edits; one that failed empties the grid and keeps the edits.
Painted(l, ok) ==
    IF ~LoadIsCurrent(l) THEN UNCHANGED gridVars
    ELSE IF ok
    THEN /\ model' = l.dsId
         /\ fileMtime' = [of |-> l.dsId, writes |-> file[l.dsId]]
         /\ edits' = NoDataset
    ELSE /\ model' = NoDataset /\ fileMtime' = NoMtime
         /\ UNCHANGED edits

\* A load of the current dataset id outside a run: the Reload button, the news
\* that the dataset was recalculated, a preview that is cleared, an opened page.
Reload ==
    /\ dsId # NoDataset /\ reloads < MaxReloads
    /\ reloads' = reloads + 1
    /\ Load("reload", dsId)
    /\ UNCHANGED <<entries, inputs, runVars, dsId, gridVars, patch, file, missed>>

\* Only the load of a run ends a run, and only the load of a patch the patch.
\* Another dataset than that of the inputs shows that these were missed.
LoadAnswered(l, ok) ==
    LET how == IF ~LoadIsCurrent(l) THEN "dropped" ELSE IF ok THEN "shown" ELSE "failed" IN
    /\ Painted(l, ok)
    /\ loads' = loads \ {l}
    /\ IF l.by = "run"
       THEN RunEnds(FALSE, how) /\ UNCHANGED patch
       ELSE /\ patch' = IF l.by = "patch" THEN NoPatch ELSE patch
            /\ missed' = Missed(l.inputs, IF how = "shown" /\ l.dsId # l.inputs
                                          THEN "failed" ELSE how)
            /\ UNCHANGED <<run, queued, rerun>>
    /\ UNCHANGED <<inputVars, timer, lastAutoKey, dsId, file>>

-----------------------------------------------------------------------------
(* savePatch *)

PatchSent ==
    /\ patch.phase = "none" /\ edits # NoDataset /\ model # NoDataset
    /\ patch' = [phase |-> "sent", edits |-> edits, mtime |-> fileMtime, to |-> dsId]
    /\ UNCHANGED <<inputVars, runVars, dsId, loads, gridVars, file, missed>>

\* Broken: the server does not compare the times.
MtimeUnlooked == TRUE

\* patch_dataset: a file whose modification time is another one conflicts.
MtimeMatches == patch.mtime = [of |-> patch.to, writes |-> file[patch.to]]

PatchApplied ==
    /\ patch.phase = "sent" /\ MtimeMatches /\ file[patch.to] < MaxWrites
    /\ file' = [file EXCEPT ![patch.to] = @ + 1]
    /\ patch' = [patch EXCEPT !.phase = "answered"]
    /\ UNCHANGED <<inputVars, runVars, dsId, loads, gridVars, missed>>

\* A conflict, an unavailable Engine or a lost answer: the edits stay.
PatchRefused ==
    /\ patch.phase = "sent"
    /\ patch' = NoPatch
    /\ UNCHANGED <<inputVars, runVars, dsId, loads, gridVars, file, missed>>

\* Any other failure, and cells that are all rejected, are taken for a save.
PatchFailsUnseen ==
    /\ patch.phase = "sent"
    /\ patch' = [patch EXCEPT !.phase = "answered"]
    /\ UNCHANGED <<inputVars, runVars, dsId, loads, gridVars, file, missed>>

\* The saved dataset is loaded again.
PatchLoads ==
    /\ patch.phase = "answered"
    /\ patch' = [patch EXCEPT !.phase = "loading"]
    /\ Load("patch", dsId)
    /\ UNCHANGED <<inputVars, runVars, dsId, gridVars, file, missed>>

-----------------------------------------------------------------------------
RunProceeds ==
    \/ AutoRun
    \/ Rerun
    \/ \E valid \in BOOLEAN : RunValidated(valid)
    \/ \E answer \in {"ok", "error", "thrown"} : RunAnswered(answer)
    \/ \E l \in loads, ok \in BOOLEAN : LoadAnswered(l, ok)
    \/ PatchApplied
    \/ PatchRefused
    \/ PatchFailsUnseen
    \/ PatchLoads

DatasetRunsNext ==
    \/ RunProceeds
    \/ RunClicked
    \/ Reload
    \/ EditsGrid
    \/ PatchSent
    \/ \E d \in Datasets : Enters(d) \/ FileRewritten(d)

DatasetRunsSpec == DatasetRunsInit /\ [][DatasetRunsNext]_datasetRunVars

-----------------------------------------------------------------------------
(* Properties *)

RunsAreSettled ==
    ~timer /\ ~queued /\ ~rerun /\ run.phase = "none" /\ patch.phase = "none"

PageIsSettled == RunsAreSettled /\ loads = {}

\* A settled page shows the dataset of its inputs, unless a run of these inputs
\* failed or was skipped as already made since they were last shown (skipped
\* too when the result of the run made has been dropped or replaced meanwhile),
\* or a grid save or a reload showed the dataset id that a dropped load had
\* left behind.
SettledPageShowsItsInputs == PageIsSettled => model = inputs \/ inputs \in missed

\* Grid edits are applied only to the dataset on whose grid they were made,
\* though a run may switch the page's dataset id while the old grid is shown.
PatchReachesItsOwnDataset ==
    [][file' # file /\ patch'.phase = "answered" /\ patch.phase = "sent"
           => patch.edits = patch.to]_datasetRunVars
=============================================================================
