------------------------ MODULE DatasetWindowProofs -------------------------
(***************************************************************************)
(* Safety of a dataset window: of the page (DatasetRuns), for any datasets *)
(* and any number of entries and writes, and of its change watch           *)
(* (OpenObjectWatch), for any saves, jobs and writes by others.            *)
(*                                                                         *)
(* SettledPageShowsItsInputs says nothing of a page that is at work.       *)
(* InputsAreOnTheirWay extends it to every state: inputs that are neither  *)
(* shown nor missed have a timer, a run, a queued run or a current load    *)
(* that will see to them.                                                  *)
(*                                                                         *)
(* OwnChangeAlertsOnlyInAGap speaks of the step that alerts; the reason    *)
(* why a change of the window's own is not alerted is older.  While its    *)
(* writer's bracket is open the watch is paused (PausesAreOpen), and a     *)
(* bracket that has closed has left behind reads and a baseline that are   *)
(* not older than its write (SettledIsBehind).                             *)
(***************************************************************************)
EXTENDS DatasetRuns, OpenObjectWatch, FiniteSetTheorems, TLAPS

-----------------------------------------------------------------------------
(* The page *)

LoadRecords ==
    [by: {"run", "patch", "reload"}, latest: BOOLEAN, dsId: Datasets, inputs: Datasets]

RunRecords == [phase: {"none", "validating", "requested", "loading"}, inputs: MaybeDataset]

\* Loads have an owner, one load each, and a run loads what it has built.
LoadsHaveOwners ==
    /\ \A l \in loads : /\ l \in LoadRecords
                        /\ l.by = "run" => run.phase = "loading" /\ l.inputs = run.inputs
                                                                 /\ l.dsId = run.inputs
                        /\ l.by = "patch" => patch.phase = "loading"
    /\ \A l, m \in loads : l.by = m.by => l = m

\* What the runs and patches in flight were begun with.
FlightsAreOfDatasets ==
    /\ inputs \in Datasets
    /\ run \in RunRecords
    /\ run.phase # "none" => run.inputs \in Datasets
    /\ dsId \in Datasets \cup {NoDataset}
    /\ "phase" \in DOMAIN patch
    /\ patch.phase # "none" => dsId \in Datasets
    /\ model # NoDataset => dsId \in Datasets

OnItsWay ==
    \/ timer \/ queued \/ rerun
    \/ run.phase \in {"validating", "requested"} /\ run.inputs = inputs
    \/ \E l \in loads : LoadIsCurrent(l)

InputsAreOnTheirWay == OnItsWay \/ model = inputs \/ inputs \in missed

\* The file time is of the dataset in the grid, and edits and patches of it.
GridIsOfOneDataset ==
    /\ model # NoDataset => fileMtime.of = model
    /\ edits # NoDataset /\ model # NoDataset => edits = model
    /\ patch.phase # "none" => patch.mtime.of = patch.edits

DatasetRunsInv ==
    /\ LoadsHaveOwners
    /\ FlightsAreOfDatasets
    /\ InputsAreOnTheirWay
    /\ GridIsOfOneDataset

\* What loadDataset does to the loads in flight: the new one is the latest, a
\* reload that it supersedes is forgotten, and each owner still has one.
LEMMA LoadBegins ==
    ASSUME NEW by \in {"run", "patch", "reload"}, NEW d \in Datasets, inputs \in Datasets,
           \A l \in loads : l \in LoadRecords, \A l, m \in loads : l.by = m.by => l = m,
           by = "reload" \/ \A l \in loads : l.by # by, Load(by, d)
    PROVE  /\ \A m, n \in loads' : m.by = n.by => m = n
           /\ \E new \in loads' :
               /\ new = [by |-> by, latest |-> TRUE, dsId |-> d, inputs |-> inputs]
               /\ new \in LoadRecords
               /\ \A m \in loads' : m = new \/ \E l \in loads :
                      /\ m = [l EXCEPT !.latest = FALSE] /\ m \in LoadRecords
                      /\ l.by # "reload" /\ m.by # by
                      /\ m.by = l.by /\ m.dsId = l.dsId /\ m.inputs = l.inputs
<1> DEFINE new == [by |-> by, latest |-> TRUE, dsId |-> d, inputs |-> inputs]
<1>1. new \in loads' /\ new \in LoadRecords /\ new.by = by
  BY DEF Load, LoadRecords
<1>2. ASSUME NEW m \in loads', m # new
      PROVE  \E l \in loads : /\ m = [l EXCEPT !.latest = FALSE] /\ m \in LoadRecords
                              /\ l.by # "reload" /\ m.by # by
                              /\ m.by = l.by /\ m.dsId = l.dsId /\ m.inputs = l.inputs
  <2>1. PICK l \in loads : l.by # "reload" /\ m = [l EXCEPT !.latest = FALSE]
    BY <1>2 DEF Load
  <2>2. l \in LoadRecords
    OBVIOUS
  <2>3. m \in LoadRecords /\ m.by = l.by /\ m.dsId = l.dsId /\ m.inputs = l.inputs
    BY <2>1, <2>2 DEF LoadRecords
  <2>4. QED
    BY <2>1, <2>3
<1>3. ASSUME NEW m \in loads', NEW n \in loads', m.by = n.by PROVE m = n
  <2>1. CASE m = new \/ n = new
    BY <1>1, <1>2, <1>3, <2>1
  <2>2. CASE m # new /\ n # new
    <3>1. PICK l \in loads : m = [l EXCEPT !.latest = FALSE] /\ m.by = l.by
      BY <1>2, <2>2
    <3>2. PICK k \in loads : n = [k EXCEPT !.latest = FALSE] /\ n.by = k.by
      BY <1>2, <2>2
    <3>3. l = k
      BY <1>3, <3>1, <3>2
    <3>4. QED
      BY <3>1, <3>2, <3>3
  <2>3. QED
    BY <2>1, <2>2
<1>4. QED
  BY <1>1, <1>2, <1>3

\* The file time, the edits and the patches follow the grid.
LEMMA GridStep ==
    GridIsOfOneDataset /\ [DatasetRunsNext]_datasetRunVars => GridIsOfOneDataset'
<1> SUFFICES ASSUME GridIsOfOneDataset, [DatasetRunsNext]_datasetRunVars
             PROVE  GridIsOfOneDataset'
  OBVIOUS
<1> USE DEF GridIsOfOneDataset, inputVars, runVars, gridVars
<1>1. CASE AutoRun \/ RunClicked \/ Rerun \/ Reload \/ UNCHANGED datasetRunVars
  BY <1>1 DEF AutoRun, RunClicked, Rerun, Reload, datasetRunVars
<1>2. CASE \E valid \in BOOLEAN : RunValidated(valid)
  BY <1>2 DEF RunValidated
<1>3. CASE \E answer \in {"ok", "error", "thrown"} : RunAnswered(answer)
  BY <1>3 DEF RunAnswered
<1>4. ASSUME NEW l \in loads, NEW ok \in BOOLEAN, LoadAnswered(l, ok)
      PROVE  GridIsOfOneDataset'
  <2>1. patch' = patch \/ patch' = NoPatch
    BY <1>4 DEF LoadAnswered
  <2>2. UNCHANGED gridVars \/ (edits' = NoDataset /\ fileMtime'.of = model') \/ model' = NoDataset
    BY <1>4 DEF LoadAnswered, Painted
  <2>3. QED
    BY <2>1, <2>2 DEF NoPatch
<1>5. CASE PatchSent \/ EditsGrid
  BY <1>5 DEF PatchSent, EditsGrid
<1>6. CASE PatchApplied \/ PatchFailsUnseen \/ PatchLoads
  <2>1. \E phase \in {"answered", "loading"} : patch' = [patch EXCEPT !.phase = phase]
    BY <1>6 DEF PatchApplied, PatchFailsUnseen, PatchLoads
  <2>2. patch.phase # "none" /\ UNCHANGED gridVars
    BY <1>6 DEF PatchApplied, PatchFailsUnseen, PatchLoads
  <2>3. patch'.mtime.of = patch.mtime.of /\ patch'.edits = patch.edits
    BY <2>1
  <2>4. QED
    BY <2>2, <2>3
<1>7. CASE PatchRefused
  BY <1>7 DEF PatchRefused, NoPatch
<1>8. CASE \E d \in Datasets : Enters(d) \/ FileRewritten(d)
  BY <1>8 DEF Enters, FileRewritten
<1>9. QED
  BY <1>1, <1>2, <1>3, <1>4, <1>5, <1>6, <1>7, <1>8 DEF DatasetRunsNext, RunProceeds

\* Grid edits reach the dataset they were made on, in every behaviour: the time
\* a patch carries names the grid's dataset, and the server compares it with
\* the file it writes.
THEOREM PatchesStayHome == DatasetRunsSpec => PatchReachesItsOwnDataset
<1>1. DatasetRunsInit => GridIsOfOneDataset
  BY DEF DatasetRunsInit, GridIsOfOneDataset, NoPatch
<1>2. ASSUME GridIsOfOneDataset, [DatasetRunsNext]_datasetRunVars,
             file' # file, patch.phase = "sent", patch'.phase = "answered"
      PROVE  patch.edits = patch.to
  <2>1. CASE PatchApplied
    <3>1. patch.mtime = [of |-> patch.to, writes |-> file[patch.to]]
      BY <2>1 DEF PatchApplied, MtimeMatches
    <3>2. patch.mtime.of = patch.to
      BY <3>1
    <3>3. QED
      BY <1>2, <3>2 DEF GridIsOfOneDataset
  <2>2. CASE \E d \in Datasets : FileRewritten(d)
    BY <1>2, <2>2 DEF FileRewritten
  <2>3. CASE UNCHANGED file
    BY <1>2, <2>3
  <2>4. QED
    BY <1>2, <2>1, <2>2, <2>3
       DEF DatasetRunsNext, RunProceeds, AutoRun, Rerun, RunValidated, RunAnswered, LoadAnswered,
           PatchRefused, PatchFailsUnseen, PatchLoads, RunClicked, Reload, EditsGrid, PatchSent,
           Enters, datasetRunVars
<1>3. QED
  BY <1>1, <1>2, GridStep, PTL DEF DatasetRunsSpec, PatchReachesItsOwnDataset

\* Only the phase of a run in flight changes.
LEMMA RunAdvances ==
    ASSUME run \in RunRecords, NEW phase \in {"requested", "loading"},
           run' = [run EXCEPT !.phase = phase]
    PROVE  run' \in RunRecords /\ run'.phase = phase /\ run'.inputs = run.inputs
BY DEF RunRecords

\* Runs and patches in flight stay runs and patches of datasets.
LEMMA FlightsStep ==
    LoadsHaveOwners /\ FlightsAreOfDatasets /\ [DatasetRunsNext]_datasetRunVars
        => FlightsAreOfDatasets'
<1> SUFFICES ASSUME LoadsHaveOwners, FlightsAreOfDatasets, [DatasetRunsNext]_datasetRunVars
             PROVE  FlightsAreOfDatasets'
  OBVIOUS
<1>a. /\ NoRun \in RunRecords /\ NoRun.phase = "none"
      /\ NoPatch.phase = "none" /\ "phase" \in DOMAIN NoPatch
  BY DEF NoRun, RunRecords, MaybeDataset, NoPatch
<1>b. ASSUME RunBegins PROVE run' \in RunRecords /\ run'.inputs = inputs
  BY <1>b DEF RunBegins, RunRecords, MaybeDataset, FlightsAreOfDatasets
<1> USE DEF FlightsAreOfDatasets, inputVars, runVars, gridVars
<1>1. CASE AutoRun \/ RunClicked \/ Rerun
  BY <1>1, <1>b DEF AutoRun, RunClicked, Rerun
<1>2. ASSUME NEW valid \in BOOLEAN, RunValidated(valid) PROVE FlightsAreOfDatasets'
  <2>1. CASE valid /\ RunIsCurrent
    <3>1. run' = [run EXCEPT !.phase = "requested"] /\ run.phase = "validating"
      BY <1>2, <2>1 DEF RunValidated
    <3>2. run' \in RunRecords /\ run'.inputs = run.inputs
      BY <3>1, RunAdvances
    <3>3. QED
      BY <1>2, <3>1, <3>2 DEF RunValidated
  <2>2. CASE ~(valid /\ RunIsCurrent)
    BY <1>2, <2>2, <1>a DEF RunValidated, RunEnds
  <2>3. QED
    BY <2>1, <2>2
<1>3. ASSUME NEW answer \in {"ok", "error", "thrown"}, RunAnswered(answer)
      PROVE  FlightsAreOfDatasets'
  <2>1. CASE run' = NoRun
    BY <1>3, <2>1, <1>a DEF RunAnswered
  <2>2. CASE run' # NoRun
    <3>1. /\ run' = [run EXCEPT !.phase = "loading"] /\ run.phase = "requested"
          /\ dsId' = run.inputs /\ UNCHANGED <<inputs, gridVars, patch>>
      BY <1>3, <2>2 DEF RunAnswered, RunEnds
    <3>2. run' \in RunRecords /\ run'.inputs = run.inputs
      BY <3>1, RunAdvances
    <3>3. QED
      BY <3>1, <3>2
  <2>3. QED
    BY <2>1, <2>2
<1>4. ASSUME NEW l \in loads, NEW ok \in BOOLEAN, LoadAnswered(l, ok)
      PROVE  FlightsAreOfDatasets'
  <2>1. l.dsId \in Datasets
    BY DEF LoadsHaveOwners, LoadRecords
  <2>2. (run' = run \/ run' = NoRun) /\ (patch' = patch \/ patch' = NoPatch)
        /\ UNCHANGED <<inputs, dsId>>
    BY <1>4 DEF LoadAnswered, RunEnds
  <2>3. model' = model \/ model' = NoDataset \/ dsId = l.dsId
    BY <1>4 DEF LoadAnswered, Painted, LoadIsCurrent
  <2>4. QED
    BY <2>1, <2>2, <2>3, <1>a
<1>5. CASE PatchSent \/ EditsGrid \/ Reload
  BY <1>5 DEF PatchSent, EditsGrid, Reload
<1>6. CASE PatchApplied \/ PatchRefused \/ PatchFailsUnseen \/ PatchLoads
  <2>1. /\ patch' = NoPatch \/ patch' = [patch EXCEPT !.phase = "answered"]
                           \/ patch' = [patch EXCEPT !.phase = "loading"]
        /\ patch.phase \in {"sent", "answered"} /\ UNCHANGED <<inputs, run, dsId, model>>
    BY <1>6 DEF PatchApplied, PatchRefused, PatchFailsUnseen, PatchLoads
  <2>2. "phase" \in DOMAIN patch'
    BY <2>1, <1>a
  <2>3. QED
    BY <2>1, <2>2
<1>7. ASSUME NEW d \in Datasets, Enters(d) \/ FileRewritten(d) PROVE FlightsAreOfDatasets'
  BY <1>7 DEF Enters, FileRewritten
<1>8. CASE UNCHANGED datasetRunVars
  BY <1>8 DEF datasetRunVars
<1>9. QED
  BY <1>1, <1>2, <1>3, <1>4, <1>5, <1>6, <1>7, <1>8 DEF DatasetRunsNext, RunProceeds

\* Every load keeps its owner: a run or a patch loads once, and ends with it.
LEMMA LoadsStep ==
    LoadsHaveOwners /\ FlightsAreOfDatasets /\ [DatasetRunsNext]_datasetRunVars
        => LoadsHaveOwners'
<1> SUFFICES ASSUME LoadsHaveOwners, FlightsAreOfDatasets, [DatasetRunsNext]_datasetRunVars
             PROVE  LoadsHaveOwners'
  OBVIOUS
<1>a. /\ \A l \in loads : /\ l \in LoadRecords
                          /\ l.by = "run" => run.phase = "loading" /\ l.inputs = run.inputs
                                                                 /\ l.dsId = run.inputs
                          /\ l.by = "patch" => patch.phase = "loading"
      /\ \A l, m \in loads : l.by = m.by => l = m
  BY DEF LoadsHaveOwners
<1>b. \A l \in loads : l.by \in {"run", "patch", "reload"}
  BY <1>a DEF LoadRecords
\* The owners are as before, or had no load, or have ended with it.
<1>c. ASSUME loads' \subseteq loads,
             run' = run \/ \A l \in loads' : l.by # "run",
             patch' = patch \/ \A l \in loads' : l.by # "patch"
      PROVE  LoadsHaveOwners'
  BY <1>a, <1>c DEF LoadsHaveOwners
<1>1. CASE AutoRun \/ RunClicked \/ Rerun
  <2>1. UNCHANGED <<loads, patch>> /\ (run' = run \/ run.phase = "none")
    BY <1>1 DEF AutoRun, RunClicked, Rerun
  <2>2. QED
    BY <2>1, <1>a, <1>c
<1>2. ASSUME NEW valid \in BOOLEAN, RunValidated(valid) PROVE LoadsHaveOwners'
  <2>1. UNCHANGED <<loads, patch>> /\ run.phase = "validating"
    BY <1>2 DEF RunValidated
  <2>2. QED
    BY <2>1, <1>a, <1>c
<1>3. ASSUME NEW answer \in {"ok", "error", "thrown"}, RunAnswered(answer)
      PROVE  LoadsHaveOwners'
  <2>1. UNCHANGED patch /\ run.phase = "requested"
    BY <1>3 DEF RunAnswered
  <2>2. CASE UNCHANGED loads
    BY <2>1, <2>2, <1>a, <1>c
  <2>3. CASE ~UNCHANGED loads
    <3>1. /\ inputs = run.inputs /\ Load("run", run.inputs)
          /\ run' = [run EXCEPT !.phase = "loading"]
      BY <1>3, <2>3 DEF RunAnswered, RunIsCurrent
    <3>2. run'.phase = "loading" /\ run'.inputs = run.inputs
      BY <3>1, RunAdvances DEF FlightsAreOfDatasets
    <3>3. inputs \in Datasets
      BY DEF FlightsAreOfDatasets
    <3>4. \A l \in loads : l.by # "run"
      BY <2>1, <1>a
    <3>5. /\ \A m, n \in loads' : m.by = n.by => m = n
          /\ \E new \in loads' :
              /\ new = [by |-> "run", latest |-> TRUE, dsId |-> inputs, inputs |-> inputs]
              /\ new \in LoadRecords
              /\ \A m \in loads' : m = new \/ \E l \in loads :
                     /\ m = [l EXCEPT !.latest = FALSE] /\ m \in LoadRecords
                     /\ l.by # "reload" /\ m.by # "run"
                     /\ m.by = l.by /\ m.dsId = l.dsId /\ m.inputs = l.inputs
      BY <3>1, <3>3, <3>4, <1>a, LoadBegins
    <3>6. PICK new \in loads' :
              /\ new.by = "run" /\ new.inputs = inputs /\ new.dsId = inputs
              /\ new \in LoadRecords
              /\ \A m \in loads' : m = new \/ (m \in LoadRecords /\ m.by = "patch"
                                                /\ patch.phase = "loading")
      BY <3>5, <1>a, <1>b
    <3>7. QED
      BY <3>1, <3>2, <3>5, <3>6, <2>1 DEF LoadsHaveOwners
  <2>4. QED
    BY <2>2, <2>3
<1>4. ASSUME NEW l \in loads, NEW ok \in BOOLEAN, LoadAnswered(l, ok)
      PROVE  LoadsHaveOwners'
  <2>1. loads' = loads \ {l}
    BY <1>4 DEF LoadAnswered
  <2>2. CASE l.by = "run"
    BY <1>4, <2>1, <2>2, <1>a, <1>c DEF LoadAnswered
  <2>3. CASE l.by = "patch"
    <3>1. UNCHANGED run
      BY <1>4, <2>3 DEF LoadAnswered
    <3>2. QED
      BY <3>1, <2>1, <2>3, <1>a, <1>c
  <2>4. CASE l.by = "reload"
    <3>1. UNCHANGED <<run, patch>>
      BY <1>4, <2>4 DEF LoadAnswered
    <3>2. QED
      BY <3>1, <2>1, <1>c
  <2>5. QED
    BY <2>2, <2>3, <2>4, <1>b
<1>5. CASE PatchSent \/ PatchApplied \/ PatchRefused \/ PatchFailsUnseen
  <2>1. UNCHANGED <<loads, run>> /\ patch.phase \in {"none", "sent"}
    BY <1>5 DEF PatchSent, PatchApplied, PatchRefused, PatchFailsUnseen, runVars
  <2>2. QED
    BY <2>1, <1>a, <1>c
<1>6. CASE PatchLoads
  <2>1. /\ UNCHANGED run /\ patch.phase = "answered" /\ Load("patch", dsId)
        /\ patch' = [patch EXCEPT !.phase = "loading"]
    BY <1>6 DEF PatchLoads, runVars
  <2>2. patch'.phase = "loading" /\ dsId \in Datasets /\ inputs \in Datasets
    BY <2>1 DEF FlightsAreOfDatasets
  <2>3. \A l \in loads : l.by # "patch"
    BY <2>1, <1>a
  <2>4. /\ \A m, n \in loads' : m.by = n.by => m = n
        /\ \E new \in loads' :
            /\ new = [by |-> "patch", latest |-> TRUE, dsId |-> dsId, inputs |-> inputs]
            /\ new \in LoadRecords
            /\ \A m \in loads' : m = new \/ \E l \in loads :
                   /\ m = [l EXCEPT !.latest = FALSE] /\ m \in LoadRecords
                   /\ l.by # "reload" /\ m.by # "patch"
                   /\ m.by = l.by /\ m.dsId = l.dsId /\ m.inputs = l.inputs
    BY <2>1, <2>2, <2>3, <1>a, LoadBegins
  <2>5. PICK new \in loads' :
            /\ new.by = "patch" /\ new \in LoadRecords
            /\ \A m \in loads' : m = new \/
                   (m \in LoadRecords /\ m.by = "run" /\ run.phase = "loading"
                      /\ m.inputs = run.inputs /\ m.dsId = run.inputs)
    BY <2>4, <1>a, <1>b
  <2>6. QED
    BY <2>1, <2>2, <2>4, <2>5 DEF LoadsHaveOwners
<1>7. CASE \E d \in Datasets : Enters(d) \/ FileRewritten(d)
  <2>1. UNCHANGED <<loads, run, patch>>
    BY <1>7 DEF Enters, FileRewritten, runVars
  <2>2. QED
    BY <2>1, <1>c
<1>8. CASE EditsGrid \/ UNCHANGED datasetRunVars
  <2>1. UNCHANGED <<loads, run, patch>>
    BY <1>8 DEF EditsGrid, runVars, datasetRunVars
  <2>2. QED
    BY <2>1, <1>c
<1>9. CASE Reload
  <2>1. UNCHANGED <<run, patch>> /\ Load("reload", dsId) /\ dsId \in Datasets /\ inputs \in Datasets
    BY <1>9 DEF Reload, runVars, FlightsAreOfDatasets
  <2>2. /\ \A m, n \in loads' : m.by = n.by => m = n
        /\ \E new \in loads' :
            /\ new = [by |-> "reload", latest |-> TRUE, dsId |-> dsId, inputs |-> inputs]
            /\ new \in LoadRecords
            /\ \A m \in loads' : m = new \/ \E l \in loads :
                   /\ m = [l EXCEPT !.latest = FALSE] /\ m \in LoadRecords
                   /\ l.by # "reload" /\ m.by # "reload"
                   /\ m.by = l.by /\ m.dsId = l.dsId /\ m.inputs = l.inputs
    BY <2>1, <1>a, LoadBegins
  <2>3. PICK new \in loads' :
            /\ new.by = "reload" /\ new \in LoadRecords
            /\ \A m \in loads' : m = new \/ \E l \in loads :
                   m \in LoadRecords /\ m.by = l.by /\ m.dsId = l.dsId /\ m.inputs = l.inputs
    BY <2>2
  <2>4. QED
    BY <2>1, <2>2, <2>3, <1>a DEF LoadsHaveOwners
<1>10. QED
  BY <1>1, <1>2, <1>3, <1>4, <1>5, <1>6, <1>7, <1>8, <1>9 DEF DatasetRunsNext, RunProceeds

\* Inputs that are neither shown nor missed stay on their way: what ends
\* without showing them records them as missed or queues another run.
LEMMA WayStep ==
    DatasetRunsInv /\ [DatasetRunsNext]_datasetRunVars => InputsAreOnTheirWay'
<1> SUFFICES ASSUME DatasetRunsInv, [DatasetRunsNext]_datasetRunVars
             PROVE  InputsAreOnTheirWay'
  OBVIOUS
<1>a. /\ \A l \in loads : /\ l \in LoadRecords
                          /\ l.by = "run" => run.phase = "loading" /\ l.inputs = run.inputs
                                                                 /\ l.dsId = run.inputs
                          /\ l.by = "patch" => patch.phase = "loading"
      /\ inputs \in Datasets /\ run \in RunRecords
      /\ patch.phase # "none" => dsId \in Datasets
      /\ InputsAreOnTheirWay
  BY DEF DatasetRunsInv, LoadsHaveOwners, FlightsAreOfDatasets
\* A load of the current inputs and dataset stays current while both stand.
<1>b. ASSUME loads \subseteq loads', UNCHANGED <<inputs, dsId>>,
             \E l \in loads : LoadIsCurrent(l)
      PROVE  \E l \in loads' : LoadIsCurrent(l)'
  BY <1>b DEF LoadIsCurrent
<1>c. ASSUME NEW by \in {"run", "patch", "reload"}, Load(by, dsId'), UNCHANGED inputs
      PROVE  InputsAreOnTheirWay'
  <2>1. PICK new \in loads' :
            new = [by |-> by, latest |-> TRUE, dsId |-> dsId', inputs |-> inputs]
    BY <1>c DEF Load
  <2>2. new.latest /\ new.dsId = dsId' /\ new.inputs = inputs
    BY <2>1
  <2>3. LoadIsCurrent(new)'
    BY <2>2, <1>c DEF LoadIsCurrent
  <2>4. QED
    BY <2>3 DEF InputsAreOnTheirWay, OnItsWay
\* A run that fails leaves its inputs missed, or other inputs on their way.
<1>d. ASSUME RunEnds(FALSE, "failed"), UNCHANGED <<inputs, timer, dsId, loads, model>>
      PROVE  InputsAreOnTheirWay'
  BY <1>d, <1>a, <1>b DEF RunEnds, Missed, InputsAreOnTheirWay, OnItsWay
<1>1. CASE AutoRun
  BY <1>1, <1>a, <1>b
     DEF AutoRun, RunBegins, InputsAreOnTheirWay, OnItsWay, inputVars, gridVars
<1>2. CASE RunClicked \/ Rerun
  BY <1>2, <1>a, <1>b
     DEF RunClicked, Rerun, RunBegins, InputsAreOnTheirWay, OnItsWay, inputVars, gridVars
<1>3. ASSUME NEW valid \in BOOLEAN, RunValidated(valid) PROVE InputsAreOnTheirWay'
  <2>1. CASE valid /\ RunIsCurrent
    <3>1. run' = [run EXCEPT !.phase = "requested"] /\ UNCHANGED inputs /\ inputs = run.inputs
      BY <1>3, <2>1 DEF RunValidated, RunIsCurrent, inputVars
    <3>2. run'.phase = "requested" /\ run'.inputs = run.inputs
      BY <3>1, <1>a, RunAdvances
    <3>3. QED
      BY <3>1, <3>2 DEF InputsAreOnTheirWay, OnItsWay
  <2>2. CASE valid /\ ~RunIsCurrent
    BY <1>3, <2>2 DEF RunValidated, RunEnds, InputsAreOnTheirWay, OnItsWay
  <2>3. CASE ~valid
    BY <1>3, <2>3, <1>d DEF RunValidated, inputVars, gridVars
  <2>4. QED
    BY <2>1, <2>2, <2>3
<1>4. ASSUME NEW answer \in {"ok", "error", "thrown"}, RunAnswered(answer)
      PROVE  InputsAreOnTheirWay'
  <2>1. UNCHANGED <<inputs, timer, model>>
    BY <1>4 DEF RunAnswered, inputVars, gridVars
  <2>2. CASE RunEnds(FALSE, "failed") /\ UNCHANGED <<dsId, loads>>
    BY <2>1, <2>2, <1>d
  <2>3. CASE RunEnds(TRUE, "queued")
    BY <2>3 DEF RunEnds, InputsAreOnTheirWay, OnItsWay
  <2>4. CASE RunIsCurrent /\ dsId' = run.inputs /\ Load("run", run.inputs)
    BY <2>1, <2>4, <1>a, <1>c DEF RunIsCurrent
  <2>5. QED
    BY <1>4, <2>2, <2>3, <2>4 DEF RunAnswered
<1>5. ASSUME NEW l \in loads, NEW ok \in BOOLEAN, LoadAnswered(l, ok)
      PROVE  InputsAreOnTheirWay'
  <2>1. /\ loads' = loads \ {l} /\ UNCHANGED <<inputs, timer, dsId>>
        /\ l.by = "run" => RunEnds(FALSE, IF ~LoadIsCurrent(l) THEN "dropped"
                                          ELSE IF ok THEN "shown" ELSE "failed")
        /\ l.by # "run" => UNCHANGED <<run, queued, rerun>>
    BY <1>5 DEF LoadAnswered, inputVars
  <2>2. l.by \in {"run", "patch", "reload"} /\ (l.by # "run" => missed' = Missed(l.inputs,
            IF ~LoadIsCurrent(l) THEN "dropped"
            ELSE IF ok /\ l.dsId = l.inputs THEN "shown" ELSE "failed"))
    BY <1>5, <1>a DEF LoadRecords, LoadAnswered
  <2>3. CASE LoadIsCurrent(l)
    <3>1. l.inputs = inputs /\ l.dsId = dsId /\ (l.by = "run" => l.dsId = inputs)
      BY <2>3, <1>a DEF LoadIsCurrent
    <3>2. CASE ok
      <4>1. model' = l.dsId
        BY <1>5, <2>3, <3>2 DEF LoadAnswered, Painted
      <4>2. l.dsId # inputs => inputs \in missed'
        BY <2>2, <2>3, <3>1, <3>2 DEF Missed
      <4>3. QED
        BY <4>1, <4>2, <2>1 DEF InputsAreOnTheirWay
    <3>3. CASE ~ok
      <4>1. inputs \in missed'
        BY <1>5, <1>a, <2>2, <2>3, <3>1, <3>3 DEF LoadAnswered, RunEnds, Missed
      <4>2. QED
        BY <4>1, <2>1 DEF InputsAreOnTheirWay
    <3>4. QED
      BY <3>2, <3>3
  <2>4. CASE ~LoadIsCurrent(l)
    <3>1. UNCHANGED <<model, missed>>
      BY <1>5, <2>1, <2>2, <2>4 DEF LoadAnswered, Painted, gridVars, RunEnds, Missed
    <3>2. (\E m \in loads : LoadIsCurrent(m)) => \E m \in loads' : LoadIsCurrent(m)'
      BY <2>1, <2>4 DEF LoadIsCurrent
    <3>3. queued \/ rerun => queued' \/ rerun'
      BY <2>1 DEF RunEnds
    <3>4. run.phase \in {"validating", "requested"} => UNCHANGED run
      BY <2>1, <2>2, <1>a
    <3>5. QED
      BY <2>1, <3>1, <3>2, <3>3, <3>4, <1>a DEF InputsAreOnTheirWay, OnItsWay
  <2>5. QED
    BY <2>3, <2>4
<1>6. CASE PatchLoads \/ Reload
  BY <1>6, <1>c DEF PatchLoads, Reload, inputVars
<1>7. CASE PatchSent \/ PatchApplied \/ PatchRefused \/ PatchFailsUnseen \/ EditsGrid
           \/ UNCHANGED datasetRunVars
  <2>1. UNCHANGED <<inputs, timer, queued, rerun, run, loads, dsId, model, missed>>
    BY <1>7 DEF PatchSent, PatchApplied, PatchRefused, PatchFailsUnseen, EditsGrid, inputVars,
                runVars, gridVars, datasetRunVars
  <2>2. QED
    BY <2>1, <1>a, <1>b DEF InputsAreOnTheirWay, OnItsWay
<1>8. ASSUME NEW d \in Datasets, Enters(d) PROVE InputsAreOnTheirWay'
  BY <1>8 DEF Enters, InputsAreOnTheirWay, OnItsWay
<1>9. ASSUME NEW d \in Datasets, FileRewritten(d) PROVE InputsAreOnTheirWay'
  <2>1. UNCHANGED <<inputs, timer, queued, rerun, run, loads, dsId, model, missed>>
    BY <1>9 DEF FileRewritten, inputVars, runVars, gridVars
  <2>2. QED
    BY <2>1, <1>a, <1>b DEF InputsAreOnTheirWay, OnItsWay
<1>10. QED
  BY <1>1, <1>2, <1>3, <1>4, <1>5, <1>6, <1>7, <1>8, <1>9 DEF DatasetRunsNext, RunProceeds

\* The invariant of the page, for any datasets and bounds.
THEOREM PageInvariance == DatasetRunsSpec => []DatasetRunsInv
<1>1. DatasetRunsInit => DatasetRunsInv
  <2>1. NoRun \in RunRecords /\ NoRun.phase = "none"
    BY DEF NoRun, RunRecords, MaybeDataset
  <2>2. /\ NoPatch.phase = "none" /\ NoPatch.mtime.of = NoPatch.edits
        /\ "phase" \in DOMAIN NoPatch
    BY DEF NoPatch, NoMtime
  <2>3. QED
    BY <2>1, <2>2, FirstInputsAssumption
       DEF DatasetRunsInit, DatasetRunsInv, LoadsHaveOwners, FlightsAreOfDatasets,
           InputsAreOnTheirWay, OnItsWay, GridIsOfOneDataset, MaybeDataset
<1>2. DatasetRunsInv /\ [DatasetRunsNext]_datasetRunVars => DatasetRunsInv'
  BY LoadsStep, FlightsStep, WayStep, GridStep DEF DatasetRunsInv
<1>3. QED
  BY <1>1, <1>2, PTL DEF DatasetRunsSpec

\* The types that the invariant does not speak of.
PatchRecords == [phase: {"none", "sent", "answered", "loading"}, edits: MaybeDataset,
                 mtime: Mtimes, to: MaybeDataset]

OtherPageTypes ==
    /\ entries \in 0..MaxEntries /\ reloads \in 0..MaxReloads
    /\ timer \in BOOLEAN /\ queued \in BOOLEAN /\ rerun \in BOOLEAN
    /\ lastAutoKey \in MaybeDataset
    /\ model \in MaybeDataset /\ fileMtime \in Mtimes
    /\ edits \in MaybeDataset
    /\ patch \in PatchRecords
    /\ file \in [Datasets -> 0..MaxWrites]
    /\ missed \subseteq Datasets

LEMMA PageTypesFollow == DatasetRunsInv /\ OtherPageTypes => DatasetRunsTypeOK
  BY DEF DatasetRunsInv, LoadsHaveOwners, FlightsAreOfDatasets, LoadRecords, RunRecords,
     OtherPageTypes, PatchRecords, MaybeDataset, DatasetRunsTypeOK

\* What the grid is painted with, and what a patch becomes.
LEMMA MtimeMade ==
    ASSUME NEW d \in Datasets, NEW n \in 0..MaxWrites
    PROVE  [of |-> d, writes |-> n] \in Mtimes
  BY DEF Mtimes, MaybeDataset

LEMMA PatchMoves ==
    ASSUME patch \in PatchRecords, NEW phase \in {"answered", "loading"}
    PROVE  [patch EXCEPT !.phase = phase] \in PatchRecords
  BY DEF PatchRecords

LEMMA PatchMade ==
    ASSUME NEW e \in MaybeDataset, NEW m \in Mtimes, NEW to \in MaybeDataset
    PROVE  [phase |-> "sent", edits |-> e, mtime |-> m, to |-> to] \in PatchRecords
  BY DEF PatchRecords

LEMMA NothingMade == NoMtime \in Mtimes /\ NoPatch \in PatchRecords
  BY DatasetBounds DEF NoMtime, NoPatch, Mtimes, PatchRecords, MaybeDataset

\* Every step of the page preserves them.
LEMMA PageTypesStep ==
    DatasetRunsInv /\ OtherPageTypes /\ [DatasetRunsNext]_datasetRunVars => OtherPageTypes'
<1> SUFFICES ASSUME DatasetRunsInv, OtherPageTypes, [DatasetRunsNext]_datasetRunVars
             PROVE  OtherPageTypes'
  OBVIOUS
<1>1. /\ inputs \in Datasets /\ run.inputs \in MaybeDataset /\ dsId \in MaybeDataset
      /\ run.phase # "none" => run.inputs \in Datasets
      /\ \A l \in loads : l.dsId \in Datasets /\ l.inputs \in Datasets
                          /\ l.by \in {"run", "patch", "reload"} /\ (l.by = "run" => run.phase = "loading")
      /\ NoDataset \in MaybeDataset /\ Datasets \subseteq MaybeDataset
  BY DEF DatasetRunsInv, LoadsHaveOwners, FlightsAreOfDatasets, LoadRecords, RunRecords, MaybeDataset
<1>2. ASSUME NEW queue \in BOOLEAN, NEW how, RunEnds(queue, how), run.phase # "none",
             how \in {"failed", "shown", "queued", "dropped"}
      PROVE  queued' \in BOOLEAN /\ rerun' \in BOOLEAN /\ missed' \subseteq Datasets
  BY <1>1, <1>2 DEF RunEnds, Missed, OtherPageTypes
<1>3. CASE AutoRun \/ RunClicked \/ Rerun
  <2>1. /\ UNCHANGED <<reloads, model, fileMtime, edits, patch, file>>
        /\ entries' = entries \/ (entries < MaxEntries /\ entries' = entries + 1)
        /\ timer' \in {timer, FALSE} /\ queued' \in {queued, TRUE} /\ rerun' \in {rerun, FALSE}
        /\ lastAutoKey' \in {lastAutoKey, inputs, NoDataset}
        /\ missed' \in {missed, missed \cup {inputs}}
    <3>1. CASE AutoRun
      BY <3>1 DEF AutoRun, inputVars, gridVars
    <3>2. CASE RunClicked
      BY <3>2 DEF RunClicked, gridVars
    <3>3. CASE Rerun
      BY <3>3 DEF Rerun, inputVars, gridVars
    <3>4. QED
      BY <1>3, <3>1, <3>2, <3>3
  <2>2. entries' \in 0..MaxEntries
    BY <2>1, DatasetBounds DEF OtherPageTypes
  <2>3. timer' \in BOOLEAN /\ queued' \in BOOLEAN /\ rerun' \in BOOLEAN
    BY <2>1 DEF OtherPageTypes
  <2>4. lastAutoKey' \in MaybeDataset /\ missed' \subseteq Datasets
    BY <1>1, <2>1 DEF OtherPageTypes
  <2>5. QED
    BY <2>1, <2>2, <2>3, <2>4 DEF OtherPageTypes
<1>4. ASSUME NEW valid \in BOOLEAN, RunValidated(valid) PROVE OtherPageTypes'
  <2>1. /\ UNCHANGED <<entries, reloads, timer, model, fileMtime, edits, patch, file>>
        /\ lastAutoKey' \in {lastAutoKey, NoDataset} /\ run.phase = "validating"
    BY <1>4 DEF RunValidated, inputVars, gridVars
  <2>2. queued' \in BOOLEAN /\ rerun' \in BOOLEAN /\ missed' \subseteq Datasets
    <3>1. CASE UNCHANGED <<queued, rerun, missed>>
      BY <3>1 DEF OtherPageTypes
    <3>2. CASE RunEnds(valid, IF valid THEN "queued" ELSE "failed")
      BY <1>2, <2>1, <3>2
    <3>3. QED
      BY <1>4, <3>1, <3>2 DEF RunValidated
  <2>3. QED
    BY <1>1, <2>1, <2>2 DEF OtherPageTypes
<1>5. ASSUME NEW answer \in {"ok", "error", "thrown"}, RunAnswered(answer) PROVE OtherPageTypes'
  <2>1. /\ UNCHANGED <<entries, reloads, timer, model, fileMtime, edits, patch, file>>
        /\ lastAutoKey' \in {lastAutoKey, NoDataset} /\ run.phase = "requested"
    BY <1>5 DEF RunAnswered, inputVars, gridVars
  <2>2. queued' \in BOOLEAN /\ rerun' \in BOOLEAN /\ missed' \subseteq Datasets
    <3>1. CASE UNCHANGED <<queued, rerun, missed>>
      BY <3>1 DEF OtherPageTypes
    <3>2. CASE RunEnds(FALSE, "failed")
      BY <1>2, <2>1, <3>2
    <3>3. CASE RunEnds(TRUE, "queued")
      BY <1>2, <2>1, <3>3
    <3>4. QED
      BY <1>5, <3>1, <3>2, <3>3 DEF RunAnswered
  <2>3. QED
    BY <1>1, <2>1, <2>2 DEF OtherPageTypes
<1>6. ASSUME NEW l \in loads, NEW ok \in BOOLEAN, LoadAnswered(l, ok) PROVE OtherPageTypes'
  <2>1. UNCHANGED <<entries, reloads, timer, lastAutoKey, file>> /\ (patch' = patch \/ patch' = NoPatch)
    BY <1>6 DEF LoadAnswered, inputVars
  <2>2. model' \in MaybeDataset /\ fileMtime' \in Mtimes /\ edits' \in MaybeDataset
    <3>1. [of |-> l.dsId, writes |-> file[l.dsId]] \in Mtimes
      BY <1>1, MtimeMade DEF OtherPageTypes
    <3>2. CASE UNCHANGED gridVars
      BY <3>2 DEF OtherPageTypes, gridVars
    <3>3. CASE model' = l.dsId /\ fileMtime' = [of |-> l.dsId, writes |-> file[l.dsId]]
               /\ edits' = NoDataset
      BY <1>1, <3>1, <3>3
    <3>4. CASE model' = NoDataset /\ fileMtime' = NoMtime /\ edits' = edits
      BY <1>1, <3>4, NothingMade DEF OtherPageTypes
    <3>5. QED
      BY <1>6, <3>2, <3>3, <3>4 DEF LoadAnswered, Painted
  <2>3. queued' \in BOOLEAN /\ rerun' \in BOOLEAN /\ missed' \subseteq Datasets
    <3>1. CASE l.by = "run"
      <4>1. PICK how \in {"failed", "shown", "dropped"} : RunEnds(FALSE, how)
        BY <1>6, <3>1 DEF LoadAnswered
      <4>2. QED
        BY <1>1, <1>2, <3>1, <4>1
    <3>2. CASE l.by # "run"
      BY <1>1, <1>6, <3>2 DEF LoadAnswered, Missed, OtherPageTypes
    <3>3. QED
      BY <3>1, <3>2
  <2>4. QED
    BY <2>1, <2>2, <2>3, NothingMade DEF OtherPageTypes
<1>7. CASE EditsGrid
  BY <1>7 DEF EditsGrid, OtherPageTypes, inputVars, runVars
<1>8. CASE PatchSent
  <2>1. patch' \in PatchRecords
    BY <1>1, <1>8, PatchMade DEF PatchSent, OtherPageTypes
  <2>2. QED
    BY <1>8, <2>1 DEF PatchSent, OtherPageTypes, inputVars, runVars, gridVars
<1>9. CASE PatchApplied
  <2>1. file' \in [Datasets -> 0..MaxWrites]
    <3>1. /\ file \in [Datasets -> 0..MaxWrites] /\ file[patch.to] < MaxWrites
          /\ file' = [file EXCEPT ![patch.to] = file[patch.to] + 1]
      BY <1>9 DEF PatchApplied, OtherPageTypes
    <3>2. ASSUME NEW d \in Datasets PROVE file'[d] \in 0..MaxWrites
      <4>1. CASE d = patch.to
        BY <3>1, <4>1, DatasetBounds
      <4>2. CASE d # patch.to
        BY <3>1, <4>2
      <4>3. QED
        BY <4>1, <4>2
    <3>3. QED
      BY <3>1, <3>2
  <2>2. patch' \in PatchRecords
    BY <1>9, PatchMoves DEF PatchApplied, OtherPageTypes
  <2>3. QED
    BY <1>9, <2>1, <2>2 DEF PatchApplied, OtherPageTypes, inputVars, runVars, gridVars
<1>10. CASE PatchRefused \/ PatchFailsUnseen \/ PatchLoads
  <2>1. patch' \in PatchRecords
    BY <1>10, PatchMoves, NothingMade DEF PatchRefused, PatchFailsUnseen, PatchLoads, OtherPageTypes
  <2>2. UNCHANGED <<entries, reloads, timer, queued, rerun, lastAutoKey, model, fileMtime, edits,
                  file, missed>>
    BY <1>10 DEF PatchRefused, PatchFailsUnseen, PatchLoads, inputVars, runVars, gridVars
  <2>3. QED
    BY <2>1, <2>2 DEF OtherPageTypes
<1>11. ASSUME NEW d \in Datasets, Enters(d) PROVE OtherPageTypes'
  BY <1>11, DatasetBounds DEF Enters, OtherPageTypes, gridVars
<1>12. ASSUME NEW d \in Datasets, FileRewritten(d) PROVE OtherPageTypes'
  <2>1. file' \in [Datasets -> 0..MaxWrites]
    BY <1>12, DatasetBounds DEF FileRewritten, OtherPageTypes
  <2>2. QED
    BY <1>12, <2>1 DEF FileRewritten, OtherPageTypes, inputVars, runVars, gridVars
<1>13. CASE UNCHANGED datasetRunVars
  BY <1>13 DEF datasetRunVars, OtherPageTypes
<1>14. CASE Reload
  <2>1. reloads' \in 0..MaxReloads
    BY <1>14, DatasetBounds DEF Reload, OtherPageTypes
  <2>2. QED
    BY <1>14, <2>1 DEF Reload, OtherPageTypes, runVars, gridVars
<1>15. QED
  BY <1>3, <1>4, <1>5, <1>6, <1>7, <1>8, <1>9, <1>10, <1>11, <1>12, <1>13, <1>14
     DEF DatasetRunsNext, RunProceeds

\* The types of the page hold, for any datasets and bounds
\* (dataset_run_controller.js).
THEOREM PageTypes == DatasetRunsSpec => []DatasetRunsTypeOK
<1>1. DatasetRunsInit => OtherPageTypes
  <2>1. ASSUME DatasetRunsInit
        PROVE  /\ entries \in 0..MaxEntries /\ reloads \in 0..MaxReloads
               /\ file \in [Datasets -> 0..MaxWrites]
               /\ timer \in BOOLEAN /\ queued \in BOOLEAN /\ rerun \in BOOLEAN
               /\ missed \subseteq Datasets
    <3>1. /\ entries = 0 /\ reloads = 0 /\ file = [d \in Datasets |-> 0] /\ missed = {}
          /\ timer = TRUE /\ queued = FALSE /\ rerun = FALSE
      BY <2>1 DEF DatasetRunsInit
    <3>2. 0 \in 0..MaxEntries /\ 0 \in 0..MaxReloads /\ 0 \in 0..MaxWrites
      BY DatasetBounds
    <3>3. /\ entries \in 0..MaxEntries /\ reloads \in 0..MaxReloads
          /\ file \in [Datasets -> 0..MaxWrites] /\ missed \subseteq Datasets
      BY <3>1, <3>2
    <3>4. timer \in BOOLEAN /\ queued \in BOOLEAN /\ rerun \in BOOLEAN
      BY <3>1, Zenon
    <3>5. QED
      BY <3>3, <3>4
  <2>2. ASSUME DatasetRunsInit
        PROVE  /\ lastAutoKey \in MaybeDataset /\ model \in MaybeDataset /\ edits \in MaybeDataset
               /\ fileMtime \in Mtimes /\ patch \in PatchRecords
    BY <2>2, NothingMade DEF DatasetRunsInit, MaybeDataset
  <2>3. QED
    BY <2>1, <2>2 DEF OtherPageTypes
<1>2. QED
  BY <1>1, PageInvariance, PageTypesStep, PageTypesFollow, PTL DEF DatasetRunsSpec

\* A page at rest shows the dataset of its inputs or has missed them: at rest
\* nothing is in flight that the inputs could still be on their way with.
THEOREM SettledPages == DatasetRunsSpec => []SettledPageShowsItsInputs
<1>1. DatasetRunsInv => SettledPageShowsItsInputs
  BY DEF DatasetRunsInv, InputsAreOnTheirWay, OnItsWay, PageIsSettled, RunsAreSettled,
         SettledPageShowsItsInputs
<1>2. QED
  BY <1>1, PageInvariance, PTL

-----------------------------------------------------------------------------
(* The change watch *)

\* The brackets that still hold a pause: open ones, and those whose resume
\* waits for its rebase.
Open == {b \in Brackets : \/ b \in Saves /\ saving[b] \in {"posted", "landed"}
                          \/ b \in WalkJobs /\ walk[b].phase = "started"
                          \/ \E r \in rebasing : r.ends /\ r.by = b}

\* The pause depth is their number, and each is resumed once.
PausesAreOpen ==
    /\ IsFiniteSet(Open) /\ pauses = Cardinality(Open)
    /\ \A r \in rebasing : r.ends =>
        /\ r.by \in Saves => saving[r.by] \in {"answered", "done"}
        /\ r.by \in WalkJobs => walk[r.by].phase = "finished"
    /\ \A q, r \in rebasing : q.ends /\ r.ends /\ q.by = r.by => q = r

\* Who has written, and that a noted save is not newer than the note.
WritesAreKnown ==
    /\ \A v \in 1..newest : author[v] \in Saves =>
        /\ saving[author[v]] \in {"landed", "answered", "done"}
        /\ saving[author[v]] = "done" => v <= selfWriteAt
    /\ \A v \in 1..newest : author[v] \in WalkJobs => walk[author[v]].wrote # "no"
    /\ \A u, v \in 1..newest : author[u] = author[v] /\ author[v] \in Brackets => u = v
    /\ \A s \in Saves : saving[s] \in {"landed", "answered"} =>
        \E v \in 1..newest : author[v] = s
    /\ \A j \in WalkJobs : walk[j].wrote = "during" => walk[j].phase \in {"started", "finished"}

\* The window makes one save at a time.
SavesTakeTurns ==
    \A s, other \in Saves :
        saving[s] \notin {"idle", "done"} /\ saving[other] \notin {"idle", "done"} => s = other

\* Writers that are done with the share, with no gap noted for them.
Settled(w) ==
    \/ w \in Saves /\ saving[w] = "answered"
    \/ /\ w \in WalkJobs /\ walk[w] = [phase |-> "finished", wrote |-> "during"]
       /\ \A s \in Saves : saving[s] # "done"

\* Where stats do not lag, everything in flight and the baseline are not older
\* than what a settled writer wrote, and a poll that has seen the object move
\* has seen a newer write.
SettledIsBehind ==
    ~lags =>
        /\ floor = newest
        /\ \A v \in 1..newest : Settled(author[v]) =>
            /\ \A r \in rebasing : r.valid => r.from >= v
            /\ baseline \in {Unknown} \cup (v..newest) \/ \E r \in rebasing : r.valid /\ r.ends
            /\ poll.valid /\ poll.phase = "reading" => poll.from >= v
            /\ poll.valid /\ poll.phase = "moved" => poll.from > v /\ poll.token >= v

WatchInv == WatchTypeOK /\ PausesAreOpen /\ WritesAreKnown /\ SavesTakeTurns /\ SettledIsBehind

-----------------------------------------------------------------------------
RebaseRecords == [by: Brackets, ends: BOOLEAN, valid: BOOLEAN, from: 0..newest]

\* A rebase makes one read that counts; of the reads before it, those that a
\* resume waits for stay, and count no longer.
LEMMA RebaseFrame ==
    ASSUME WatchTypeOK, NEW by \in Brackets, NEW ends \in BOOLEAN, RebaseBegins(by, ends),
           UNCHANGED <<author, floor>>
    PROVE  /\ \A r \in rebasing' : r \in RebaseRecords
           /\ \A r \in rebasing' : r.valid => r.by = by /\ r.ends = ends /\ r.from = floor
           /\ \A r \in rebasing' : r.ends =>
                  (r.by = by /\ ends) \/ \E q \in rebasing : q.ends /\ q.by = r.by
           /\ \A q \in rebasing : q.ends => \E r \in rebasing' : r.ends /\ r.by = q.by
           /\ \E r \in rebasing' : r.valid /\ r.by = by /\ r.ends = ends
           /\ ~poll'.valid /\ poll'.phase = poll.phase
           /\ poll'.from = poll.from /\ poll'.token = poll.token
<1> DEFINE new == [by |-> by, ends |-> ends, valid |-> TRUE, from |-> floor]
           Old(q) == [q EXCEPT !.valid = FALSE, !.from = newest]
<1>1. rebasing' = {Old(r) : r \in {q \in rebasing : q.ends}} \cup {new}
  BY DEF RebaseBegins
<1>2. newest \in 0..newest /\ floor \in 0..newest
  BY DEF WatchTypeOK, newest
<1>3. new \in RebaseRecords /\ new.valid /\ new.by = by /\ new.ends = ends /\ new.from = floor
  BY <1>2 DEF RebaseRecords
<1>4. ASSUME NEW q \in rebasing
      PROVE  /\ Old(q) \in RebaseRecords /\ ~Old(q).valid
             /\ Old(q).by = q.by /\ Old(q).ends = q.ends
  BY <1>2 DEF WatchTypeOK, RebaseRecords
<1>5. poll' = [poll EXCEPT !.valid = FALSE] /\ DOMAIN poll = {"phase", "valid", "from", "token"}
  BY DEF RebaseBegins, WatchTypeOK
<1>6. /\ ~poll'.valid /\ poll'.phase = poll.phase
      /\ poll'.from = poll.from /\ poll'.token = poll.token
  BY <1>5
<1> HIDE DEF new, Old
<1>7. QED
  BY <1>1, <1>3, <1>4, <1>6

\* Two rebases that a resume waits for belong to different brackets, when the
\* new one's bracket had none.
LEMMA RebaseUnique ==
    ASSUME WatchTypeOK, NEW by \in Brackets, NEW ends \in BOOLEAN, RebaseBegins(by, ends),
           \A q, r \in rebasing : q.ends /\ r.ends /\ q.by = r.by => q = r,
           ends => \A r \in rebasing : r.ends => r.by # by
    PROVE  \A q, r \in rebasing' : q.ends /\ r.ends /\ q.by = r.by => q = r
<1> DEFINE new == [by |-> by, ends |-> ends, valid |-> TRUE, from |-> floor]
           Old(q) == [q EXCEPT !.valid = FALSE, !.from = newest]
<1>1. rebasing' = {Old(r) : r \in {q \in rebasing : q.ends}} \cup {new}
  BY DEF RebaseBegins
<1>2. \A q \in rebasing : Old(q).by = q.by /\ Old(q).ends = q.ends
  BY DEF WatchTypeOK
<1>3. new.by = by /\ new.ends = ends
  OBVIOUS
<1> HIDE DEF new, Old
<1>4. QED
  BY <1>1, <1>2, <1>3

\* A bracket opens.
LEMMA OneMore ==
    ASSUME NEW b, b \notin Open, Open' = Open \cup {b}, pauses' = pauses + 1,
           IsFiniteSet(Open), pauses = Cardinality(Open)
    PROVE  IsFiniteSet(Open') /\ pauses' = Cardinality(Open')
  BY FS_AddElement

\* A bracket closes, and the pause it ends is there.
LEMMA OneLess ==
    ASSUME NEW b \in Open, Open' = Open \ {b}, pauses' = pauses - 1,
           IsFiniteSet(Open), pauses = Cardinality(Open)
    PROVE  IsFiniteSet(Open') /\ pauses' = Cardinality(Open')
  BY FS_RemoveElement

\* Where a bracket is open the watch is paused.
LEMMA OpenPauses == ASSUME PausesAreOpen, NEW b \in Open PROVE pauses # 0
  BY FS_EmptySet DEF PausesAreOpen

\* The pauses stay counted: every step opens or closes at most one bracket.
LEMMA PausesStep ==
    WatchTypeOK /\ PausesAreOpen /\ WritesAreKnown /\ [WatchNext]_watchVars => PausesAreOpen'
<1> SUFFICES ASSUME WatchTypeOK, PausesAreOpen, WritesAreKnown, [WatchNext]_watchVars
             PROVE  PausesAreOpen'
  OBVIOUS
<1> USE WritersAssumption DEF Brackets
<1>1. ASSUME UNCHANGED <<saving, pauses, rebasing>>,
             \A j \in WalkJobs : walk'[j].phase = walk[j].phase
      PROVE  PausesAreOpen'
  <2>1. Open' = Open
    BY <1>1 DEF Open
  <2>2. QED
    BY <1>1, <2>1 DEF PausesAreOpen
<1>2. ASSUME OutsiderWrites \/ StatCacheExpires \/ PollBegins \/ PollFails
             \/ (\E v \in 0..newest : PollReads(v))
             \/ (\E v \in 0..newest, read \in BOOLEAN : PollAttributes(v, read))
             \/ UNCHANGED watchVars
      PROVE  PausesAreOpen'
  BY <1>1, <1>2 DEF OutsiderWrites, StatCacheExpires, PollBegins, PollFails, PollReads,
     PollAttributes, clientVars, shareVars, watchVars
<1>3. ASSUME NEW r \in rebasing, NEW v \in (0..newest) \cup {Unknown}, RebaseAnswers(r, v)
      PROVE  PausesAreOpen'
  <2>1. /\ rebasing' = rebasing \ {r} /\ UNCHANGED <<saving, walk>>
        /\ pauses' = IF r.ends THEN pauses - 1 ELSE pauses
    BY <1>3 DEF RebaseAnswers, clientVars
  <2>2. CASE r.ends
    <3>1. r.by \in Open /\ Open' = Open \ {r.by}
      BY <2>1, <2>2 DEF Open, PausesAreOpen, WatchTypeOK
    <3>2. QED
      BY <2>1, <2>2, <3>1, OneLess DEF PausesAreOpen
  <2>3. CASE ~r.ends
    <3>1. Open' = Open
      BY <2>1, <2>3 DEF Open
    <3>2. QED
      BY <2>1, <2>3, <3>1 DEF PausesAreOpen
  <2>4. QED
    BY <2>2, <2>3
<1>4. ASSUME NEW s \in Saves, SaveBegins(s) PROVE PausesAreOpen'
  <2>1. /\ saving[s] = "idle" /\ saving' = [saving EXCEPT ![s] = "posted"]
        /\ pauses' = pauses + 1 /\ UNCHANGED <<walk, rebasing>>
    BY <1>4 DEF SaveBegins
  <2>2. s \notin Open /\ Open' = Open \cup {s}
    BY <2>1 DEF Open, PausesAreOpen, WatchTypeOK
  <2>3. QED
    BY <2>1, <2>2, OneMore DEF PausesAreOpen, WatchTypeOK
<1>5. ASSUME NEW s \in Saves, SaveLands(s) PROVE PausesAreOpen'
  <2>1. /\ saving[s] = "posted" /\ saving' = [saving EXCEPT ![s] = "landed"]
        /\ UNCHANGED <<walk, rebasing, pauses>>
    BY <1>5 DEF SaveLands
  <2>2. Open' = Open
    BY <2>1 DEF Open, WatchTypeOK
  <2>3. QED
    BY <2>1, <2>2 DEF PausesAreOpen, WatchTypeOK
<1>6. ASSUME NEW s \in Saves, SaveAnswered(s) PROVE PausesAreOpen'
  <2>1. /\ saving[s] \in {"posted", "landed"} /\ RebaseBegins(s, TRUE)
        /\ \E p \in {"answered", "done"} : saving' = [saving EXCEPT ![s] = p]
        /\ UNCHANGED <<walk, pauses, author, floor>>
    BY <1>6 DEF SaveAnswered, ResumeBegins, shareVars
  <2>2. \A r \in rebasing : r.ends => r.by # s
    BY <2>1 DEF PausesAreOpen
  <2>3. /\ \A r \in rebasing' : r.ends => r.by = s \/ \E q \in rebasing : q.ends /\ q.by = r.by
        /\ \A q \in rebasing : q.ends => \E r \in rebasing' : r.ends /\ r.by = q.by
        /\ \E r \in rebasing' : r.by = s /\ r.ends
    BY <2>1, RebaseFrame
  <2>4. \A q, r \in rebasing' : q.ends /\ r.ends /\ q.by = r.by => q = r
    BY <2>1, <2>2, RebaseUnique DEF PausesAreOpen
  <2>5. Open' = Open
    BY <2>1, <2>3 DEF Open, WatchTypeOK
  <2>6. ASSUME NEW r \in rebasing', r.ends
        PROVE  /\ r.by \in Saves => saving'[r.by] \in {"answered", "done"}
               /\ r.by \in WalkJobs => walk'[r.by].phase = "finished"
    BY <2>1, <2>3, <2>6 DEF PausesAreOpen, WatchTypeOK
  <2>7. QED
    BY <2>1, <2>4, <2>5, <2>6 DEF PausesAreOpen
<1>7. ASSUME NEW s \in Saves, SaveNoted(s) PROVE PausesAreOpen'
  <2>1. /\ saving[s] = "answered" /\ RebaseBegins(s, FALSE)
        /\ saving' = [saving EXCEPT ![s] = "done"]
        /\ UNCHANGED <<walk, pauses, author, floor>>
    BY <1>7 DEF SaveNoted, shareVars
  <2>2. /\ \A r \in rebasing' : r.ends => \E q \in rebasing : q.ends /\ q.by = r.by
        /\ \A q \in rebasing : q.ends => \E r \in rebasing' : r.ends /\ r.by = q.by
    BY <2>1, RebaseFrame
  <2>3. \A q, r \in rebasing' : q.ends /\ r.ends /\ q.by = r.by => q = r
    BY <2>1, RebaseUnique DEF PausesAreOpen
  <2>4. Open' = Open
    BY <2>1, <2>2 DEF Open, WatchTypeOK
  <2>5. ASSUME NEW r \in rebasing', r.ends
        PROVE  /\ r.by \in Saves => saving'[r.by] \in {"answered", "done"}
               /\ r.by \in WalkJobs => walk'[r.by].phase = "finished"
    BY <2>1, <2>2, <2>5 DEF PausesAreOpen, WatchTypeOK
  <2>6. QED
    BY <2>1, <2>3, <2>4, <2>5 DEF PausesAreOpen
<1>8. ASSUME NEW j \in WalkJobs, WalkQueued(j) \/ WalkWrites(j) PROVE PausesAreOpen'
  <2>1. /\ UNCHANGED <<saving, pauses, rebasing>>
        /\ \A i \in WalkJobs : walk'[i].phase # walk[i].phase =>
               walk[i].phase = "idle" /\ walk'[i].phase = "queued"
    <3>1. CASE WalkQueued(j)
      BY <3>1 DEF WalkQueued, WatchTypeOK
    <3>2. CASE WalkWrites(j)
      BY <3>2 DEF WalkWrites, WatchTypeOK
    <3>3. QED
      BY <1>8, <3>1, <3>2
  <2>2. Open' = Open
    BY <2>1 DEF Open
  <2>3. QED
    BY <2>1, <2>2 DEF PausesAreOpen
<1>9. ASSUME NEW j \in WalkJobs, WalkStarted(j) PROVE PausesAreOpen'
  <2>1. /\ walk[j].phase = "queued" /\ walk' = [walk EXCEPT ![j].phase = "started"]
        /\ pauses' = pauses + 1 /\ UNCHANGED <<saving, rebasing>>
    BY <1>9 DEF WalkStarted
  <2>2. \A i \in WalkJobs : walk'[i].phase = IF i = j THEN "started" ELSE walk[i].phase
    BY <2>1 DEF WatchTypeOK
  <2>3. j \notin Open /\ Open' = Open \cup {j}
    BY <2>1, <2>2 DEF Open, PausesAreOpen, WatchTypeOK
  <2>4. QED
    BY <2>1, <2>2, <2>3, OneMore DEF PausesAreOpen, WatchTypeOK
<1>10. ASSUME NEW j \in WalkJobs, WalkFinished(j) PROVE PausesAreOpen'
  <2>1. /\ walk[j].phase = "started" /\ RebaseBegins(j, TRUE)
        /\ walk' = [walk EXCEPT ![j].phase = "finished"]
        /\ UNCHANGED <<saving, pauses, author, floor>>
    BY <1>10 DEF WalkFinished, ResumeBegins, shareVars
  <2>2. \A i \in WalkJobs : walk'[i].phase = IF i = j THEN "finished" ELSE walk[i].phase
    BY <2>1 DEF WatchTypeOK
  <2>3. \A r \in rebasing : r.ends => r.by # j
    BY <2>1 DEF PausesAreOpen
  <2>4. /\ \A r \in rebasing' : r.ends => r.by = j \/ \E q \in rebasing : q.ends /\ q.by = r.by
        /\ \A q \in rebasing : q.ends => \E r \in rebasing' : r.ends /\ r.by = q.by
        /\ \E r \in rebasing' : r.by = j /\ r.ends
    BY <2>1, RebaseFrame
  <2>5. \A q, r \in rebasing' : q.ends /\ r.ends /\ q.by = r.by => q = r
    BY <2>1, <2>3, RebaseUnique DEF PausesAreOpen
  <2>6. Open' = Open
    <3>1. ASSUME NEW b \in Brackets
          PROVE  (\E r \in rebasing' : r.ends /\ r.by = b)
                     <=> b = j \/ \E r \in rebasing : r.ends /\ r.by = b
      BY <2>4
    <3>2. ASSUME NEW b \in Brackets, b # j
          PROVE  b \in WalkJobs => walk'[b].phase = walk[b].phase
      BY <2>2, <3>2
    <3>3. j \in Open /\ j \in Open'
      BY <2>1, <3>1 DEF Open, Brackets
    <3>4. ASSUME NEW b \in Brackets, b # j PROVE b \in Open' <=> b \in Open
      BY <2>1, <3>1, <3>2, <3>4 DEF Open
    <3>5. QED
      BY <3>3, <3>4 DEF Open
  <2>7. ASSUME NEW r \in rebasing', r.ends
        PROVE  /\ r.by \in Saves => saving'[r.by] \in {"answered", "done"}
               /\ r.by \in WalkJobs => walk'[r.by].phase = "finished"
    BY <2>1, <2>2, <2>4, <2>7 DEF PausesAreOpen, WatchTypeOK
  <2>8. QED
    BY <2>1, <2>5, <2>6, <2>7 DEF PausesAreOpen
<1>11. QED
  BY <1>2, <1>3, <1>4, <1>5, <1>6, <1>7, <1>8, <1>9, <1>10 DEF WatchNext

\* The poll that sees the object move, and the alert, are of known versions.
LEMMA PollMoves ==
    ASSUME NEW n \in Nat, NEW v \in 0..n,
           NEW p \in [phase: {"idle", "reading", "moved"}, valid: BOOLEAN, from: 0..n, token: 0..n]
    PROVE  [phase |-> "moved", valid |-> p.valid, from |-> n, token |-> v]
               \in [phase: {"idle", "reading", "moved"}, valid: BOOLEAN, from: 0..n, token: 0..n]
<1>1. p.valid \in BOOLEAN /\ n \in 0..n
  OBVIOUS
<1>2. QED
  BY <1>1

LEMMA AlertMade ==
    ASSUME NEW n \in Nat, NEW v \in 0..n, NEW read \in BOOLEAN
    PROVE  [raised |-> TRUE, version |-> v, read |-> read]
               \in [raised: BOOLEAN, version: 0..n, read: BOOLEAN]
  OBVIOUS

\* Every step preserves types.
LEMMA WatchTypeStep ==
    WatchTypeOK /\ WritesAreKnown /\ PausesAreOpen' /\ [WatchNext]_watchVars => WatchTypeOK'
<1> SUFFICES ASSUME WatchTypeOK, WritesAreKnown, PausesAreOpen', [WatchNext]_watchVars
             PROVE  WatchTypeOK'
  OBVIOUS
<1>1. pauses' \in Nat
  BY FS_CardinalityType DEF PausesAreOpen
<1> USE DEF WatchTypeOK, newest, Brackets, Writers
<1>2. newest \in Nat /\ Unknown \in Int
  BY DEF Unknown
<1>3. ASSUME NEW w \in Writers, Writes(w)
      PROVE  /\ author' \in Seq(Writers) /\ newest' = newest + 1
             /\ lags' \in BOOLEAN /\ floor' \in 0..newest'
  <2>1. author' = Append(author, w) /\ newest' = newest + 1
    BY <1>3 DEF Writes
  <2>2. author' \in Seq(Writers)
    BY <2>1
  <2>3. QED
    BY <1>2, <1>3, <2>1, <2>2 DEF Writes
<1>4. ASSUME NEW w \in Writers, Writes(w), UNCHANGED <<baseline, selfWriteAt, poll, rebasing, alert>>,
             saving' \in [Saves -> {"idle", "posted", "landed", "answered", "done"}],
             walk' \in [WalkJobs -> [phase: {"idle", "queued", "started", "finished"},
                                     wrote: {"no", "before", "during", "after"}]]
      PROVE  WatchTypeOK'
  <2>1. /\ author' \in Seq(Writers) /\ newest' = newest + 1
        /\ lags' \in BOOLEAN /\ floor' \in 0..newest'
    BY <1>3, <1>4
  <2>2. /\ baseline' \in 0..newest' \cup {Unknown} /\ selfWriteAt' \in 0..newest'
        /\ poll' \in [phase: {"idle", "reading", "moved"}, valid: BOOLEAN,
                      from: 0..newest', token: 0..newest']
        /\ alert' \in [raised: BOOLEAN, version: 0..newest', read: BOOLEAN]
    BY <1>2, <1>4, <2>1
  <2>3. \A r \in rebasing' : r \in [by: Saves \cup WalkJobs, ends: BOOLEAN, valid: BOOLEAN,
                                    from: 0..newest']
    BY <1>2, <1>4, <2>1
  <2>4. QED
    BY <1>1, <1>4, <2>1, <2>2, <2>3
<1>5. CASE OutsiderWrites
  BY <1>4, <1>5 DEF OutsiderWrites, clientVars
<1>6. CASE UNCHANGED watchVars
  BY <1>6 DEF watchVars
<1>7. CASE StatCacheExpires
  BY <1>1, <1>2, <1>7 DEF StatCacheExpires, clientVars
<1>8. ASSUME UNCHANGED <<author, lags, floor, saving, walk, selfWriteAt, rebasing>>,
             poll' \in [phase: {"idle", "reading", "moved"}, valid: BOOLEAN,
                        from: 0..newest, token: 0..newest],
             baseline' \in 0..newest \cup {Unknown},
             alert' \in [raised: BOOLEAN, version: 0..newest, read: BOOLEAN]
      PROVE  WatchTypeOK'
  BY <1>1, <1>8
<1>9. IdlePoll \in [phase: {"idle", "reading", "moved"}, valid: BOOLEAN,
                    from: 0..newest, token: 0..newest]
  BY <1>2 DEF IdlePoll
<1>10. CASE PollBegins
  BY <1>2, <1>8, <1>10 DEF PollBegins, shareVars, clientVars
<1>11. CASE PollFails
  BY <1>8, <1>9, <1>11 DEF PollFails, shareVars, clientVars
<1>12. ASSUME NEW v \in 0..newest, PollReads(v) PROVE WatchTypeOK'
  <2>1. baseline' \in {baseline, v}
    BY <1>12 DEF PollReads
  <2>2. poll' \in {IdlePoll, [phase |-> "moved", valid |-> poll.valid, from |-> newest, token |-> v]}
    BY <1>12 DEF PollReads
  <2>3. poll' \in [phase: {"idle", "reading", "moved"}, valid: BOOLEAN,
                   from: 0..newest, token: 0..newest]
    <3>1. poll \in [phase: {"idle", "reading", "moved"}, valid: BOOLEAN,
                    from: 0..newest, token: 0..newest]
      OBVIOUS
    <3>2. [phase |-> "moved", valid |-> poll.valid, from |-> newest, token |-> v]
            \in [phase: {"idle", "reading", "moved"}, valid: BOOLEAN,
                 from: 0..newest, token: 0..newest]
      BY <1>2, <3>1, PollMoves
    <3>3. QED
      BY <1>9, <2>2, <3>2
  <2>4. poll' \in [phase: {"idle", "reading", "moved"}, valid: BOOLEAN,
                   from: 0..newest, token: 0..newest]
    BY <1>9, <2>2, <2>3
  <2>5. UNCHANGED <<author, lags, floor, saving, walk, selfWriteAt, rebasing, alert>>
    BY <1>12 DEF PollReads, shareVars, clientVars
  <2>6. QED
    BY <1>8, <2>1, <2>4, <2>5
<1>13. ASSUME NEW v \in 0..newest, NEW read \in BOOLEAN, PollAttributes(v, read)
       PROVE  WatchTypeOK'
  <2>1. baseline' \in {baseline, poll.token}
    BY <1>13 DEF PollAttributes
  <2>2. alert' \in {alert, [raised |-> TRUE, version |-> v, read |-> read]}
    BY <1>13 DEF PollAttributes
  <2>3. poll' = IdlePoll /\ UNCHANGED <<author, lags, floor, saving, walk, selfWriteAt, rebasing>>
    BY <1>13 DEF PollAttributes, shareVars, clientVars
  <2>4. baseline' \in 0..newest \cup {Unknown}
    BY <2>1
  <2>5. alert' \in [raised: BOOLEAN, version: 0..newest, read: BOOLEAN]
    <3>1. [raised |-> TRUE, version |-> v, read |-> read]
              \in [raised: BOOLEAN, version: 0..newest, read: BOOLEAN]
      BY <1>2, AlertMade
    <3>2. QED
      BY <2>2, <3>1
  <2>6. QED
    BY <1>8, <1>9, <2>3, <2>4, <2>5
<1>14. ASSUME NEW r \in rebasing, NEW v \in (0..newest) \cup {Unknown}, RebaseAnswers(r, v)
      PROVE  WatchTypeOK'
  BY <1>1, <1>14 DEF RebaseAnswers, shareVars, clientVars
<1>15. ASSUME NEW s \in Saves, SaveBegins(s) PROVE WatchTypeOK'
  BY <1>1, <1>15 DEF SaveBegins, shareVars
<1>16. ASSUME NEW s \in Saves, SaveLands(s) PROVE WatchTypeOK'
  BY <1>4, <1>16 DEF SaveLands
<1>17. ASSUME NEW j \in WalkJobs, WalkWrites(j) PROVE WatchTypeOK'
  <2>1. walk' \in [WalkJobs -> [phase: {"idle", "queued", "started", "finished"},
                                wrote: {"no", "before", "during", "after"}]]
    BY <1>17 DEF WalkWrites
  <2>2. QED
    BY <1>4, <1>17, <2>1 DEF WalkWrites
<1>18. ASSUME NEW j \in WalkJobs, WalkQueued(j) \/ WalkStarted(j) PROVE WatchTypeOK'
  <2>1. walk' \in [WalkJobs -> [phase: {"idle", "queued", "started", "finished"},
                                wrote: {"no", "before", "during", "after"}]]
    BY <1>18 DEF WalkQueued, WalkStarted
  <2>2. QED
    BY <1>1, <1>18, <2>1 DEF WalkQueued, WalkStarted, shareVars
<1>19. ASSUME NEW b \in Brackets, NEW ends \in BOOLEAN, RebaseBegins(b, ends),
              UNCHANGED <<author, lags, floor, baseline, alert>>,
              selfWriteAt' \in 0..newest,
              saving' \in [Saves -> {"idle", "posted", "landed", "answered", "done"}],
              walk' \in [WalkJobs -> [phase: {"idle", "queued", "started", "finished"},
                                      wrote: {"no", "before", "during", "after"}]]
       PROVE  WatchTypeOK'
  <2>1. \A r \in rebasing' : r \in RebaseRecords
    BY <1>19, RebaseFrame
  <2>2. poll' \in [phase: {"idle", "reading", "moved"}, valid: BOOLEAN,
                   from: 0..newest, token: 0..newest]
    BY <1>19 DEF RebaseBegins
  <2>3. QED
    BY <1>1, <1>19, <2>1, <2>2 DEF RebaseRecords
<1>20. ASSUME NEW s \in Saves, SaveAnswered(s) PROVE WatchTypeOK'
  BY <1>19, <1>20 DEF SaveAnswered, ResumeBegins, shareVars
<1>21. ASSUME NEW s \in Saves, SaveNoted(s) PROVE WatchTypeOK'
  <2>1. \E v \in 1..newest : author[v] = s
    BY <1>21 DEF SaveNoted, WritesAreKnown
  <2>2. VersionOf(s) \in 1..newest
    BY <2>1 DEF VersionOf
  <2>3. selfWriteAt' \in 0..newest
    BY <1>2, <1>21, <2>2 DEF SaveNoted, NoteSelfWrite
  <2>4. QED
    BY <1>19, <1>21, <2>3 DEF SaveNoted, shareVars
<1>22. ASSUME NEW j \in WalkJobs, WalkFinished(j) PROVE WatchTypeOK'
  BY <1>19, <1>22 DEF WalkFinished, ResumeBegins, shareVars
<1> HIDE DEF WatchTypeOK, newest, Brackets, Writers
<1>23. QED
  BY <1>5, <1>6, <1>7, <1>14, <1>15, <1>16, <1>17, <1>18, <1>20, <1>21, <1>22, <1>10, <1>11,
     <1>12, <1>13 DEF WatchNext

\* Who has written stays known.
LEMMA WritesStep ==
    WatchTypeOK /\ WritesAreKnown /\ [WatchNext]_watchVars => WritesAreKnown'
<1> SUFFICES ASSUME WatchTypeOK, WritesAreKnown, [WatchNext]_watchVars
             PROVE  WritesAreKnown'
  OBVIOUS
<1> USE WritersAssumption DEF Brackets, Writers
<1>1. /\ author \in Seq(Writers) /\ newest \in Nat
      /\ saving \in [Saves -> {"idle", "posted", "landed", "answered", "done"}]
      /\ walk \in [WalkJobs -> [phase: {"idle", "queued", "started", "finished"},
                                wrote: {"no", "before", "during", "after"}]]
      /\ selfWriteAt \in 0..newest
  BY DEF WatchTypeOK, newest
<1>2. CASE UNCHANGED <<author, clientVars, selfWriteAt>>
  BY <1>2 DEF WritesAreKnown, clientVars, newest
<1>3. ASSUME NEW w \in Writers, Writes(w)
      PROVE  /\ newest' = newest + 1 /\ author'[newest'] = w
             /\ \A v \in 1..newest : author'[v] = author[v]
  BY <1>1, <1>3 DEF Writes, newest
<1>4. CASE OutsiderWrites
  <2>1. newest' = newest + 1 /\ author'[newest'] = Outsider
    BY <1>3, <1>4 DEF OutsiderWrites
  <2>2. \A v \in 1..newest : author'[v] = author[v]
    BY <1>3, <1>4 DEF OutsiderWrites
  <2>3. UNCHANGED <<saving, walk, selfWriteAt>> /\ Outsider \notin Saves \cup WalkJobs
    BY <1>4 DEF OutsiderWrites, clientVars
  <2>4. \A v \in 1..newest' :
            author'[v] \in Saves \cup WalkJobs => v \in 1..newest /\ author'[v] = author[v]
    BY <1>1, <2>1, <2>2, <2>3
  <2>5. \A v \in 1..newest : v \in 1..newest'
    BY <1>1, <2>1
  <2>6. QED
    BY <2>2, <2>3, <2>4, <2>5 DEF WritesAreKnown
<1>5. ASSUME NEW s \in Saves, SaveBegins(s) PROVE WritesAreKnown'
  BY <1>1, <1>5 DEF SaveBegins, shareVars, WritesAreKnown, newest
<1>6. ASSUME NEW s \in Saves, SaveLands(s) PROVE WritesAreKnown'
  <2>1. /\ newest' = newest + 1 /\ author'[newest'] = s
        /\ \A v \in 1..newest : author'[v] = author[v]
        /\ saving[s] = "posted" /\ saving' = [saving EXCEPT ![s] = "landed"]
        /\ UNCHANGED <<walk, selfWriteAt>>
    BY <1>3, <1>6 DEF SaveLands
  <2>2. \A v \in 1..newest : author[v] # s
    BY <2>1 DEF WritesAreKnown
  <2>3. \A v \in 1..newest' : IF v = newest' THEN author'[v] = s ELSE v \in 1..newest
    BY <1>1, <2>1
  <2>4. QED
    BY <1>1, <2>1, <2>2, <2>3 DEF WritesAreKnown
<1>7. ASSUME NEW s \in Saves, SaveAnswered(s) PROVE WritesAreKnown'
  <2>1. /\ saving[s] \in {"posted", "landed"}
        /\ saving' = [saving EXCEPT ![s] = IF saving[s] = "landed" THEN "answered" ELSE "done"]
        /\ UNCHANGED <<walk, selfWriteAt, author>>
    BY <1>7 DEF SaveAnswered, shareVars
  <2>2. saving[s] = "posted" => \A v \in 1..newest : author[v] # s
    BY DEF WritesAreKnown
  <2>3. QED
    BY <1>1, <2>1, <2>2 DEF WritesAreKnown, newest
<1>8. ASSUME NEW s \in Saves, SaveNoted(s) PROVE WritesAreKnown'
  <2>1. /\ saving[s] = "answered" /\ saving' = [saving EXCEPT ![s] = "done"]
        /\ UNCHANGED <<walk, author>> /\ newest' = newest
    BY <1>8 DEF SaveNoted, shareVars, newest
  <2>2. \A v \in 1..newest : author[v] = s => VersionOf(s) = v
    BY <1>1 DEF VersionOf, WritesAreKnown
  <2>3. \E v \in 1..newest : author[v] = s
    BY <2>1 DEF WritesAreKnown
  <2>4. selfWriteAt' >= selfWriteAt /\ selfWriteAt' >= VersionOf(s) /\ selfWriteAt' \in Nat
    BY <1>1, <1>8, <2>2, <2>3 DEF SaveNoted, NoteSelfWrite
  <2>5. ASSUME NEW v \in 1..newest', author'[v] \in Saves, saving'[author'[v]] = "done"
        PROVE  v <= selfWriteAt'
    BY <1>1, <2>1, <2>2, <2>4, <2>5 DEF WritesAreKnown
  <2>6. QED
    BY <1>1, <2>1, <2>5 DEF WritesAreKnown
<1>9. ASSUME NEW j \in WalkJobs, WalkQueued(j) \/ WalkStarted(j) \/ WalkFinished(j)
      PROVE  WritesAreKnown'
  <2>1. \E p \in {"queued", "started", "finished"} :
            /\ walk' = [walk EXCEPT ![j].phase = p]
            /\ walk[j].phase = "started" => p = "finished"
            /\ walk[j].phase # "finished"
    BY <1>9 DEF WalkQueued, WalkStarted, WalkFinished
  <2>2. UNCHANGED <<author, saving, selfWriteAt>>
    BY <1>9 DEF WalkQueued, WalkStarted, WalkFinished, shareVars
  <2>3. \A i \in WalkJobs : /\ walk'[i].wrote = walk[i].wrote
                            /\ walk[i].phase = "started" =>
                                   walk'[i].phase \in {"started", "finished"}
                            /\ walk[i].phase = "finished" => walk'[i].phase = "finished"
    BY <1>1, <2>1
  <2>4. QED
    BY <1>1, <2>2, <2>3 DEF WritesAreKnown, newest
<1>10. ASSUME NEW j \in WalkJobs, WalkWrites(j) PROVE WritesAreKnown'
  <2>1. /\ newest' = newest + 1 /\ author'[newest'] = j
        /\ \A v \in 1..newest : author'[v] = author[v]
        /\ walk[j].phase # "idle" /\ walk[j].wrote = "no"
        /\ UNCHANGED <<saving, selfWriteAt>>
    BY <1>3, <1>10 DEF WalkWrites
  <2>2. walk' = [walk EXCEPT ![j].wrote =
           CASE walk[j].phase = "queued" -> "before"
             [] walk[j].phase = "started" -> "during"
             [] walk[j].phase = "finished" -> "after"]
    BY <1>10 DEF WalkWrites
  <2>3. /\ \A i \in WalkJobs : walk'[i].phase = walk[i].phase
        /\ \A i \in WalkJobs \ {j} : walk'[i].wrote = walk[i].wrote
        /\ walk'[j].wrote # "no" /\ (walk'[j].wrote = "during" => walk[j].phase = "started")
    BY <1>1, <2>1, <2>2
  <2>4. \A v \in 1..newest : author[v] # j
    BY <2>1 DEF WritesAreKnown
  <2>5. \A v \in 1..newest' : IF v = newest' THEN author'[v] = j ELSE v \in 1..newest
    BY <1>1, <2>1
  <2>6. /\ saving' = saving /\ selfWriteAt' = selfWriteAt
    BY <1>1, <2>1
  <2>7. ASSUME NEW v \in 1..newest', author'[v] \in WalkJobs PROVE walk'[author'[v]].wrote # "no"
    BY <2>1, <2>3, <2>5, <2>7 DEF WritesAreKnown
  <2>8. ASSUME NEW u \in 1..newest', NEW v \in 1..newest', author'[u] = author'[v],
               author'[v] \in Saves \cup WalkJobs
        PROVE  u = v
    BY <2>1, <2>4, <2>5, <2>8 DEF WritesAreKnown
  <2>9. ASSUME NEW v \in 1..newest', author'[v] \in Saves
        PROVE  /\ saving[author'[v]] \in {"landed", "answered", "done"}
               /\ saving[author'[v]] = "done" => v <= selfWriteAt
    BY <2>1, <2>5, <2>9 DEF WritesAreKnown
  <2>10. \A s \in Saves : saving[s] \in {"landed", "answered"} =>
             \E v \in 1..newest' : author'[v] = s
    BY <1>1, <2>1 DEF WritesAreKnown
  <2>11. \A i \in WalkJobs : walk'[i].wrote = "during" => walk'[i].phase \in {"started", "finished"}
    BY <2>3 DEF WritesAreKnown
  <2>12. QED
    BY ONLY <2>6, <2>7, <2>8, <2>9, <2>10, <2>11 DEF WritesAreKnown, Brackets
<1>11. CASE StatCacheExpires \/ PollBegins \/ PollFails \/ UNCHANGED watchVars
            \/ (\E v \in 0..newest : PollReads(v))
            \/ (\E v \in 0..newest, read \in BOOLEAN : PollAttributes(v, read))
            \/ (\E r \in rebasing, v \in (0..newest) \cup {Unknown} : RebaseAnswers(r, v))
  <2>1. CASE StatCacheExpires
    BY <1>2, <2>1 DEF StatCacheExpires
  <2>2. CASE PollBegins \/ PollFails \/ UNCHANGED watchVars
    BY <1>2, <2>2 DEF PollBegins, PollFails, shareVars, clientVars, watchVars
  <2>3. ASSUME NEW v \in 0..newest, PollReads(v) PROVE WritesAreKnown'
    BY <1>2, <2>3 DEF PollReads, shareVars
  <2>4. ASSUME NEW v \in 0..newest, NEW read \in BOOLEAN, PollAttributes(v, read)
        PROVE  WritesAreKnown'
    BY <1>2, <2>4 DEF PollAttributes, shareVars
  <2>5. ASSUME NEW r \in rebasing, NEW v \in (0..newest) \cup {Unknown}, RebaseAnswers(r, v)
        PROVE  WritesAreKnown'
    BY <1>2, <2>5 DEF RebaseAnswers, shareVars
  <2>6. QED
    BY ONLY <1>11, <2>1, <2>2, <2>3, <2>4, <2>5
<1> HIDE DEF Brackets, Writers
<1>12. QED
  BY <1>4, <1>5, <1>6, <1>7, <1>8, <1>9, <1>10, <1>11 DEF WatchNext

\* A step that begins no save leaves the turn where it is.
LEMMA TurnsStep ==
    WatchTypeOK /\ SavesTakeTurns /\ [WatchNext]_watchVars => SavesTakeTurns'
<1> SUFFICES ASSUME WatchTypeOK, SavesTakeTurns, [WatchNext]_watchVars
             PROVE  SavesTakeTurns'
  OBVIOUS
<1>1. saving \in [Saves -> {"idle", "posted", "landed", "answered", "done"}]
  BY DEF WatchTypeOK
<1>2. CASE UNCHANGED saving
  BY <1>2 DEF SavesTakeTurns
<1>3. ASSUME NEW s \in Saves, SaveBegins(s) PROVE SavesTakeTurns'
  BY <1>1, <1>3 DEF SaveBegins, SavesTakeTurns
<1>4. ASSUME NEW s \in Saves, SaveLands(s) \/ SaveAnswered(s) \/ SaveNoted(s)
      PROVE  SavesTakeTurns'
  <2>1. saving[s] \notin {"idle", "done"} /\ \E p : saving' = [saving EXCEPT ![s] = p]
    BY <1>4 DEF SaveLands, SaveAnswered, SaveNoted
  <2>2. QED
    BY <1>1, <2>1 DEF SavesTakeTurns
<1>5. ASSUME NEW j \in WalkJobs, \/ WalkQueued(j) \/ WalkStarted(j)
                                 \/ WalkWrites(j) \/ WalkFinished(j)
      PROVE  UNCHANGED saving
  BY <1>5 DEF WalkQueued, WalkStarted, WalkWrites, WalkFinished
<1>6. ASSUME OutsiderWrites \/ StatCacheExpires \/ PollBegins \/ PollFails \/ UNCHANGED watchVars
      PROVE  UNCHANGED saving
  BY <1>6 DEF OutsiderWrites, StatCacheExpires, PollBegins, PollFails, clientVars, watchVars
<1>7. ASSUME NEW v \in 0..newest, PollReads(v) PROVE UNCHANGED saving
  BY <1>7 DEF PollReads, clientVars
<1>8. ASSUME NEW v \in 0..newest, NEW read \in BOOLEAN, PollAttributes(v, read)
      PROVE  UNCHANGED saving
  BY <1>8 DEF PollAttributes, clientVars
<1>9. ASSUME NEW r \in rebasing, NEW v \in (0..newest) \cup {Unknown}, RebaseAnswers(r, v)
      PROVE  UNCHANGED saving
  BY <1>9 DEF RebaseAnswers, clientVars
<1>10. QED
  BY <1>2, <1>3, <1>4, <1>5, <1>6, <1>7, <1>8, <1>9 DEF WatchNext

\* A write by a writer that is not settled by it leaves all that is settled
\* behind.
LEMMA WriteLeavesSettled ==
    ASSUME WatchTypeOK, SettledIsBehind, NEW w, Writes(w), UNCHANGED <<baseline, poll, rebasing>>,
           ~Settled(w)', \A v \in 1..newest : Settled(author[v])' => Settled(author[v])
    PROVE  SettledIsBehind'
<1>1. /\ author \in Seq(Writers) /\ newest \in Nat /\ baseline \in 0..newest \cup {Unknown}
  BY DEF WatchTypeOK, newest
<1>2. /\ newest' = newest + 1 /\ author'[newest'] = w
      /\ \A v \in 1..newest : author'[v] = author[v]
      /\ ~lags => floor' = newest'
  BY <1>1 DEF Writes, newest
<1>3. lags' = lags
  BY DEF Writes
<1>4. ASSUME NEW v \in 1..newest', Settled(author[v])'
      PROVE  v \in 1..newest /\ Settled(author[v])
  <2>1. v # newest'
    BY <1>2, <1>4 DEF Settled
  <2>2. v \in 1..newest
    BY <1>1, <1>2, <2>1
  <2>3. author'[v] = author[v]
    BY <1>2, <2>2
  <2>4. QED
    BY <1>4, <2>2, <2>3 DEF Settled
<1>5. QED
  BY <1>1, <1>2, <1>3, <1>4 DEF SettledIsBehind, Settled

\* A resume reads what is there now, and drops the poll in flight.
LEMMA ResumeSettles ==
    ASSUME WatchTypeOK, SettledIsBehind, NEW by \in Brackets, RebaseBegins(by, TRUE),
           UNCHANGED shareVars
    PROVE  SettledIsBehind'
<1>1. /\ \A r \in rebasing' : r.valid => r.from = floor
      /\ \E r \in rebasing' : r.valid /\ r.ends
      /\ ~poll'.valid
  BY RebaseFrame DEF shareVars
<1>2. UNCHANGED <<author, lags, floor, newest>>
  BY DEF shareVars, newest
<1>3. newest \in Nat /\ author \in Seq(Writers)
  BY DEF WatchTypeOK, newest
<1>4. QED
  BY <1>1, <1>2, <1>3 DEF SettledIsBehind

\* A step that settles nobody and keeps what is in flight.
LEMMA NothingSettles ==
    ASSUME SettledIsBehind, UNCHANGED <<author, lags, floor, rebasing, baseline, poll>>,
           \A w : Settled(w)' => Settled(w)
    PROVE  SettledIsBehind'
  BY DEF SettledIsBehind, newest, Settled

\* What is settled stays behind everything in flight.
LEMMA SettledStep ==
    WatchTypeOK /\ PausesAreOpen /\ WritesAreKnown /\ SavesTakeTurns /\ SettledIsBehind
        /\ [WatchNext]_watchVars => SettledIsBehind'
<1> SUFFICES ASSUME WatchTypeOK, PausesAreOpen, WritesAreKnown, SavesTakeTurns,
                    SettledIsBehind, [WatchNext]_watchVars
             PROVE  SettledIsBehind'
  OBVIOUS
<1> USE WritersAssumption
<1>1. /\ author \in Seq(Writers) /\ newest \in Nat
      /\ saving \in [Saves -> {"idle", "posted", "landed", "answered", "done"}]
      /\ walk \in [WalkJobs -> [phase: {"idle", "queued", "started", "finished"},
                                wrote: {"no", "before", "during", "after"}]]
      /\ baseline \in 0..newest \cup {Unknown}
      /\ floor \in 0..newest
      /\ poll.from \in 0..newest /\ poll.token \in 0..newest
  BY DEF WatchTypeOK, newest
<1>2. CASE OutsiderWrites
  <2>1. Writes(Outsider) /\ UNCHANGED <<saving, walk, baseline, poll, rebasing>>
    BY <1>2 DEF OutsiderWrites, clientVars
  <2>2. \A w : Settled(w)' => Settled(w)
    BY <2>1 DEF Settled
  <2>3. ~Settled(Outsider)'
    BY DEF Settled, Brackets
  <2>4. \A v \in 1..newest : author'[v] = author[v]
    BY <1>1, <2>1 DEF Writes, newest
  <2>5. \A v \in 1..newest : Settled(author[v])' => Settled(author[v])
    BY <2>1, <2>4 DEF Settled
  <2>6. QED
    BY <2>1, <2>3, <2>5, WriteLeavesSettled
<1>3. ASSUME NEW s \in Saves, SaveLands(s) PROVE SettledIsBehind'
  <2>1. /\ saving[s] = "posted" /\ saving' = [saving EXCEPT ![s] = "landed"] /\ Writes(s)
        /\ UNCHANGED <<walk, baseline, poll, rebasing>>
    BY <1>3 DEF SaveLands
  <2>2. \A v \in 1..newest : author'[v] = author[v]
    BY <1>1, <2>1 DEF Writes, newest
  <2>3. ~Settled(s)'
    BY <1>1, <2>1 DEF Settled, Brackets
  <2>4. \A v \in 1..newest : Settled(author[v])' => Settled(author[v])
    BY <1>1, <2>1, <2>2 DEF Settled
  <2>5. QED
    BY <2>1, <2>3, <2>4, WriteLeavesSettled
<1>4. ASSUME NEW j \in WalkJobs, WalkWrites(j) PROVE SettledIsBehind'
  <2>1. /\ Writes(j) /\ UNCHANGED <<saving, baseline, poll, rebasing>>
    BY <1>4 DEF WalkWrites
  <2>2. walk' = [walk EXCEPT ![j].wrote =
           CASE walk[j].phase = "queued" -> "before"
             [] walk[j].phase = "started" -> "during"
             [] walk[j].phase = "finished" -> "after"]
        /\ walk[j].phase # "idle"
    BY <1>4 DEF WalkWrites
  <2>3. /\ \A i \in WalkJobs \ {j} : walk'[i] = walk[i]
        /\ ~(walk'[j].phase = "finished" /\ walk'[j].wrote = "during")
    BY <1>1, <2>2
  <2>4. \A v \in 1..newest : author'[v] = author[v]
    BY <1>1, <2>1 DEF Writes, newest
  <2>5. ~Settled(j)'
    BY <2>3 DEF Settled, Brackets
  <2>6. \A v \in 1..newest : Settled(author[v])' => Settled(author[v])
    BY <2>1, <2>3, <2>4 DEF Settled
  <2>7. QED
    BY <2>1, <2>5, <2>6, WriteLeavesSettled
<1>5. CASE StatCacheExpires
  <2>1. lags' = lags /\ floor < newest
    BY <1>5 DEF StatCacheExpires
  <2>2. QED
    BY <1>1, <2>1 DEF SettledIsBehind
<1>6. ASSUME UNCHANGED <<author, lags, floor, saving, walk>>
      PROVE  newest' = newest /\ \A w : Settled(w)' <=> Settled(w)
  BY <1>6 DEF Settled, newest
<1>7. CASE PollBegins
  <2>1. /\ UNCHANGED <<author, lags, floor, saving, walk, rebasing, baseline>>
        /\ poll'.phase = "reading" /\ poll'.from = floor
    BY <1>7 DEF PollBegins, shareVars, clientVars
  <2>2. QED
    BY <1>1, <1>6, <2>1 DEF SettledIsBehind, Settled, newest
<1>8. ASSUME UNCHANGED <<author, lags, floor, saving, walk, rebasing>>, poll' = IdlePoll,
             \/ baseline' = baseline
             \/ /\ baseline' \in 0..newest
                /\ ~lags => \A v \in 1..newest : Settled(author[v]) => baseline' >= v
      PROVE  SettledIsBehind'
  <2>1. ~poll'.valid
    BY <1>8 DEF IdlePoll
  <2>2. ASSUME NEW v \in 1..newest, Settled(author[v]), ~lags
        PROVE  \/ baseline' \in {Unknown} \cup (v..newest)
               \/ \E r \in rebasing : r.valid /\ r.ends
    BY <1>1, <1>8, <2>2 DEF SettledIsBehind
  <2>3. QED
    BY <1>1, <1>6, <1>8, <2>1, <2>2 DEF SettledIsBehind, Settled, newest
<1>9. CASE PollFails
  BY <1>8, <1>9 DEF PollFails, shareVars, clientVars
<1>10. ASSUME NEW v \in 0..newest, PollReads(v) PROVE SettledIsBehind'
  <2>1. /\ UNCHANGED <<author, lags, floor, saving, walk, rebasing>>
        /\ poll.phase = "reading" /\ v \in poll.from..newest
    BY <1>10 DEF PollReads, shareVars, clientVars, Answers
  <2>2. CASE PollCounts /\ baseline # Unknown /\ v # baseline
    <3>1. /\ pauses = 0 /\ poll.valid /\ baseline' = baseline
          /\ poll' = [phase |-> "moved", valid |-> poll.valid, from |-> newest, token |-> v]
      BY <1>10, <2>2 DEF PollReads, PollCounts
    <3>2. \A r \in rebasing : ~r.ends
      BY <3>1, OpenPauses DEF Open, WatchTypeOK
    <3>3. poll'.phase = "moved" /\ poll'.from = newest /\ poll'.token = v
      BY <3>1
    <3>4. ASSUME NEW u \in 1..newest, Settled(author[u]), ~lags
          PROVE  newest > u /\ v >= u
      <4>1. poll.from >= u /\ baseline \in u..newest
        BY <2>1, <2>2, <3>1, <3>2, <3>4 DEF SettledIsBehind
      <4>2. QED
        BY <1>1, <2>1, <2>2, <4>1
    <3>5. QED
      BY <1>1, <1>6, <2>1, <3>1, <3>2, <3>3, <3>4 DEF SettledIsBehind, Settled, newest
  <2>3. CASE ~(PollCounts /\ baseline # Unknown /\ v # baseline)
    <3>1. /\ poll' = IdlePoll
          /\ baseline' = IF PollCounts /\ baseline = Unknown THEN v ELSE baseline
      BY <1>10, <2>3 DEF PollReads
    <3>2. PollCounts /\ ~lags => \A u \in 1..newest : Settled(author[u]) => v >= u
      BY <1>1, <2>1 DEF SettledIsBehind, PollCounts
    <3>3. QED
      BY <1>8, <2>1, <3>1, <3>2
  <2>4. QED
    BY <2>2, <2>3
<1>11. ASSUME NEW v \in 0..newest, NEW read \in BOOLEAN, PollAttributes(v, read)
       PROVE  SettledIsBehind'
  <2>1. /\ UNCHANGED <<author, lags, floor, saving, walk, rebasing>>
        /\ poll' = IdlePoll /\ poll.phase = "moved"
        /\ baseline' = baseline \/ (poll.valid /\ baseline' = poll.token)
    BY <1>11 DEF PollAttributes, PollCounts, shareVars, clientVars
  <2>2. poll.valid /\ ~lags => \A u \in 1..newest : Settled(author[u]) => poll.token >= u
    BY <2>1 DEF SettledIsBehind
  <2>3. QED
    BY <1>1, <1>8, <2>1, <2>2
<1>12. ASSUME NEW r \in rebasing, NEW v \in (0..newest) \cup {Unknown}, RebaseAnswers(r, v)
       PROVE  SettledIsBehind'
  <2>1. /\ UNCHANGED <<author, lags, floor, saving, walk, poll>>
        /\ rebasing' = rebasing \ {r} /\ v \in (r.from..newest) \cup {Unknown}
        /\ baseline' = IF r.valid THEN v ELSE baseline
    BY <1>12 DEF RebaseAnswers, shareVars, clientVars, Answers
  <2>2. r.from \in 0..newest
    BY DEF WatchTypeOK, newest
  <2>3. ASSUME NEW u \in 1..newest, Settled(author[u]), ~lags
        PROVE  \/ baseline' \in {Unknown} \cup (u..newest)
               \/ \E q \in rebasing' : q.valid /\ q.ends
    <3>1. CASE r.valid
      <4>1. r.from >= u
        BY <2>3, <3>1 DEF SettledIsBehind
      <4>2. QED
        BY <1>1, <2>1, <2>2, <3>1, <4>1
    <3>2. CASE ~r.valid
      BY <2>1, <2>3, <3>2 DEF SettledIsBehind
    <3>3. QED
      BY <3>1, <3>2
  <2>4. QED
    BY <1>1, <1>6, <2>1, <2>3 DEF SettledIsBehind, Settled, newest
<1>13. ASSUME NEW s \in Saves, SaveBegins(s) PROVE SettledIsBehind'
  <2>1. /\ saving[s] = "idle" /\ saving' = [saving EXCEPT ![s] = "posted"]
        /\ UNCHANGED <<author, lags, floor, walk, rebasing, baseline, poll>>
    BY <1>13 DEF SaveBegins, shareVars
  <2>2. \A w : Settled(w)' => Settled(w)
    BY <1>1, <2>1 DEF Settled
  <2>3. QED
    BY <2>1, <2>2, NothingSettles
<1>14. ASSUME NEW j \in WalkJobs, WalkQueued(j) \/ WalkStarted(j) PROVE SettledIsBehind'
  <2>1. /\ \E p \in {"queued", "started"} : walk' = [walk EXCEPT ![j].phase = p]
        /\ UNCHANGED <<author, lags, floor, saving, rebasing, baseline, poll>>
    BY <1>14 DEF WalkQueued, WalkStarted, shareVars
  <2>2. /\ \A i \in WalkJobs \ {j} : walk'[i] = walk[i]
        /\ walk'[j].phase # "finished"
    BY <1>1, <2>1
  <2>3. \A w : Settled(w)' => Settled(w)
    BY <2>1, <2>2 DEF Settled
  <2>4. QED
    BY <2>1, <2>3, NothingSettles
<1>15. ASSUME NEW s \in Saves, SaveAnswered(s) PROVE SettledIsBehind'
  BY <1>15, ResumeSettles DEF SaveAnswered, ResumeBegins, Brackets
<1>16. ASSUME NEW j \in WalkJobs, WalkFinished(j) PROVE SettledIsBehind'
  BY <1>16, ResumeSettles DEF WalkFinished, ResumeBegins, Brackets
<1>17. ASSUME NEW s \in Saves, SaveNoted(s) PROVE SettledIsBehind'
  <2>1. /\ saving[s] = "answered" /\ saving' = [saving EXCEPT ![s] = "done"]
        /\ UNCHANGED <<author, lags, floor, walk>>
    BY <1>17 DEF SaveNoted, shareVars
  <2>2. \A w : ~Settled(w)'
    BY <1>1, <2>1 DEF Settled, SavesTakeTurns, Brackets
  <2>3. newest' = newest
    BY <2>1 DEF newest
  <2>4. QED
    BY <2>1, <2>2, <2>3 DEF SettledIsBehind, Settled
<1>18. CASE UNCHANGED watchVars
  BY <1>18 DEF watchVars, SettledIsBehind, Settled, newest
<1>19. QED
  BY <1>2, <1>3, <1>4, <1>5, <1>7, <1>9, <1>10, <1>11, <1>12, <1>13, <1>14, <1>15, <1>16,
     <1>17, <1>18 DEF WatchNext

\* The first state: nothing has been written.
LEMMA WatchStarts == WatchInit => WatchInv
<1> SUFFICES ASSUME WatchInit PROVE WatchInv
  OBVIOUS
<1>1. newest = 0 /\ author \in Seq(Writers)
  BY DEF WatchInit, newest
<1>2. WatchTypeOK
  BY <1>1 DEF WatchInit, WatchTypeOK, IdlePoll, NoAlert, Unknown
<1>3. Open = {}
  BY DEF WatchInit, Open
<1>4. PausesAreOpen
  BY <1>3, FS_EmptySet DEF WatchInit, PausesAreOpen
<1>5. WritesAreKnown /\ SavesTakeTurns
  BY <1>1 DEF WatchInit, WritesAreKnown, SavesTakeTurns
<1>6. SettledIsBehind
  BY <1>1 DEF WatchInit, SettledIsBehind
<1>7. QED
  BY <1>2, <1>4, <1>5, <1>6 DEF WatchInv

LEMMA WatchStep == WatchInv /\ [WatchNext]_watchVars => WatchInv'
  BY PausesStep, WatchTypeStep, WritesStep, TurnsStep, SettledStep DEF WatchInv

LEMMA WatchSafe == WatchSpec => []WatchInv
  BY WatchStarts, WatchStep, PTL DEF WatchSpec

\* The types of the watch hold: the pauses never go below zero, and nothing in
\* it speaks of a version that was not written (createObjectChangeWatch).
THEOREM WatchTypes == WatchSpec => []WatchTypeOK
  BY WatchSafe, PTL DEF WatchInv

\* An alert about a change of the window's own, or of this application's job,
\* is one of the stated gaps.
LEMMA AlertStep ==
    ASSUME WatchInv, WatchNext, ~alert.raised, alert'.raised
    PROVE  LET writer == WriterOf(alert'.version) IN
           /\ writer \in Saves => ~alert'.read \/ (lags /\ saving[writer] = "answered")
           /\ writer \in WalkJobs => \/ walk[writer].wrote # "during"
                                     \/ lags
                                     \/ \E s \in Saves : saving[s] = "done"
<1> USE WritersAssumption DEF WatchInv
<1>1. PICK v \in 0..newest, read \in BOOLEAN : PollAttributes(v, read)
  BY DEF WatchNext, OutsiderWrites, StatCacheExpires, PollBegins, PollFails, PollReads,
     RebaseAnswers, SaveBegins, SaveLands, SaveAnswered, SaveNoted, WalkQueued, WalkStarted,
     WalkWrites, WalkFinished
<1>2. /\ poll.phase = "moved" /\ v \in poll.from..newest
      /\ pauses = 0 /\ poll.valid /\ ~(read /\ v <= selfWriteAt)
      /\ alert' = [raised |-> TRUE, version |-> v, read |-> read]
  BY <1>1 DEF PollAttributes, PollCounts, Answers, IsOwnWriteArrivingLate
<1>3. alert'.version = v /\ alert'.read = read
  BY <1>2
<1>4. /\ newest \in Nat /\ poll.from \in Nat /\ selfWriteAt \in Nat
      /\ saving \in [Saves -> {"idle", "posted", "landed", "answered", "done"}]
      /\ walk \in [WalkJobs -> [phase: {"idle", "queued", "started", "finished"},
                                wrote: {"no", "before", "during", "after"}]]
  BY DEF WatchTypeOK, newest
<1>5. ~lags => \A u \in 1..newest : Settled(author[u]) => poll.from > u
  BY <1>2 DEF SettledIsBehind
<1>6. ASSUME ~lags, v # 0 PROVE ~Settled(author[v])
  BY <1>2, <1>4, <1>5, <1>6
<1>7. ASSUME NEW w, w = WriterOf(v), w \in Saves
      PROVE  ~read \/ (lags /\ saving[w] = "answered")
  <2>1. v \in 1..newest /\ w = author[v]
    BY <1>4, <1>7 DEF WriterOf, Brackets
  <2>2. /\ saving[w] \in {"landed", "answered", "done"}
        /\ saving[w] = "done" => v <= selfWriteAt
    BY <1>7, <2>1 DEF WritesAreKnown
  <2>3. saving[w] # "landed"
    BY <1>2, <1>7, OpenPauses DEF Open, Brackets
  <2>4. saving[w] = "answered" => lags
    BY <1>6, <1>7, <2>1 DEF Settled
  <2>5. QED
    BY <1>2, <2>2, <2>3, <2>4
<1>8. ASSUME NEW w, w = WriterOf(v), w \in WalkJobs
      PROVE  walk[w].wrote # "during" \/ lags \/ \E s \in Saves : saving[s] = "done"
  <2>1. v \in 1..newest /\ w = author[v]
    BY <1>4, <1>8 DEF WriterOf, Brackets
  <2>2. walk[w].phase # "started"
    BY <1>2, <1>8, OpenPauses DEF Open, Brackets
  <2>3. walk[w].wrote = "during" => walk[w].phase = "finished"
    BY <1>8, <2>2 DEF WritesAreKnown
  <2>4. walk[w].wrote = "during" => walk[w] = [phase |-> "finished", wrote |-> "during"]
    BY <1>4, <1>8, <2>3
  <2>5. QED
    BY <1>6, <1>8, <2>1, <2>4 DEF Settled
<1>9. QED
  BY <1>3, <1>7, <1>8

\* A change that the window or this application made is alerted only through
\* a stated gap (isOwnWriteArrivingLate, wireSamePropagationScopePause).
THEOREM OwnChangesAreQuiet == WatchSpec => OwnChangeAlertsOnlyInAGap
<1>1. WatchInv /\ [WatchNext]_watchVars =>
        [~alert.raised /\ alert'.raised =>
            LET writer == WriterOf(alert'.version) IN
            /\ writer \in Saves => ~alert'.read \/ (lags /\ saving[writer] = "answered")
            /\ writer \in WalkJobs => \/ walk[writer].wrote # "during"
                                      \/ lags
                                      \/ \E s \in Saves : saving[s] = "done"]_watchVars
  BY AlertStep
<1>2. QED
  BY WatchSafe, <1>1, PTL DEF WatchSpec, OwnChangeAlertsOnlyInAGap
=============================================================================
