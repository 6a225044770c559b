--------------------------- MODULE MCDesktopClient ---------------------------
(***************************************************************************)
(* One instance of every modelled part of the desktop client.  The parts   *)
(* share no state: an initial state chooses the part that is checked, and  *)
(* the others stay as they were.                                           *)
(***************************************************************************)
EXTENDS OpenObjectWatch, DatasetRuns, AutoSave, NotebookRuns, AssistantEdits,
        BackendLifecycle

CONSTANTS s1, j1, d1, d2, h1, h2

VARIABLE part

clientPartVars == <<part, watchVars, datasetRunVars, autoSaveVars, notebookVars, assistantVars,
                    lifecycleVars>>

\* The second host has the profile and the build of the first, or differs in one
\* of them; another program may hold the preferred port, or all ports.
Installed ==
    LET same == install[h2] = install[h1] IN
    /\ install[h1] = [profile |-> 1, build |-> 1]
    /\ install[h2].profile = 1 \/ install[h2].build = 1
    /\ taken \in {{}, {PREFERRED_PORT}, Ports}
    /\ taken # {} => same
    /\ part # "lifecycle" => same /\ taken = {}

DesktopInit ==
    /\ part \in {"watch", "dataset", "autosave", "notebook", "assistant",
                "lifecycle"}
    /\ WatchInit /\ (part # "watch" => ~lags)
    /\ DatasetRunsInit /\ dsId = (IF part = "dataset" THEN d2 ELSE NoDataset)
    /\ AutoSaveInit
    /\ NotebookInit
    /\ AssistantInit
    /\ LifecycleInit /\ Installed

DesktopNext ==
    /\ \/ /\ part = "watch" /\ WatchNext
          /\ UNCHANGED <<datasetRunVars, autoSaveVars, notebookVars, assistantVars,
                        lifecycleVars>>
       \/ /\ part = "dataset" /\ DatasetRunsNext
          /\ UNCHANGED <<watchVars, autoSaveVars, notebookVars, assistantVars, lifecycleVars>>
       \/ /\ part = "autosave" /\ AutoSaveNext
          /\ UNCHANGED <<watchVars, datasetRunVars, notebookVars, assistantVars, lifecycleVars>>
       \/ /\ part = "notebook" /\ NotebookNext
          /\ UNCHANGED <<watchVars, datasetRunVars, autoSaveVars, assistantVars, lifecycleVars>>
       \/ /\ part = "assistant" /\ AssistantNext
          /\ UNCHANGED <<watchVars, datasetRunVars, autoSaveVars, notebookVars, lifecycleVars>>
       \/ /\ part = "lifecycle" /\ LifecycleNext
          /\ UNCHANGED <<watchVars, datasetRunVars, autoSaveVars, notebookVars, assistantVars>>
    /\ UNCHANGED part

\* The watched window stays open: its timer polls, its requests are answered,
\* the cached stat expires, the broadcasts of a job end, and of the polls made
\* again and again some are answered.
WatchIsServed ==
    /\ SF_watchVars(part = "watch" /\ ~alert.raised /\ \E v \in 0..newest : PollReads(v))
    /\ WF_watchVars(part = "watch" /\ ~alert.raised /\ PollBegins)
    /\ WF_watchVars(part = "watch" /\ ~alert.raised /\ StatCacheExpires)
    /\ WF_watchVars(part = "watch" /\ ~alert.raised
                      /\ \E v \in 0..newest, read \in BOOLEAN : PollAttributes(v, read))
    /\ WF_watchVars(part = "watch" /\ ~alert.raised
                      /\ \E r \in rebasing, v \in 0..newest : RebaseAnswers(r, v))
    /\ WF_watchVars(part = "watch" /\ ~alert.raised /\ \E s \in Saves : SaveAnswered(s))
    /\ WF_watchVars(part = "watch" /\ ~alert.raised /\ \E j \in WalkJobs : WalkFinished(j))

\* The page's timers fire and each request of a run or a grid save is answered,
\* somehow.
DatasetPageIsServed ==
    /\ WF_datasetRunVars(part = "dataset" /\ AutoRun)
    /\ WF_datasetRunVars(part = "dataset" /\ Rerun)
    /\ WF_datasetRunVars(part = "dataset" /\ \E valid \in BOOLEAN : RunValidated(valid))
    /\ WF_datasetRunVars(part = "dataset"
                           /\ \E answer \in {"ok", "error", "thrown"} : RunAnswered(answer))
    /\ \A by \in {"run", "patch"} :
         WF_datasetRunVars(part = "dataset" /\ \E l \in loads, ok \in BOOLEAN :
                                                  l.by = by /\ LoadAnswered(l, ok))
    /\ WF_datasetRunVars(part = "dataset" /\ (PatchApplied \/ PatchRefused \/ PatchFailsUnseen))
    /\ WF_datasetRunVars(part = "dataset" /\ PatchLoads)

\* Timers fire, a followed job ends and a table that is read again is answered; a
\* save may hang for ever, and only the watchdog is certain.
AutoSaveTimersFire ==
    /\ WF_autoSaveVars(part = "autosave" /\ Trigger)
    /\ WF_autoSaveVars(part = "autosave" /\ \E s \in saves : SaveStalled(s))
    /\ WF_autoSaveVars(part = "autosave" /\ \E j \in changeJobs :
                          JobSucceeds(j) \/ \E decided \in BOOLEAN : JobFails(j, decided))
    /\ WF_autoSaveVars(part = "autosave" /\ TableReread)

\* The executed cell's request ends.
NotebookIsServed == WF_notebookVars(part = "notebook" /\ NotebookRunEnds)

DesktopSpec ==
    /\ DesktopInit /\ [][DesktopNext]_clientPartVars
    /\ WatchIsServed /\ DatasetPageIsServed /\ AutoSaveTimersFire /\ NotebookIsServed

DesktopTypeOK ==
    /\ WatchTypeOK
    /\ DatasetRunsTypeOK
    /\ AutoSaveTypeOK
    /\ NotebookTypeOK
    /\ AssistantTypeOK
    /\ LifecycleTypeOK

\* Where the dataset page is the part that runs, its queued, rescheduled and
\* repeated runs come to an end (dataset_run_controller.js).
DatasetPageSettles == []<>(part = "dataset" => RunsAreSettled)
=============================================================================
