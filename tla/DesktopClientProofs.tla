------------------------- MODULE DesktopClientProofs -------------------------
(***************************************************************************)
(* What is proved of the parts of the desktop client holds of the instance *)
(* that composes them: a behaviour of the client is a behaviour of each of *)
(* its parts, whichever part it runs.                                      *)
(***************************************************************************)
EXTENDS MCDesktopClient, DatasetWindowProofs, EditingProofs, BackendLifecycleProofs, TLAPS

\* Every step of the client is a step of each part, or leaves it alone.
LEMMA ClientSteps ==
    [DesktopNext]_clientPartVars =>
        /\ [WatchNext]_watchVars
        /\ [DatasetRunsNext]_datasetRunVars
        /\ [AutoSaveNext]_autoSaveVars
        /\ [NotebookNext]_notebookVars
        /\ [AssistantNext]_assistantVars
        /\ [LifecycleNext]_lifecycleVars
  BY DEF DesktopNext, clientPartVars

LEMMA ClientStarts ==
    DesktopInit => /\ WatchInit /\ DatasetRunsInit /\ AutoSaveInit
                   /\ NotebookInit /\ AssistantInit /\ LifecycleInit
  BY DEF DesktopInit

\* The client behaves as each of its parts is specified to.
THEOREM ClientIsItsParts ==
    DesktopSpec => /\ WatchSpec /\ DatasetRunsSpec /\ AutoSaveSpec
                   /\ NotebookSpec /\ AssistantSpec /\ LifecycleSpec
  BY ClientStarts, ClientSteps, PTL DEF DesktopSpec, WatchSpec, DatasetRunsSpec,
     AutoSaveSpec, NotebookSpec, AssistantSpec, LifecycleSpec

\* The types of all parts hold in the client.
THEOREM ClientTypes == DesktopSpec => []DesktopTypeOK
<1>1. ASSUME WatchTypeOK, DatasetRunsTypeOK, AutoSaveTypeOK,
             NotebookTypeOK, AssistantTypeOK, LifecycleTypeOK
      PROVE  DesktopTypeOK
  BY <1>1 DEF DesktopTypeOK
<1>2. AssistantInv => AssistantTypeOK
  BY DEF AssistantInv
<1>3. QED
  BY ClientIsItsParts, WatchTypes, PageTypes, SlotSafety, NotebookTypes,
     AssistantInvariance, LifecycleTypes, <1>1, <1>2, PTL

\* Every safety property of a part holds in the client; that an idle page's
\* "saved" is true needs that answers leave the grid alone.
THEOREM ClientSafety ==
    DesktopSpec =>
        /\ OwnChangeAlertsOnlyInAGap
        /\ []SettledPageShowsItsInputs /\ PatchReachesItsOwnDataset
        /\ []SlotHasOneHolder /\ []UnsentIsScheduled
        /\ ~AnswerIsGrid => []SavedMeansSaved
        /\ IdlePageHasServedTheQueue
        /\ []CanceledRequestIsNotApplied /\ []AppliedEditIsOfItsRequest
        /\ RevertRestoresTheReplaced
        /\ ReliedOnBackendIsLeft
  BY ClientIsItsParts, OwnChangesAreQuiet, SettledPages, PatchesStayHome, SlotSafety,
     SavedIsInTheFile, UnsentEditsAreScheduled, IdlePagesHaveServed, CancelPreventsApply, EditsStayApart,
     RevertIsExact, BackendUnderAWindow, PTL
=============================================================================
