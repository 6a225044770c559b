CONSTANTS
    s1 = s1
    j1 = j1
    Saves = {s1}
    WalkJobs = {j1}
    Outsider = Outsider
    MaxOutside = 1
    d1 = d1
    d2 = d2
    Datasets = {d1, d2}
    FirstInputs = d1
    NoDataset = NoDataset
    MaxEntries = 2
    MaxReloads = 1
    MaxWrites = 1
    MaxEdits = 3
    AnswerIsGrid = FALSE
    FirstCells = 2
    MaxCells = 3
    NoCell = NoCell
    MaxRequests = 2
    MaxTargetWrites = 1
    h1 = h1
    h2 = h2
    Hosts = {h1, h2}
    Profiles = {1, 2}
    Builds = {1, 2}
    MaxAttempts = 1
    LastPort = 2
    NoHost = NoHost
    NoBackend = NoBackend
SPECIFICATION DesktopSpec
INVARIANTS
    DesktopTypeOK
    SettledPageShowsItsInputs
    SlotHasOneHolder
    SavedMeansSaved
    CanceledRequestIsNotApplied
    AppliedEditIsOfItsRequest
PROPERTIES
    OwnChangeAlertsOnlyInAGap
    OutsideChangeIsAlerted
    PatchReachesItsOwnDataset
    DatasetPageSettles
    EveryEditIsSent
    IdlePageHasServedTheQueue
    QueuedCellIsTaken
    ReliedOnBackendIsLeft
    RevertRestoresTheReplaced
CHECK_DEADLOCK FALSE
