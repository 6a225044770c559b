# A verification project for ADAS (ArcRho)

ArcRho is an actuarial reserving system over plain files. Clients (a desktop
application, an Excel add-in, a Python API) and several Engine processes share a
folder, usually over SMB. There is no database and no broker: what a transaction
or a queue would do is done with exclusive creation, rename, unlink and
modification times of files. The TLA+ modules in this directory model those file
protocols: the part of the system that unit tests reach least, because every
mistake in it needs two processes and one particular order of their calls. A second
group of modules models the asynchronous parts of the desktop client (JavaScript), where
one thread meets answers, timers and user events in orders that its tests do not try, and
where several hosts on one machine share an app server.

## 1. Inventory

| Part | State it keeps | Operations | Hard behaviour |
|---|---|---|---|
| Engine job lease (`arcrho_engine_job_lease.py`) | one file per job or class: owner token, modification time; a latch in memory | acquire, heartbeat, ownership check, release, stale takeover | look-then-act races on the path, paused owners, crashes |
| Project duplication (`project_duplication.py`, its contract, `project_settings_service.py`) | request, status, cancel marker, recovery journal, staging and target folders, target lock | submit, cancel, claim, copy, verify, publish, roll back, recover, clean up | crash at every step, rival requests, edits of source or target, lost leases |
| Dependent propagation (`dependent_propagation.py`, its contract, `dependent_propagation_service.py`) | request and status files, reserving-class lease, dependents | save, submit, claim, drain and merge, walk, status heartbeat, answer | two threads per job, merging, saves during a walk |
| Hosted saves (`save_jobs.py`, `arcrho_engine_save_contract.py`, `engine_hosted_save_service.py`) | request, status, result, claim marker, dispatcher queue | post, poll, retract, claim, review, save, answer, prune | work held in memory after its file is gone, retraction (also one that cannot remove the files), timeouts, changes of the dataset types beside a save |
| Engine dispatcher (`arcrho_engine/main.py`) | one bounded in-memory queue per job type, a rescan every 5 s | offer, run, drop | full queues, duplicated offers |
| Hold probes and project-scope lease (`arcrho_dependent_propagation_contract.py`) | lock files and their age | probe, acquire, narrow | check-then-write, thresholds that differ |
| Gateway (`arcrho_gateway/`) | receipts of mutations, HTTP requests in progress | submit, wait, replay | retries of what already ran |
| Source refresh, dataset types change, processing rules jobs | retained requests, project-scope lease, tables | claim, commit | order of commits, partial failure |
| ResQ Bridge | import leases, staging | import, sync | commit order over several files |
| Orchestrator, Launcher, Admin, deployer, build listener | processes, heartbeat files, `live`/`.prev`/`.slot` folders | start, stop, sweep, rotate, roll back | crash during rotation |
| Open-window change watch (`object_change_watch.js`, wired by `data_tab_change_watch_port.js`) | baseline fingerprint, pause depth, poll and rebases in flight | poll, pause, resume, rebase, attribute, alert | reads overtaken by pauses, stats that lag, own writes that look foreign |
| Dataset page runs (`dataset_run_controller.js`, `dataset_service.py` for the patch) | inputs, run in flight, queued run, loads, grid, file time | auto-run, run, load, patch, reload | answers for inputs that are gone, edits of the previous dataset, reloads of a dataset id left behind |
| Project Settings auto-save (`project_settings_auto_save.js` and two tables) | debounce, slot, pending, grid rows, file, a change job that is followed | edit, trigger, save, watchdog, follow, read again | late answers, edits during a save or a change job, jobs that fail |
| Notebook cell runs (`notebook-editor/execution.js`) | cells, queue of clicked cells, running cell | click, advance, run all, run selected, drain | cells deleted while loops await |
| ArcBot edit requests (`arcbot_host.js`) | staged copy, turn, cancel flag, target, backup, manifest | ask, cancel, time out, apply, revert | turns that run on, cancels that race the apply |
| Backend lifecycle (`backend_lifecycle.js`, `backend_port.js`, the quit handlers of `main.js`) | owned process, port, client markers, listening servers | register, probe, reuse, clear a port, spawn, wait, shut down, quit | several hosts start and quit at once, ports that change hands, hosts and servers that die |
| Other app-server services, Electron windows, remaining UI, Python API, Excel add-in | JSON files, windows | request/response | mostly sequential |

How they interact: a client writes a request file; the rescan or the folder
watcher of every Engine offers it to the dispatcher of its job type; the job
takes a lease (or, for a hosted save, creates a claim marker), works on the
shared folders, writes a status file that the client polls, and removes the
request. Hosted saves and propagation walks of one reserving class exclude each
other through the lease of the class. Everything above the lease trusts only what
`FencedClaim` says about it.

What makes each part correct:

- lease: at most one owner that the file confirms; a fresh lease is not taken
  away, except inside the gap that its docstring admits; an abandoned one is;
- duplication: a published project is one snapshot of its source; success is told
  exactly when the target is there; the request is retained until an outcome;
  failures and crashes leave nothing behind; user edits are never deleted;
- propagation: an answered success covers the save it answers; dependents never
  go back; every request leaves the queue;
- hosted save: one execution per claim, true answers, no save against a graph
  that was not reviewed, but where a change of the dataset types overtakes it;
- change watch: what the window or its application wrote raises no alert, what
  somebody else wrote does, and no failed call leaves the watch off;
- dataset page: a page at rest shows the data of its inputs, and grid edits are
  only written to the dataset they were made on;
- auto-save: one save at a time, "saved" means that the file has the edits, and
  every edit is sent, but for those that the page gives up (section 6);
- notebook: a cell that was queued is taken, and a page at rest has no queue;
- ArcBot: a request whose cancel was acknowledged changes nothing, an applied edit is
  of its own request, and a revert restores what the apply replaced;
- backend lifecycle: a host that knows of an open window does not end the backend
  under it, neither when it quits nor when it starts.

## 2. Modules

| Module | Models | Role |
|---|---|---|
| `FencedClaim` | what a lease promises: absent, valid or lost claims | abstract specification |
| `EngineJobLease` | the lease, one action per file-system call | implements `FencedClaim` |
| `EngineJobLeaseProofs` | inductive invariant, safety and refinement | TLAPS |
| `ProjectDuplication` | the durable duplication job and its client | uses the promise of `FencedClaim` |
| `DependentPropagation` | the durable walk with its status thread and its clients | uses the promise of `FencedClaim` |
| `HostedSave` | plans and commits, dispatcher, claim marker, client | uses the promise of `FencedClaim` |
| `OpenObjectWatch` | the watch of one open dataset over a share that may lag | desktop client |
| `DatasetRuns` | runs, loads and patches of one page | desktop client |
| `AutoSave` | the auto-save scheduler with a table | desktop client |
| `NotebookRuns` | cell execution with an edited notebook | desktop client |
| `AssistantEdits` | edit requests of the ArcBot host | desktop client |
| `BackendLifecycle` | hosts, client markers and app-server processes of one machine | desktop client |
| `ProjectDuplicationProofs` | types, and an inductive invariant for each safety property | TLAPS |
| `HostedSaveProofs`, `DependentPropagationProofs` | inductive invariants, safety, and the use of the lease | TLAPS |
| `DatasetWindowProofs` | the dataset page and its change watch (`DatasetRuns`, `OpenObjectWatch`) | TLAPS |
| `EditingProofs` | the editors (`AutoSave`, `AssistantEdits`, `NotebookRuns`) | TLAPS |
| `BackendLifecycleProofs` | the backend lifecycle | TLAPS |
| `DesktopClientProofs` | the composition `MCDesktopClient`: what is proved of a part holds in the client | TLAPS |
| `MC*` | constants and symmetry sets of the runs | TLC |

State and actions against the code:

- **EngineJobLease.** `fileToken`, `fileWritten`, `fileStale` are the file; `pc`,
  `attempt`, `token` are the local state of an acquire or release call; `failed`,
  `beating`, `touching` are the heartbeat thread. `open("x")` and the write of the
  payload are two actions, so are the stat and the rename, the token read and the
  utime, the token read and the unlink. `slow` and `raced` are history.
- **ProjectDuplication.** `request`, `status`, `cancel`, `journal` are protocol
  files, `staging`, `target` folders (maps from a few files to versions),
  `lockReq`/`lockBy` the target lock. Each look at the lease and the write that
  relies on it are two actions. `shutil.rmtree` removes one file per step. A
  manifest is read in one step. The calls that remove the target lock may fail without a
  word (`TryDiscardLockOf`); `Unremoved` in `lockBy` remembers that one did.
- **DependentPropagation.** `version` counts the saves of each root dataset,
  `derived` is the version its dependents were computed from. `pc` and `mem` are
  the walk thread, `beat` is the status thread; the value it publishes is
  captured in `BeatWake`, checked in `BeatCheck`, written in `BeatWrite`.
- **HostedSave.** `file`, `mark`, `status` are the job's files, `inbox` is the
  dispatcher queue in the memory of an Engine, `client`/`told`/`seen` the polling
  loop. The three files a client discards go one per step, and each may stay without a word;
  `kept` are the requests whose own file stayed. `reading` are requests that an Engine has
  read and not scheduled yet. `changing` is a dataset-types change job of the project: it
  looks for a busy class once, writes the new table, rebuilds the graphs, each of which moves
  `graph`, and nothing makes it wait for a save. `exposed` is history: whether the
  current attempt of a save took its lease beside such a job, and whether the job then moved the
  graph between its recheck and its run.
- **OpenObjectWatch.** The object is the sequence of its writes and a fingerprint is
  a position in it; `floor` is the oldest version that a cached stat may still
  report. `poll` and `rebasing` are the reads in flight with the generation check
  (`valid`) that a pause or another rebase clears; `pauses` is `pauseDepth`. A save of the
  window and a propagation job are brackets: each step of the bracket (post, write,
  answer, rebase) is an action. The attribution is a second read.
- **DatasetRuns.** An input is identified with the dataset that it selects; a load
  in flight remembers the inputs and the `DS_ID` it was made for. `runDataset` is cut at
  every await: validation, request, load. `savePatch` likewise: sent, answered,
  reload; the server's check of the time and its write are one step, as they are
  under one lock in `dataset_service.py`. `Reload` is every load of the current `DS_ID` outside
  a run: the Reload button, the news of recalculated datasets, a cleared dependency preview, an
  opened page, which may begin with a dataset id kept from before. No `await` holds on to
  its result but its own paint, so a superseded one is forgotten. `PatchFailsUnseen` is the answer that the
  page takes for a save although nothing was written.
- **AutoSave.** `slot`, `pending`, `debounce` are the scheduler's maps for one
  project; a save keeps the rows it was sent with. `AnswerIsGrid` tells the table
  whose rows are replaced by the answer from the one whose rows are left alone. In the second
  one an answer may be a job of the Engine: the save gives the slot back, the page follows the job
  (`changeJobs`, `changeRuns` for `runningChangeJobByProject`, `submission` for
  `lastSubmissionByProject`), a trigger meanwhile sends nothing (`skipped`), success
  either schedules the later edits or reads the table again (`reread`: what that read may return),
  and failure schedules nothing. A save whose answer was lost and a job that is no longer followed
  may still write (`strayWrites`). `givenUp` are the edits that the page took out of the grid
  or left unsent; a save is `crossed` when the table is read again while it runs.
- **NotebookRuns.** Everything between two awaited requests is one step, `runner` and
  `rest` say who awaits the running cell and goes on after it.
- **AssistantEdits.** `stage` is where the request's handler stands, `turn` the turn
  it waits for, `strays` the turns that nobody waits for any more; the copy is the set of
  requests whose turns have edited it. Apply is four steps: the read of the edited copy,
  the backup, the replacement, the manifest.
- **BackendLifecycle.** A host is one run of the application: `pc` says where it stands in
  `startBackendWithRetry`, in a shutdown or in a quit; `port` is `PORT`, `owns` is
  `backendOwned` with a live `serverProc`, `left` the candidates that are not probed yet,
  `heard` the server whose health answer led to the clearing of the port. `marker` is the
  client's file, which counts only while its process lives. `server` is every app server that
  an attempt may spawn: it binds its port some time after the spawn, and it exits some time
  after `/app/shutdown` (0.25 s), of itself, or killed. `used`, `absent` and `by` are
  history: the server under an open window, the hosts that a count of the clients could not
  find, and the host whose `/app/shutdown` a server obeys.

An operator whose comment starts with "Broken:" is a plausible mistake in the
operator after it. No specification uses these; they are there to demonstrate
that each property depends on the code (`PROJECT.json`, "mutants").

## 3. Runs

| Run | Instance | Shows |
|---|---|---|
| `EngineJobLease` | 2 workers, one may die at any time, 2 tokens | types, exclusion, release, refinement to `FencedClaim`; losses are noticed, dead owners are replaced |
| `DuplicationRivals` | 2 workers, 2 requests for one target, 2 files; any 3 of 2 crashes, 2 failed calls, 2 source edits, 1 cancel, 1 edit of the target | safety of publication, retention, cleanup and recovery |
| `DuplicationFaults` | 2 workers, 1 request, 1 file, one crash, lost lease, failed call and target edit together | the user's edit survives, every job ends |
| `DuplicationDisplaced` | 2 workers, 1 request, 2 files, one lost lease | counterexample, finding 1 |
| `PropagationFaults` | 2 workers, 2 saves with a dataset in common, one fault of any of five kinds | coverage, monotone dependents, draining |
| `PropagationRetention` | 2 workers, 2 saves, no fault | counterexample, finding 2 |
| `PropagationHeartbeat` | 1 worker, 2 saves, no fault | counterexample, finding 3 |
| `HostedSaveReview` | 2 Engines, a plan and its commit; a crash with a failed call, a displacement, or a rival of the class (walk or dataset-types change), or a delayed read | one run per marker, true answers, reviewed graph |
| `HostedSaveTwice` | 2 Engines, one save, no fault | counterexample, finding 4 |
| `HostedSaveRetracted` | 1 Engine, two saves, no fault | counterexample, finding 5 |
| `DesktopClient` | one part at a time: 1 save, 1 job and 1 outside write watched; 2 datasets, 2 entries, 1 reload, 1 write; 3 edits with change jobs; 2 cells and a third; 2 requests and 1 foreign write; 2 hosts, 2 ports, 1 attempt | 15 properties of the six client modules |
| `AutoSaveDropsEdits` | 2 edits, answers that replace the grid | counterexample, finding 6 |

Bounds, and why they are enough. Two workers are the smallest number with a
remover that acts on an old look and a victim that created the file since; that
a third one adds nothing is proved (section 4). Tokens are
reused when nobody refers to them any more, so runs are unbounded in length. Two
requests are enough for a rival of one target or class; two files for a mix of two
versions. Faults are counted per kind (`MaxFaults`) and in total (`MaxTotal`); `HostedSave`, whose
events are of more kinds, names the combinations that a run allows (`Mixes`). Every property is broken by at most two faults in some mutant, and the runs allow up to
three or four in duplication, so that one fault can strike the recovery from another. `DuplicationFaults` has one file
because its properties are about whole folders. `Capacity = 1` makes the
dispatcher overflow with two requests (the code has 4).

The six client modules share no state, so `MCDesktopClient` lets the initial state
choose the part that runs and leaves the other five as they are: one run, whose states
are the sum and not the product of the parts. Two further entries of inputs
(`MaxEntries`) give A, B, A again; with `MaxWrites = 1` a patch can find its
file changed or unchanged; the third edit of `AutoSave` comes after a given-up save and
its successor; the third cell is added while another executes; the second request is the one
that meets the stray turn of the first. The page sends one patch at a time, as the
code's `dirty` guard and the busy button do. One reload (`MaxReloads`) settles the page on the id
that a dropped load left, or on the one that it opened with. Three edits are one that a job
carries, one that a trigger skips during the job, and one after it. Two hosts are one that relies on a backend and
one that ends it; they are of one installation, of two builds of a profile, or of two
profiles, and the second port is the fallback for a preferred one that is in use. One
attempt is enough for the run (an attempt after a failed one begins like the first); any
number of hosts, ports and attempts is in the proof.

Conditions stated inside properties. `SuccessCoversChange`,
`DerivedNeverRegresses`, `ReviewedIsCurrent` and `CrashesNeedNobody` hold while
no live worker lost its lease (`LeasesHeld`, or no displacement so far): what a
displaced worker can do is in the first two findings and in section 6. Four properties name a
case in which the code does not do what they promise, each of them described in
section 6: `LockFollowsRequest` (a removal of the lock that failed: `Unremoved`),
`ReviewedIsCurrent` (a dataset-types change that looked for leases before the save took its own
and wrote after the save's recheck: `exposed`), `SettledPageShowsItsInputs` (a reload that shows a
dataset id left behind counts its inputs as missed) and `EveryEditIsSent` (edits that the page
gave up: `givenUp`). Each exception is recorded by the step that makes it, so
that all other ways to the same state remain violations.

Fairness. `EngineJobLease`: a thread that runs is scheduled, a worker that stays
up retries (the 5 s rescan), and an unattended file grows old. A job may take for
ever: only a release that has begun, or one after a latched loss, is fair. Strong fairness of
`Rename` only: it competes with an owner that removes the file first. Workers in
`CrashProne` have no fairness for acquiring, because they may never come back.
`ProjectDuplication`, `DependentPropagation`: weak fairness of each worker's
thread and of its status thread; the rescan offers retained requests for ever.
Clients of `DependentPropagation` have none: they may never come.
`BeatWake` has no fairness: a heartbeat may always be late. `HostedSave` claims no
liveness: its jobs are deliberately not retained.
`MCDesktopClient`: timers fire, and each request of a page is answered somehow (also
with an error or by a thrown call); the user does nothing that must happen. A save of a
settings table may hang for ever: only the watchdog's timer is certain. A change job is followed
until it ends or until its status cannot be read any more, so the follow ends, and the read of the table
after it is answered. Liveness is stated in the form `[]<>P` where `P ~> Q` would say the
same, since what has become true stays true. Strong
fairness is only used for the read of a poll: pauses may overtake each single poll, but
they are finitely many, and polls are made again and again. Deadlock is not checked
there, because a user who does nothing more stops the page, and an alert ends the watch.

## 4. Proofs

All theorems are about every value of the constants, subject to the named
assumptions only.

`EngineJobLeaseProofs` proves for every set of workers and tokens, assuming only
`NoToken \notin Tokens`:

- `LeaseTypeCorrect`, `DisplacementIsExplained`, `FreshLeasesExclude`,
  `ReleaseIsSafe` and `LeaseImplementsFencedClaim`.

`DisplacementExplained` is not inductive. A worker that stands between its look at
the path and its rename or unlink removes whatever is there by then, so the
invariant must say what can be there: `RenameWindow` (a stale file, or one created
since), `UnlinkWindow` (its own file, or one created since), with
`StaleIsRecorded`, `TokenHeld` and `TokensDistinct` to identify the victim.
`LeaseInv` is their conjunction; `InitLeaseInv` and `LeaseInvStep` establish it,
one step per action. Exclusion follows because two holders cannot both own the one
token in the file. The refinement maps each worker to none/valid/lost; a step of
the files that changes ownership is one of the four steps of `FencedClaim`, and
every other step is a stutter; distinct tokens are what prevents a lost claim from
becoming valid again.

The three consumers of the lease are proved to use no more than its promise:
`DuplicationUsesFencedClaim` (for each request), `PropagationUsesFencedClaim` and
`SavesUseFencedClaim` state `Spec => FencedClaim!Spec` under a mapping of their `claim`.
Together with `LeaseImplementsFencedClaim` this is the argument that the jobs may be modelled
and checked without the files of the lease: what `EngineJobLease` lets happen to a claim is
what the jobs allow for, and they ask only for what it offers. The reasons are small invariants: a
worker that is about to look for the lease has no claim (`AtRest`, `NoClaimBefore`), one
that gives it up has one (`Held`). Propagation and hosted saves share the lease of a reserving class,
so the mapping of the saves counts the durable walk as one more worker (`Walk`).

`DatasetWindowProofs` proves of the page `PageTypes`, `SettledPages` and `PatchesStayHome` for every
set of datasets and every bound (`DatasetBounds`: the bounds are naturals).
`SettledPageShowsItsInputs` says what is true when nothing is in
flight, so it is not inductive: `InputsAreOnTheirWay` says where the current inputs
are while something is (a timer is set, a run is queued, the run in flight is for them, or
a load that is still the latest carries them), next to `PatchAddressed`, the tie between
the grid, its file time and the edits made on it. Loads outside a run are part of it: one of them may
overtake the load of a run, and then carries the inputs itself, and one that shows another
dataset than that of its inputs records them as missed. One lemma per group of variables that a
step touches (`GridStep`, `FlightsStep`, `LoadsStep`, `WayStep`) carries the invariant.

Of the watch it proves `WatchTypes` and `OwnChangesAreQuiet` for any saves, jobs, outside writes
and lags, assuming that the names of writers are distinct (`WritersAssumption`). The property
speaks of the step that alerts; why a change of the own application does not lead there is decided
when its writer's bracket opens. `WatchInv` follows the bracket: `PausesAreOpen` (the pause
depth is the number of open brackets, and each is resumed by one rebase), `WritesAreKnown` (what
is in the object and how far its writer got), `SavesTakeTurns`, and `SettledIsBehind`: where
stats do not lag, every read in flight and the baseline are not older than what a writer
with a closed bracket has written.

`EditingProofs` proves of the auto-save `SlotSafety` for both tables, and `SavedIsInTheFile` under
`AnswerIsGrid = FALSE`: with an answer that replaces the grid it would only speak of
the edits that are left (finding 6). On top of the single flight (`SlotInv`) the strengthening
says that with no edit waiting the holder of the slot carries the grid, unless the table was
read again under it (`HolderCarriesTheGrid`), and that once it has written, its rows are in the file unless
a given-up save or a job wrote after it (`HolderWroteTheFile`). `UnsentEditsAreScheduled` is the
safe half of `EveryEditIsSent`, for both tables: in every state an edit that no save has carried
and the page has not given up has a timer, or waits for a save that holds the slot, whose end
schedules it, or was skipped by a trigger and waits for the change job, or for the table to be
read again. It rests on `NothingIsLost` (such an edit is still in the grid) and
`RowsWereCarried` (what a save, a job or a remembered submission holds was carried). That a
job's success schedules the later edits is why the disjunct of the job suffices, that its failure
does not is why the edits given up must be named.

Of the assistant it proves `CancelPreventsApply`, `EditsStayApart` and
`RevertIsExact`. The strengthening ties the copy to the requests that can have edited it
(its own and the strays at the time of staging), a promised cancel to the flag that
the apply reads, and the manifest to what the apply replaced.

Of the notebook it proves `NotebookTypes` and `IdlePagesHaveServed` for any number of cells
(`NotebookAssumption`: the first cells are among them, and `NoCell` is none). The types are the larger part: a queue
without repetitions over cells that are added and deleted while one runs needs that no id is given out
twice (`CellsAreFresh`), and facts about the splicing of lists. That an idle page has no
queue is then `DrainServes`: each path on which a run ends drains it, but for the one that the
property names.

`DesktopClientProofs` lifts all this to the run's composition: `ClientIsItsParts` (a step of the
client is a step of one part and a stutter of the others), `ClientTypes` and `ClientSafety`.

`BackendLifecycleProofs` proves `LifecycleTypes` and `BackendUnderAWindow` for any
hosts, installations, ports and attempts. The action property speaks of the step that ends a
server, the reason is several steps older, so `Known` says what is known in between:
every host that has begun has a marker or a failed write (`MarkersStand`), so whoever a
quitting host did not count had not begun, was unmarked, or is gone (`CountsAreComplete`);
that stays so until the server it asked has ended, because the host does not count again
after its last post (`ObeyedHostsAreQuitting`); and a health answer is kept only to clear an
obsolete backend of the own profile (`AnswersAreObsolete`). Each action is an `Edge` of its
host and a `ServerEdge` of the servers, and the invariant is proved over edges.

`HostedSaveProofs` proves `HostedSaveTypes`, `OneRunPerClaim`, `ReviewsAreCurrent` and
`AnswersAreTrue` for any Engines (finitely many: the runs that are still to come are
counted), requests, plans, queue bound and faults. Each property has an invariant of its
own. `RunsAreCounted`: the runs of a request and the Engines that stand between its claim
and its run are together at most the claim markers that were removed plus the one that
is there. `ReviewsHold` follows a review through the lease to the save: only the Engine
with the lease can change the graph (`OnlyPostedIsHeld`, `ClassIsHeldOnce`), or a change of the
dataset types, which has then been running since the lease was taken and is recorded
for that save (`exposed`). `FirstRuns`
relates a request nobody has cleaned up yet to its one worker and its status, so that an
answer says what that worker did. `RetractedIsOnlyInMemory` is what remains true beside
finding 5: after the 503 the request file is gone (`FilesGoFirst`), so only an Engine that had
read the request before can still run it, unless the client failed to remove that file
(`kept`), which the 503 does not tell.

`DependentPropagationProofs` proves `PropagationTypes`, `SuccessIsTrue` and
`WalksGoForward` for any workers, requests, roots and faults. `SuccessCoversChange` and
`DerivedNeverRegresses` need each other: a walk that writes must have read at least what
the changes of its requests made and what the dependents already reflect (`Reads`), which
survives only because no other walk writes meanwhile (`Held`) and because a request joins
a walk after its save (`Known`); what a walk has written it keeps covering (`Covers`)
because nothing goes back. `Moves` is the frame: whom a step of a worker may answer,
whatever step it is. Both hold while no live worker has lost its lease (`LeasesHeld`).
`SavesReachTheirDependents` is the converse promise: a request file goes only when the dependents
reflect its save, whoever died on the way and also if its client never comes back (`NoSaveIsDropped`,
which supposes further that no dependent declines and no file write fails, since such a
request is answered with an error and removed). `Kept` strengthens it by where a file is about to go: an answer found
before the claim, or the unlink after an answer, was a success.

`ProjectDuplicationProofs` proves every safety property of `ProjectDuplication` for any
workers, requests, files, faults and bounds, from `NamesAssumption` (distinct names; a
missing folder is not a folder): `DuplicationTypes`, `RequestsAreRetained`,
`OutcomesAreFinal`, `LocksAreReleased`, `PublishedCopiesAreSnapshots`, `StatusesAreTrue`,
`CrashesRecover`, `FailuresAreClean` and `EditsSurvive`. All but the first suppose that no
live worker has lost its lease so far (`LeasesHeld`), and `LocksAreReleased` excepts the lock
whose removal failed without a word; finding 1 is what happens to the
snapshot after that. None of the properties is inductive, since each speaks of files and a
worker acts on what it read of them some steps ago. The argument:

- `Types` adds to `TypeOK` what a phase says of a worker's memory and claims. From it come
  `OneOwner` (a request has one worker) and `Frame` (a step leaves the other workers and
  the files of other requests alone), so that an invariant about one request is
  only ever at the mercy of its own worker.
- `Retention`: an attempt that may still write an outcome (`Open`) has none yet, and a
  queue file is removed under one. `Locks` says whose the lock is in each phase, and
  `LocksHeld` that a worker has it from `Begin` or `RecoverLock` until it unlocks.
- `Copies`: the target, the journals, the manifests in memory and the staging folders of
  the phases after verification are all the source at an instant, but for edits.
- `Shapes`, `Fields` and `Edges` sum up all steps of a worker (quiet, exception, report, or
  one of six that write the memory), and `OwnFiles`, `Guards` and `RaiseReasons` what it
  does to its files, what it has just read, and why it raised. `Knowledge` and `Outlook`
  are then proved by phase and not by action.
- `Kinds` separates first attempts from recoveries; `TargetFree` says that nobody publishes
  between a fingerprint and its rename, since the lock is held.
- `Knowledge` ties journal, staging folder and phase together (a worker before `publish`
  has no journal, one in a recovery has; what `rmtree` removes holds no user's edit).
  `Outlook` adds whose the target is, and where the copy of an interrupted request is
  (`Whereabouts`): with a journal and no failed call, in the staging folder or published,
  never both and never neither. `Leftovers` and `EditsSurvive` follow from `Knowledge`.

Only proved: `NoSaveIsDropped`, `RetractedIsNotRead`, `UnsentIsScheduled` and the use of
`FencedClaim` by its three consumers are stated in the proof modules and have no run.

Only model-checked: the six properties that their runs refute (section 5), and everything under
fairness (`LossIsNoticed`, `AbandonedIsTakenOver`, `JobsEnd`, `QueueDrains`, `OutsideChangeIsAlerted`,
`DatasetPageSettles`, `EveryEditIsSent`, `QueuedCellIsTaken`): ENABLED and liveness are
outside this prover. Every safety property of a passing run is proved.

## 5. Findings

1. A displaced duplication worker removes files of the staging folder that its
   successor verified; an incomplete project is published as success.
2. Propagation reads the terminal status before it holds the lease: an answered
   request runs again and its answer returns to "processing" without a request
   file.
3. The status heartbeat may publish an older progress after a newer one.
4. A hosted save runs twice when its client removes the claim marker while
   another Engine still queues the payload.
5. A retracted save (503) runs when a busy Engine had read it already.

6. The answer of a reserving-class-types save replaces the rows of the grid; an edit
   made while the save was in flight disappears before its own save is sent.

`PROJECT.json` quotes the lines.

## 6. Other behaviour seen while modelling

No run states these as claims of the documentation:

- the stale check-then-write of a displaced duplication worker can turn a
  terminal status back; rollback after a failed commit does not look at the lease;
- a rollback whose error status cannot be written leaves the journal without
  copies, and the next attempt ends in `recovery_required`;
- two requests for one target, one failed rename and a crash can leave a success
  without a project: the first request keeps its journal, the rival publishes an equal
  copy, the first one's recovery finds the target equal to its manifest and reports
  success (`project_duplication.py:1399-1430`, without the target lock), then the
  rival's own commit fails and its rollback removes the project. `StatusTellsTheTarget`
  therefore promises the target after success only without a failed call or without a
  rival; `CrashesNeedNobody` excludes a user's edit of the target, which makes a
  recovery ask for a person on purpose;
- a target lock that cannot be removed is left without a word (`project_duplication.py:652-655`,
  `1518-1519`), and the request and its outcome go on as if it were gone: the target's name is
  then refused for six hours;
- a dataset-types change checks once that the classes are quiet (`dataset_types_change.py`) and then
  holds only the lease of its project scope, which the acquisition of a class lease does not consult
  (`arcrho_dependent_propagation_contract.py:544-560`). A save that takes its class in between
  can run on a graph that changed after its recheck, although `save_jobs.py:378-380` says that the
  lease guarantees nothing else can change the class;
- a retraction that cannot remove the request file answers 503 all the same
  (`arcrho_engine_save_contract.py:394-398`), and every Engine may read that file later;
- a cancel marker written after the cleanup lingers; a resubmitted ID of a
  cancelled job is reported as queued;
- a save that landed can be answered 500 when its result cannot be written;
- a request file that could not be removed outlives its pruned marker (6 h) and
  is then executed by the rescan, long after the client was told 504: hence
  `OneRunPerMarker` and no property that every hosted request leaves the queue;
- hosted saves do not look at their lease again before they write;
- comments and docs still say that hosted saves claim by deleting the request
  (`main.py`, `dependent_propagation.md`), the code claims by marker.

Desktop client:

- change watch: a propagation job of the own application may still alert
  (`docs/ui/dataset.md` says it never does) when a lagging stat is taken as the baseline, when
  a save's rebase supersedes the job's, when the job poller gives up, or when
  the job writes before its start is broadcast; `OwnChangeAlertsOnlyInAGap` names these gaps.
  A rebase also absorbs a foreign write that lands between the own one and the rebase;
- dataset page: after A, B, A during one load, the load is dropped and no run follows, because
  `lastAutoKey` is A already; `lastAutoKey` also stays after a failed validation or a
  thrown request. The dropped load leaves its `DS_ID` behind: a reload (the button, or the news that
  a dataset was recalculated) then shows dataset B under the inputs A, and a patch that follows
  is, consistently, one of B. Edits made while `savePatch` awaits are cleared by its reload. A
  status other than 409 or 503 (404, 500), and a patch whose cells were all rejected,
  are taken for a save, and the reload drops the edits;
- auto-save: the answer of a dataset-types save clears the renames made meanwhile; a
  given-up save that lands late overwrites the file of its successor, and one that
  answers late clears the shown error: `SavedMeansSaved` excludes files written late. Edits that a
  trigger skipped while a change job ran stay in the grid unsent when the job fails, until the
  next edit (`project_settings_dataset_types.js:1892-1914`, `1932`). After a job's success an edit made
  while the table is read again is replaced by what was read, and a failed read empties
  the grid under the message of success;
- notebook: `runCellAndAdvance` returns without draining when its cell was deleted
  meanwhile, so queued cells keep "[*]"; `runAllCells` iterates over the live array, so a
  deletion skips a cell;
- ArcBot: a cancel during the model discovery is refused and the request goes on; a
  turn that timed out or was canceled before it had an id edits the copy of a later
  request or of the own fallback (`AppliedEditIsOfItsRequest` names both); an apply
  overwrites what others wrote since the staging, which is then only in the backup; an
  unreadable target is backed up as the page's contents; a failure after the rename leaves no
  manifest; a manifest that cannot be removed stays and is refused by its hash;
- backend lifecycle: `ReliedOnBackendIsLeft` lists what may still end the backend under a
  window. A health answer that takes more than 700 ms counts as none, and the preferred
  port is then cleared of a busy backend of a sibling, of another profile or of another
  program (`backend_lifecycle.js:348-371`). A host that starts after the count of a quitting
  one may reuse a backend that is about to exit; `/app/shutdown` goes to whoever listens on
  the port, which after an exit may be another profile's server. A host that quits first leaves
  its backend to the others, and none of them, owning nothing, ever stops it. The `timeout` of
  `httpPost` ends nothing (no handler), so a listener that hangs delays the quit for as long
  as it does.

## 7. Abstractions, and what is not modelled

Requests are well formed and paths valid: rejections before a claim are left out.
Times are nondeterministic: a lease may be lost whenever `FencedClaim!Displace` is
allowed; that a target lock of a live worker turns stale after six hours is left
out. In the two durable jobs a worker picks a request from the folder; a payload
that waits in its dispatcher after the file was removed meets a terminal status
first. The walk is one read and one write. A save is one step, which may move the graph.
A client of a hosted save does not die, and pruning is one step. The creation of a
target lock does not fail half-way. Progress statuses of a hosted save during its walk
are left out (they pass the same check as its first status).

In the client modules the contents of a dataset, table, cell or file are what tells
versions apart. A stat and an attribution of the watch are single reads; times are
ordered as the writes are. Loading another notebook while cells are queued (the cell ids
start again), Markdown cells, review requests and Claude models of ArcBot, the plan
dialog of dataset types (its apply and cancel, which replace the grid) and the save that the field
mappings make without the scheduler are left out; so are, of the dataset page, the sidecar
synchronisation, a saved sidecar that sets `DS_ID` and the file time, and the cached opening of project
instances. Of the
backend lifecycle the endpoint file, the control flags, the artifact manifest and the
reloading supervisor of development runs (`app_shell.py`) are left out; the port clearing is
that of Windows, and process ids are not reused.

Not modelled, with reasons in `PROJECT.json`: Gateway, the other project-scope
jobs (of the dataset-types change only what it does to saves and to the page is modelled), the ResQ Bridge, the legacy calculation queue, process supervision of the servers, builds
and deployment (planned below); numerical calculation, views, operator tools and
request/response services (nothing for a model checker). Of the JavaScript, about a
quarter is the vendored editor and most of the rest is rendering, pickers and
forms: code without a protocol, whose state is the widget's. The six client modules are
where it has actions that overlap; they cover a small share of its lines. The protocols of
the server side are Python and are the larger part of the models.

## 8. Plan

Done: the lease and its abstraction with proofs, duplication, propagation, hosted
saves, all with proofs and linked to the lease; the six asynchronous parts of the desktop
client and their composition, with proofs of all their safety properties.

Next, in order of importance:

1. `GatewaySave`: idempotency receipts, retries and re-publication, composed with
   an abstract save job that `HostedSave` implements.
2. `ProjectScopeLease`: project-scope lease, narrowing and hold probes with the
   class leases; the dataset types change and source refresh jobs on top of it.
3. Receipts and resubmission of duplications; the dispatcher's memory for durable
   jobs; the legacy delete-to-claim queue.
4. ResQ import commit order; build rotation and rollback; method windows that
   wire the change watch; loading another notebook while cells are queued.
