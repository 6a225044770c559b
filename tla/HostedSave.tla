----------------------------- MODULE HostedSave -----------------------------
(***************************************************************************)
(* An Engine-hosted save (arcrho_engine/save_jobs.py and the client's       *)
(* engine_hosted_save_service.py): the user reviews a plan of the dependent *)
(* objects, then an Engine saves under the lease of the reserving class.    *)
(*                                                                         *)
(* A request is a file in the queue folder.  Every Engine reads it into the *)
(* memory of its dispatcher; an exclusively created claim marker picks the  *)
(* one that runs it; a status file carries its answer.  The client polls,   *)
(* retracts a request that nobody picked up, and removes the files of a job *)
(* that was answered.  All requests here are about one reserving class.     *)
(*                                                                         *)
(* The client's hold probe and its post are separate in the code, so a post *)
(* may come at any time.  The lease is used through FencedClaim's promise.  *)
(***************************************************************************)
EXTENDS Naturals, Sequences, FiniteSets

CONSTANTS
    Engines,
    Requests,   \* request IDs
    Plans,      \* those of mode "plan"; the others are commits
    PlanOf,     \* the plan that the user of a commit has reviewed, or NoRequest
    Capacity,   \* bound of a dispatcher's queue
    Mixes,      \* the bounds on events: how many of each kind happen together
    NoRequest

\* The last two are not faults: another job changes the graph, and an Engine is
\* slow to schedule a request that it has read.
FaultKinds == {"crash", "displace", "io", "rival", "delay"}

ASSUME PlansAssumption ==
    Plans \subseteq Requests /\ PlanOf \in [Requests -> Plans \cup {NoRequest}]
ASSUME FaultsAssumption ==
    /\ Mixes \subseteq [FaultKinds -> Nat]
    /\ Capacity \in Nat \ {0}
ASSUME NamesAssumption == NoRequest \notin Requests /\ IsFiniteSet(Engines)

VARIABLES
    graph,     \* version of the dependency graph that a plan is derived from
    walking,   \* a propagation walk holds the lease of the class
    changing,  \* how far a change of the dataset types has come
    file,      \* the request file is in the queue
    mark,      \* the claim marker exists
    status,    \* the status file: its state, and the graph that a plan reports
    client,    \* the phase of the client of each request
    told,      \* what the client has told its user
    seen,      \* request_claimed
    reviewed,  \* the graph version that the user of a commit has reviewed
    reading,   \* requests that an Engine has read and not scheduled yet
    inbox,     \* requests that wait in the dispatcher of each Engine
    pc,        \* the phase of its worker thread
    job,       \* the request it runs
    claim,     \* its claim on the lease of the class
    mem,       \* what it is about to publish and where it goes on then
    faults,    \* events so far, of each kind
    runs,      \* history: how often the save of a request was executed
    unmarked,  \* history: how often its claim marker was removed
    kept,      \* history: requests whose file their client failed to remove
    exposed    \* history: how a change of the dataset types met its save

queue == <<file, mark, status>>
user == <<client, told, seen, reviewed>>
engine == <<reading, inbox, pc, job, claim, mem>>
class == <<graph, walking, changing>>
history == <<runs, unmarked, kept, exposed>>
vars == <<class, queue, user, engine, faults, history>>

Terminal == {"success", "refused", "failed"}
Answers == {"saved", "refused", "failed", "unavailable", "timeout"}
Phases == {"idle", "claim", "remove", "publish", "publish_write", "plan",
           "lease", "recheck", "save", "result", "release"}
ClientPhases == {"new", "polling", "deadline", "cleanup", "retract", "done"}

Status == [state : {"none", "processing"} \cup Terminal, graph : Nat]
NoStatus == [state |-> "none", graph |-> 0]
Processing == [NoStatus EXCEPT !.state = "processing"]
Refused == [NoStatus EXCEPT !.state = "refused"]
Failed == [NoStatus EXCEPT !.state = "failed"]
Success(g) == [state |-> "success", graph |-> g]

\* How many of the artifacts (status, request, claim) a client has discarded is
\* part of its phase.
TypeOK ==
    /\ graph \in Nat /\ walking \in BOOLEAN /\ changing \in {"no", "looked", "wrote"}
    /\ file \in [Requests -> BOOLEAN]
    /\ mark \in [Requests -> BOOLEAN]
    /\ status \in [Requests -> Status]
    /\ client \in [Requests -> [phase : ClientPhases, gone : 0..3]]
    /\ told \in [Requests -> Answers \cup {"nothing"}]
    /\ seen \in [Requests -> BOOLEAN]
    /\ reviewed \in [Requests -> Nat]
    /\ reading \in [Engines -> SUBSET Requests]
    /\ inbox \in [Engines -> Seq(Requests)]
    /\ \A e \in Engines : Len(inbox[e]) <= Capacity
    /\ pc \in [Engines -> Phases]
    /\ job \in [Engines -> Requests \cup {NoRequest}]
    /\ claim \in [Engines -> {"none", "valid", "lost"}]
    /\ mem \in [Engines -> [out : Status, next : Phases]]
    /\ faults \in [FaultKinds -> Nat]
    /\ runs \in [Requests -> Nat] /\ unmarked \in [Requests -> Nat]
    /\ kept \subseteq Requests
    /\ exposed \in [Requests -> {"no", "beside", "overtaken"}]

Idle == [out |-> NoStatus, next |-> "idle"]
At(phase) == [phase |-> phase, gone |-> 0]

Init ==
    /\ graph = 0 /\ walking = FALSE /\ changing = "no"
    /\ file = [r \in Requests |-> FALSE] /\ mark = file
    /\ status = [r \in Requests |-> NoStatus]
    /\ client = [r \in Requests |-> At("new")]
    /\ told = [r \in Requests |-> "nothing"]
    /\ seen = [r \in Requests |-> FALSE]
    /\ reviewed = [r \in Requests |-> 0]
    /\ reading = [e \in Engines |-> {}]
    /\ inbox = [e \in Engines |-> <<>>]
    /\ pc = [e \in Engines |-> "idle"]
    /\ job = [e \in Engines |-> NoRequest]
    /\ claim = [e \in Engines |-> "none"]
    /\ mem = [e \in Engines |-> Idle]
    /\ faults = [k \in FaultKinds |-> 0]
    /\ runs = reviewed /\ unmarked = reviewed
    /\ kept = {} /\ exposed = [r \in Requests |-> "no"]

Goto(e, phase) == pc' = [pc EXCEPT ![e] = phase]
IsTerminal(r) == status[r].state \in Terminal

Spend(kind) ==
    /\ faults' = [faults EXCEPT ![kind] = @ + 1]
    /\ \E mix \in Mixes : \A k \in FaultKinds : faults'[k] <= mix[k]

\* The lease of the class is held by a live owner.
Busy == walking \/ \E e \in Engines : claim[e] = "valid"

-----------------------------------------------------------------------------
(* The client                                                              *)

\* A commit is posted after its plan was answered and carries its fingerprint.
Post(r) ==
    /\ client[r].phase = "new"
    /\ PlanOf[r] # NoRequest => told[PlanOf[r]] = "saved"
    /\ reviewed' = [reviewed EXCEPT ![r] =
                        IF PlanOf[r] = NoRequest THEN @ ELSE reviewed[PlanOf[r]]]
    /\ file' = [file EXCEPT ![r] = TRUE]
    /\ client' = [client EXCEPT ![r] = At("polling")]
    /\ UNCHANGED <<class, mark, status, told, seen, engine, faults, history>>

\* The poll reads a terminal status: the user gets the answer at once, the
\* leftovers are removed in the background.
SeeAnswer(r) ==
    /\ client[r].phase = "polling" /\ IsTerminal(r)
    /\ told' = [told EXCEPT ![r] =
            IF status[r].state = "success" THEN "saved" ELSE status[r].state]
    /\ reviewed' = [reviewed EXCEPT ![r] = IF r \in Plans THEN status[r].graph ELSE @]
    /\ client' = [client EXCEPT ![r] = At("cleanup")]
    /\ UNCHANGED <<class, queue, seen, engine, faults, history>>

SeeProcessing(r) ==
    /\ client[r].phase = "polling" /\ ~seen[r] /\ status[r].state = "processing"
    /\ seen' = [seen EXCEPT ![r] = TRUE]
    /\ UNCHANGED <<class, queue, client, told, reviewed, engine, faults, history>>

\* The claim deadline has passed and the poll reads no status.
ClaimDeadline(r) ==
    /\ client[r].phase = "polling" /\ ~seen[r] /\ status[r].state = "none"
    /\ client' = [client EXCEPT ![r] = At("deadline")]
    /\ UNCHANGED <<class, queue, told, seen, reviewed, engine, faults, history>>

\* Then it looks whether the request file is still there.
LookForRequest(r) ==
    /\ client[r].phase = "deadline"
    /\ IF file[r]
       THEN /\ client' = [client EXCEPT ![r] = At("retract")]
            /\ UNCHANGED seen
       ELSE /\ client' = [client EXCEPT ![r] = At("polling")]
            /\ seen' = [seen EXCEPT ![r] = TRUE]
    /\ UNCHANGED <<class, queue, told, reviewed, engine, faults, history>>

\* discard_save_job_artifacts: the status, the request, then the claim marker.
RemoveArtifact(r) ==
    \/ /\ client[r].gone = 0
       /\ status' = [status EXCEPT ![r] = NoStatus]
       /\ UNCHANGED <<file, mark, unmarked>>
    \/ /\ client[r].gone = 1
       /\ file' = [file EXCEPT ![r] = FALSE]
       /\ UNCHANGED <<status, mark, unmarked>>
    \/ /\ client[r].gone = 2
       /\ mark' = [mark EXCEPT ![r] = FALSE]
       /\ unmarked' = [unmarked EXCEPT ![r] = IF mark[r] THEN @ + 1 ELSE @]
       /\ UNCHANGED <<status, file>>

ArtifactExists(r) ==
    \/ client[r].gone = 0 /\ status[r] # NoStatus
    \/ client[r].gone = 1 /\ file[r]
    \/ client[r].gone = 2 /\ mark[r]

\* A file that cannot be removed is left without a word.  A retraction answers
\* 503 when it is done, whatever was left.
Discard(r) ==
    /\ client[r].phase \in {"cleanup", "retract"}
    /\ client' = [client EXCEPT ![r] =
            IF @.gone = 2 THEN [phase |-> "done", gone |-> 3]
            ELSE [phase |-> @.phase, gone |-> @.gone + 1]]
    /\ told' = [told EXCEPT ![r] =
            IF client[r].gone = 2 /\ client[r].phase = "retract" THEN "unavailable" ELSE @]
    /\ \/ RemoveArtifact(r) /\ UNCHANGED <<kept, faults>>
       \/ /\ ArtifactExists(r) /\ Spend("io")
          /\ kept' = IF client[r].gone = 1 THEN kept \cup {r} ELSE kept
          /\ UNCHANGED <<queue, unmarked>>
    /\ UNCHANGED <<class, seen, reviewed, engine, runs, exposed>>

\* The total deadline: 504, the artifacts stay.
Timeout(r) ==
    /\ client[r].phase = "polling" /\ seen[r] /\ ~IsTerminal(r)
    /\ told' = [told EXCEPT ![r] = "timeout"]
    /\ client' = [client EXCEPT ![r] = At("done")]
    /\ UNCHANGED <<class, queue, seen, reviewed, engine, faults, history>>

Client(r) ==
    \/ Post(r) \/ SeeAnswer(r) \/ SeeProcessing(r) \/ ClaimDeadline(r)
    \/ LookForRequest(r) \/ Discard(r) \/ Timeout(r)

-----------------------------------------------------------------------------
(* The dispatcher and the claim                                            *)

InboxOf(e) == {inbox[e][i] : i \in 1..Len(inbox[e])}

\* Broken: the dispatcher does not look whether its queue is full.
EnqueueUnbounded(e, r) ==
    inbox' = [inbox EXCEPT ![e] =
        IF r = job[e] \/ r \in InboxOf(e) THEN @ ELSE Append(@, r)]

\* schedule: a request that is pending or finds no room is dropped.
Enqueue(e, r) ==
    inbox' = [inbox EXCEPT ![e] =
        IF r = job[e] \/ r \in InboxOf(e) \/ Len(@) = Capacity THEN @ ELSE Append(@, r)]

\* process_file: the event or the rescan reads the request into memory ...
Offer(e, r) ==
    /\ file[r] /\ Enqueue(e, r)
    /\ UNCHANGED <<class, queue, user, reading, pc, job, claim, mem, faults, history>>

\* ... and may be slow to schedule what it has read.
Read(e, r) ==
    /\ file[r] /\ r \notin reading[e] /\ Spend("delay")
    /\ reading' = [reading EXCEPT ![e] = @ \cup {r}]
    /\ UNCHANGED <<class, queue, user, inbox, pc, job, claim, mem, history>>

Schedule(e, r) ==
    /\ r \in reading[e]
    /\ reading' = [reading EXCEPT ![e] = @ \ {r}]
    /\ Enqueue(e, r)
    /\ UNCHANGED <<class, queue, user, pc, job, claim, mem, faults, history>>

Dequeue(e) ==
    /\ pc[e] = "idle" /\ inbox[e] # <<>>
    /\ job' = [job EXCEPT ![e] = Head(inbox[e])]
    /\ inbox' = [inbox EXCEPT ![e] = Tail(@)]
    /\ Goto(e, "claim")
    /\ UNCHANGED <<class, queue, user, reading, claim, mem, faults, history>>

\* The end of process_hosted_save_request: its finally clause releases.
Finish(e) ==
    /\ pc' = [pc EXCEPT ![e] = "idle"]
    /\ job' = [job EXCEPT ![e] = NoRequest]
    /\ claim' = [claim EXCEPT ![e] = "none"]
    /\ mem' = [mem EXCEPT ![e] = Idle]
    /\ UNCHANGED <<reading, inbox>>

\* Broken: the marker is opened with "w" and admits every caller.
ClaimUnarbitrated(e) ==
    /\ pc[e] = "claim"
    /\ mark' = [mark EXCEPT ![job[e]] = TRUE]
    /\ Goto(e, "remove")
    /\ UNCHANGED <<reading, inbox, job, claim, mem>>
    /\ UNCHANGED <<class, file, status, user, faults, history>>

\* claim_save_job
Claim(e) ==
    /\ pc[e] = "claim"
    /\ IF mark[job[e]]
       THEN Finish(e) /\ UNCHANGED mark
       ELSE /\ mark' = [mark EXCEPT ![job[e]] = TRUE]
            /\ Goto(e, "remove")
            /\ UNCHANGED <<reading, inbox, job, claim, mem>>
    /\ UNCHANGED <<class, file, status, user, faults, history>>

\* publish(out), then continue at a phase.
PublishThen(e, out, phase) ==
    /\ mem' = [mem EXCEPT ![e] = [out |-> out, next |-> phase]]
    /\ Goto(e, "publish")

\* safe_remove of the queue file is best effort.
RemoveRequest(e) ==
    /\ pc[e] = "remove"
    /\ \/ file' = [file EXCEPT ![job[e]] = FALSE] /\ UNCHANGED faults
       \/ file[job[e]] /\ Spend("io") /\ UNCHANGED file
    /\ PublishThen(e, Processing, IF job[e] \in Plans THEN "plan" ELSE "lease")
    /\ UNCHANGED <<class, mark, status, user, reading, inbox, job, claim, history>>

-----------------------------------------------------------------------------
(* publish: a terminal status is read first, and kept                      *)

PublishCheck(e) ==
    /\ pc[e] = "publish"
    /\ Goto(e, IF IsTerminal(job[e]) THEN mem[e].next ELSE "publish_write")
    /\ UNCHANGED <<class, queue, user, reading, inbox, job, claim, mem, faults, history>>

PublishWrite(e) ==
    /\ pc[e] = "publish_write"
    /\ status' = [status EXCEPT ![job[e]] = mem[e].out]
    /\ Goto(e, mem[e].next)
    /\ UNCHANGED <<class, file, mark, user, reading, inbox, job, claim, mem, faults, history>>

\* The status cannot be replaced: the first announcement ends the job, a
\* progress report is forgotten, a success becomes an error 500, and an error
\* that cannot be told is only logged.
PublishFails(e) ==
    /\ pc[e] = "publish_write" /\ Spend("io")
    /\ \/ /\ mem[e].next \in {"plan", "lease"}
          /\ Finish(e)
       \/ /\ mem[e].next = "result"
          /\ Goto(e, "result") /\ UNCHANGED <<reading, inbox, job, claim, mem>>
       \/ /\ mem[e].out.state = "success"
          /\ PublishThen(e, Failed, "release") /\ UNCHANGED <<reading, inbox, job, claim>>
       \/ /\ mem[e].out.state \in {"refused", "failed"}
          /\ Goto(e, "release") /\ UNCHANGED <<reading, inbox, job, claim, mem>>
    /\ UNCHANGED <<class, queue, user, history>>

-----------------------------------------------------------------------------
(* The job                                                                 *)

\* _process_plan_request, without the lease: reads the graph and answers it.
AnswerPlan(e) ==
    /\ pc[e] = "plan"
    /\ PublishThen(e, Success(graph), "release")
    /\ UNCHANGED <<class, queue, user, reading, inbox, job, claim, faults, history>>

\* The lease of the class says nothing of a change of the dataset types.
LeaseTake(e) ==
    /\ pc[e] = "lease" /\ ~Busy
    /\ claim' = [claim EXCEPT ![e] = "valid"]
    /\ Goto(e, "recheck")
    /\ exposed' = [exposed EXCEPT ![job[e]] = IF changing = "no" THEN "no" ELSE "beside"]
    /\ UNCHANGED <<class, queue, user, reading, inbox, job, mem, faults, runs, unmarked, kept>>

\* Broken: after the wait the save runs without the lease.
LeaseBusyProceeds(e) ==
    /\ pc[e] = "lease" /\ Busy
    /\ Goto(e, "recheck")
    /\ UNCHANGED <<class, queue, user, reading, inbox, job, claim, mem, faults, history>>

\* _acquire_lease_with_wait gives up: 423.
LeaseBusy(e) ==
    /\ pc[e] = "lease" /\ Busy
    /\ PublishThen(e, Refused, "release")
    /\ UNCHANGED <<class, queue, user, reading, inbox, job, claim, faults, history>>

\* plan_fingerprint_matches, under the lease: 409 when the graph has moved.
Recheck(e) ==
    /\ pc[e] = "recheck"
    /\ IF PlanOf[job[e]] = NoRequest \/ reviewed[job[e]] = graph
       THEN Goto(e, "save") /\ UNCHANGED mem
       ELSE PublishThen(e, Refused, "release")
    /\ UNCHANGED <<class, queue, user, reading, inbox, job, claim, faults, history>>

\* The canonical service saves and walks inline; a progress report follows.  A
\* save may change the edges of the graph.  Nothing looks at the lease again.
Save(e) ==
    /\ pc[e] = "save"
    /\ runs' = [runs EXCEPT ![job[e]] = @ + 1]
    /\ graph' \in {graph, graph + 1}
    /\ PublishThen(e, Processing, "result")
    /\ UNCHANGED <<walking, changing, queue, user, reading, inbox, job, claim, faults>>
    /\ exposed' = [exposed EXCEPT ![job[e]] = "no"]
    /\ UNCHANGED <<unmarked, kept>>

\* The service refuses with an HTTPException before it writes.
SaveRefused(e) ==
    /\ pc[e] = "save"
    /\ PublishThen(e, Refused, "release")
    /\ UNCHANGED <<class, queue, user, reading, inbox, job, claim, faults, history>>

\* The legacy result file, then the terminal status.
Result(e) ==
    /\ pc[e] = "result"
    /\ \/ PublishThen(e, Success(0), "release") /\ UNCHANGED faults
       \/ Spend("io") /\ PublishThen(e, Failed, "release")
    /\ UNCHANGED <<class, queue, user, reading, inbox, job, claim, history>>

Release(e) ==
    /\ pc[e] = "release"
    /\ Finish(e)
    /\ UNCHANGED <<class, queue, user, faults, history>>

Working(e) ==
    \/ \E r \in Requests : Offer(e, r) \/ Read(e, r) \/ Schedule(e, r)
    \/ Dequeue(e) \/ Claim(e) \/ RemoveRequest(e) \/ PublishCheck(e)
    \/ PublishWrite(e) \/ PublishFails(e) \/ AnswerPlan(e) \/ LeaseTake(e)
    \/ LeaseBusy(e) \/ Recheck(e) \/ Save(e) \/ SaveRefused(e) \/ Result(e)
    \/ Release(e)

-----------------------------------------------------------------------------
(* Others                                                                  *)

\* A durable walk of the same class, under its lease.
StartWalk ==
    /\ ~Busy /\ Spend("rival")
    /\ walking' = TRUE
    /\ UNCHANGED <<graph, changing, queue, user, engine, history>>

EndWalk ==
    /\ walking
    /\ walking' = FALSE
    /\ graph' \in {graph, graph + 1}
    /\ UNCHANGED <<changing, queue, user, engine, faults, history>>

\* A change of the dataset types holds a lease of the project.  It looks for a
\* lease of one of its classes once, and then relies on what it has seen.
ChangeLooks ==
    /\ changing = "no" /\ ~Busy /\ Spend("rival")
    /\ changing' = "looked"
    /\ UNCHANGED <<graph, walking, queue, user, engine, history>>

\* History: the graph moves under the saves that have passed their recheck.
Overtake ==
    exposed' = [r \in Requests |->
        IF exposed[r] = "beside" /\ \E e \in Engines : job[e] = r /\ pc[e] = "save"
        THEN "overtaken" ELSE exposed[r]]

\* The new table of dataset types: a part of every graph of the project.
ChangeWrites ==
    /\ changing = "looked"
    /\ changing' = "wrote" /\ graph' = graph + 1
    /\ Overtake
    /\ UNCHANGED <<walking, queue, user, engine, faults, runs, unmarked, kept>>

\* It gives up or dies, or has rebuilt the graphs of the affected classes.
ChangeEnds ==
    /\ changing # "no"
    /\ changing' = "no"
    /\ \/ UNCHANGED <<graph, exposed>>
       \/ changing = "wrote" /\ graph' = graph + 1 /\ Overtake
    /\ UNCHANGED <<walking, queue, user, engine, faults, runs, unmarked, kept>>

OtherJobs == StartWalk \/ EndWalk \/ ChangeLooks \/ ChangeWrites \/ ChangeEnds

\* FencedClaim!Displace
Displace(e) ==
    /\ claim[e] = "valid" /\ Spend("displace")
    /\ claim' = [claim EXCEPT ![e] = "lost"]
    /\ UNCHANGED <<class, queue, user, reading, inbox, pc, job, mem, history>>

\* The Engine dies and is started again: its dispatcher is empty.
Crash(e) ==
    /\ pc[e] # "idle" \/ inbox[e] # <<>> \/ reading[e] # {}
    /\ Spend("crash")
    /\ reading' = [reading EXCEPT ![e] = {}]
    /\ inbox' = [inbox EXCEPT ![e] = <<>>]
    /\ Goto(e, "idle")
    /\ job' = [job EXCEPT ![e] = NoRequest]
    /\ claim' = [claim EXCEPT ![e] = "none"]
    /\ mem' = [mem EXCEPT ![e] = Idle]
    /\ UNCHANGED <<class, queue, user, history>>

\* prune_stale_save_job_artifacts: six hours after the client is done, longer
\* than a request waits in memory, the status and the marker go; the request
\* file, if it is still there, does not.
Prune(r) ==
    /\ client[r].phase = "done"
    /\ \A e \in Engines : r # job[e] /\ r \notin InboxOf(e) \cup reading[e]
    /\ mark[r] \/ status[r] # NoStatus
    /\ status' = [status EXCEPT ![r] = NoStatus]
    /\ mark' = [mark EXCEPT ![r] = FALSE]
    /\ unmarked' = [unmarked EXCEPT ![r] = IF mark[r] THEN @ + 1 ELSE @]
    /\ UNCHANGED <<class, file, user, engine, faults, runs, kept, exposed>>

Environment ==
    \/ OtherJobs
    \/ \E e \in Engines : Displace(e) \/ Crash(e)
    \/ \E r \in Requests : Prune(r)

\* Nothing is queued and nobody works; a commit whose plan failed is not made.
Done ==
    /\ \A r \in Requests : ~file[r] /\ client[r].phase \in {"new", "done"}
    /\ \A e \in Engines : pc[e] = "idle" /\ inbox[e] = <<>> /\ reading[e] = {}
Terminated == Done /\ UNCHANGED vars

Next ==
    \/ \E r \in Requests : Client(r)
    \/ \E e \in Engines : Working(e)
    \/ Environment
    \/ Terminated

Spec == Init /\ [][Next]_vars

-----------------------------------------------------------------------------
(* Properties                                                              *)

\* "Exactly one caller ever wins, no matter how many instances observed the
\* request": a save that its client does not retract is executed at most once.
RunsOnce ==
    \A r \in Requests :
        client[r].phase # "retract" /\ told[r] # "unavailable" => runs[r] <= 1

\* A save is executed once for each life of its claim marker, whatever crashes
\* and however often the request is offered.
OneRunPerMarker == \A r \in Requests : runs[r] <= 1 + unmarked[r]

\* After the 503 of a retraction the save is not executed: "deleting the
\* request file before the 503 is what guarantees the job never runs".
RetractedNeverRuns ==
    [][\A r \in Requests : told[r] = "unavailable" => runs'[r] = runs[r]]_vars

\* The answer tells what happened so far: a save that is answered "saved" was
\* executed, one that is refused (409, 423) was not.
AnswerIsTrue ==
    [][\A r \in Requests \ Plans :
        /\ told'[r] = "saved" /\ told[r] # "saved" => runs[r] = 1
        /\ told'[r] = "refused" /\ told[r] # "refused" => runs[r] = 0]_vars

\* A reviewed save is executed only against the graph its user has reviewed, as
\* long as no Engine lost its lease.  "The lease guarantees nothing else can
\* change the class between this check and the write" holds but for a change of
\* the dataset types that looked for leases before the save took its own, and
\* wrote after the save's recheck.
ReviewedIsCurrent ==
    [][\A r \in Requests :
        runs'[r] # runs[r] /\ PlanOf[r] # NoRequest /\ faults["displace"] = 0
            => reviewed[r] = graph \/ exposed[r] = "overtaken"]_vars

=============================================================================
