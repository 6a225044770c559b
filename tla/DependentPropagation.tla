------------------------ MODULE DependentPropagation ------------------------
(***************************************************************************)
(* The durable "update all dependents" job of one reserving class          *)
(* (arcrho_engine/dependent_propagation.py).                               *)
(*                                                                         *)
(* A save changes a root dataset and queues a request.  An Engine worker   *)
(* takes the lease of the class, merges the requests it finds queued into  *)
(* one walk, recalculates the dependents of their roots, and answers each  *)
(* request through its status file.  A second thread republishes the       *)
(* progress of the job while the walk runs.                                *)
(*                                                                         *)
(* The clients' hold probe only delays a save and every hold it reports    *)
(* expires by itself, so here a save may happen at any time.  The lease is *)
(* used through what FencedClaim promises of it.                           *)
(***************************************************************************)
EXTENDS Naturals

LOCAL INSTANCE Functions

CONSTANTS
    Workers,    \* Engine processes
    Requests,   \* request IDs, one for each save
    Roots,      \* the datasets that are saved
    RootsOf,    \* the datasets that the save of each request changes (ChangedRoots)
    MaxFaults,  \* how many faults of each kind may happen
    MaxTotal,   \* how many faults of all kinds together may happen
    NoRequest

\* A slow fault: the join of the status thread times out.
FaultKinds == {"crash", "displace", "io", "walk", "slow"}

ASSUME RootsAssumption == RootsOf \in [Requests -> (SUBSET Roots) \ {{}}]
ASSUME FaultsAssumption == MaxFaults \in [FaultKinds -> Nat] /\ MaxTotal \in Nat
ASSUME NamesAssumption == NoRequest \notin Requests

VARIABLES
    version,   \* how often each root was saved
    derived,   \* the version of each root that its dependents reflect
    client,    \* how far the save of each request is
    change,    \* the versions of its roots that the save of a request made
    queued,    \* the request file exists
    status,    \* the status file, "none" when there is none
    faults,    \* faults so far, of each kind
    pc,        \* the phase of the walk thread of each worker
    job,       \* the request it claims
    claim,     \* its claim on the lease of the class
    mem,       \* its local variables
    beat       \* its status heartbeat thread

data == <<version, derived>>
saves == <<client, change>>
files == <<queued, status>>
owner == <<job, claim>>
vars == <<data, saves, files, faults, pc, owner, mem, beat>>

Terminal == {"success", "error"}
Phases == {"idle", "discard", "acquire", "drain", "announce", "announce_write",
           "tick", "tick_write", "read", "write", "join", "answer",
           "answer_write", "confirm", "unlink", "release"}

Memory == [merged : SUBSET Requests,  \* drained siblings
           todo : SUBSET Requests,    \* whose status is still to be published
           target : Requests \cup {NoRequest},  \* whose status is published now
           seen : [Roots -> Nat],     \* what the walk has read and not yet used
           outcome : {"none", "success", "error", "lost"},
           progress : 0..2,           \* current_progress
           written : 0..2]            \* history: the last one published by the walk

Beat == [phase : {"off", "wait", "check", "write"},
         todo : SUBSET Requests, progress : 0..2]

FreshMemory == [merged |-> {}, todo |-> {}, target |-> NoRequest,
                seen |-> [x \in Roots |-> 0], outcome |-> "none",
                progress |-> 0, written |-> 0]
NoBeat == [phase |-> "off", todo |-> {}, progress |-> 0]
Waiting == [NoBeat EXCEPT !.phase = "wait"]

TypeOK ==
    /\ version \in [Roots -> Nat]
    /\ derived \in [Roots -> Nat]
    /\ client \in [Requests -> {"new", "saved", "sent"}]
    /\ change \in [Requests -> [Roots -> Nat]]
    /\ queued \in [Requests -> BOOLEAN]
    /\ status \in [Requests -> {"none", "queued", "processing"} \cup Terminal]
    /\ faults \in [FaultKinds -> Nat]
    /\ pc \in [Workers -> Phases]
    /\ job \in [Workers -> Requests \cup {NoRequest}]
    /\ claim \in [Workers -> {"none", "valid", "lost"}]
    /\ mem \in [Workers -> Memory]
    /\ beat \in [Workers -> Beat]

Init ==
    /\ version = [x \in Roots |-> 0] /\ derived = version
    /\ client = [r \in Requests |-> "new"]
    /\ change = [r \in Requests |-> [x \in Roots |-> 0]]
    /\ queued = [r \in Requests |-> FALSE]
    /\ status = [r \in Requests |-> "none"]
    /\ faults = [k \in FaultKinds |-> 0]
    /\ pc = [w \in Workers |-> "idle"]
    /\ job = [w \in Workers |-> NoRequest]
    /\ claim = [w \in Workers |-> "none"]
    /\ mem = [w \in Workers |-> FreshMemory]
    /\ beat = [w \in Workers |-> NoBeat]

At(w, phase) == pc[w] = phase
Goto(w, phase) == pc' = [pc EXCEPT ![w] = phase]
Lost(w) == claim[w] = "lost"

FaultTotal == FoldFunction(+, 0, faults)

Spend(kind) ==
    /\ faults[kind] < MaxFaults[kind]
    /\ FaultTotal < MaxTotal
    /\ faults' = [faults EXCEPT ![kind] = @ + 1]

\* Whose status a thread may publish next: its own request comes first.
Upcoming(w, todo) == IF job[w] \in todo THEN {job[w]} ELSE todo

Everyone(w) == mem[w].merged \cup {job[w]}

-----------------------------------------------------------------------------
(* A client: the save, submit_dependent_propagation_job                    *)

Save(r) ==
    /\ client[r] = "new"
    /\ version' = [x \in Roots |-> version[x] + IF x \in RootsOf[r] THEN 1 ELSE 0]
    /\ change' = [change EXCEPT ![r] =
                    [x \in Roots |-> IF x \in RootsOf[r] THEN version'[x] ELSE 0]]
    /\ client' = [client EXCEPT ![r] = "saved"]
    /\ UNCHANGED <<derived, files, faults, pc, owner, mem, beat>>

\* The queued status is written first, then the request file, without which no
\* worker looks at the status.
Submit(r) ==
    /\ client[r] = "saved"
    /\ client' = [client EXCEPT ![r] = "sent"]
    /\ status' = [status EXCEPT ![r] = "queued"]
    /\ queued' = [queued EXCEPT ![r] = TRUE]
    /\ UNCHANGED <<data, change, faults, pc, owner, mem, beat>>

Client(r) == Save(r) \/ Submit(r)

-----------------------------------------------------------------------------
(* process_durable_dependent_propagation_request: the claim                *)

\* The terminal status is read before the lease is acquired.
Pick(w, r) ==
    /\ At(w, "idle") /\ beat[w].phase = "off" /\ queued[r]
    /\ job' = [job EXCEPT ![w] = r]
    /\ Goto(w, IF status[r] \in Terminal THEN "discard" ELSE "acquire")
    /\ UNCHANGED <<data, saves, files, faults, claim, mem, beat>>

\* Broken: an answered request is left to whoever answered it.
DiscardKeeps(w) ==
    /\ At(w, "discard")
    /\ job' = [job EXCEPT ![w] = NoRequest]
    /\ Goto(w, "idle")
    /\ UNCHANGED <<data, saves, files, faults, claim, mem, beat>>

Discard(w) ==
    /\ At(w, "discard")
    /\ queued' = [queued EXCEPT ![job[w]] = FALSE]
    /\ job' = [job EXCEPT ![w] = NoRequest]
    /\ Goto(w, "idle")
    /\ UNCHANGED <<data, saves, status, faults, claim, mem, beat>>

\* Broken: the lease of the class is not exclusive.
AcquireShared(w) ==
    /\ At(w, "acquire")
    /\ claim' = [claim EXCEPT ![w] = "valid"]
    /\ Goto(w, "drain")
    /\ UNCHANGED <<data, saves, files, faults, job, mem, beat>>

Acquire(w) ==
    /\ At(w, "acquire") /\ \A v \in Workers : claim[v] # "valid"
    /\ claim' = [claim EXCEPT ![w] = "valid"]
    /\ Goto(w, "drain")
    /\ UNCHANGED <<data, saves, files, faults, job, mem, beat>>

\* The class is busy: the rescan offers the request again.
AcquireMiss(w) ==
    /\ At(w, "acquire") /\ \E v \in Workers : claim[v] = "valid"
    /\ job' = [job EXCEPT ![w] = NoRequest]
    /\ Goto(w, "idle")
    /\ UNCHANGED <<data, saves, files, faults, claim, mem, beat>>

\* _drain_coalescible_requests
Drain(w) ==
    /\ At(w, "drain")
    /\ LET siblings == {q \in Requests \ {job[w]} :
                            queued[q] /\ status[q] \notin Terminal}
       IN mem' = [mem EXCEPT ![w] = [@ EXCEPT !.merged = siblings,
                                              !.todo = siblings \cup {job[w]}]]
    /\ Goto(w, "announce")
    /\ UNCHANGED <<data, saves, files, faults, owner, beat>>

Claiming(w) ==
    \/ \E r \in Requests : Pick(w, r)
    \/ Discard(w) \/ Acquire(w) \/ AcquireMiss(w) \/ Drain(w)

-----------------------------------------------------------------------------
(* The walk                                                                *)

\* An exception: the finally clause stops and joins the status thread.
Raise(w, outcome) ==
    /\ mem' = [mem EXCEPT ![w].outcome = outcome]
    /\ Goto(w, "join")

\* publish_processing(current_progress), one status file after the other; then
\* the status thread starts and the walk makes its first progress report.
AnnounceCheck(w) ==
    /\ At(w, "announce")
    /\ IF Lost(w) THEN Raise(w, "lost")
       ELSE /\ Goto(w, "announce_write")
            /\ \E r \in Upcoming(w, mem[w].todo) :
                mem' = [mem EXCEPT ![w].target = r]
    /\ UNCHANGED <<data, saves, files, faults, owner, beat>>

AnnounceWrite(w) ==
    /\ At(w, "announce_write")
    /\ status' = [status EXCEPT ![mem[w].target] = "processing"]
    /\ LET left == mem[w].todo \ {mem[w].target} IN
       IF left # {}
       THEN /\ mem' = [mem EXCEPT ![w].todo = left]
            /\ Goto(w, "announce") /\ UNCHANGED beat
       ELSE /\ mem' = [mem EXCEPT ![w] = [@ EXCEPT !.todo = {}, !.progress = 1,
                                                   !.target = NoRequest]]
            /\ beat' = [beat EXCEPT ![w] = Waiting]
            /\ Goto(w, "tick")
    /\ UNCHANGED <<data, saves, queued, faults, owner>>

\* publish_progress: current_progress is set before the lease is looked at.
TickCheck(w) ==
    /\ At(w, "tick")
    /\ IF Lost(w) THEN Raise(w, "lost")
       ELSE Goto(w, "tick_write") /\ UNCHANGED mem
    /\ UNCHANGED <<data, saves, files, faults, owner, beat>>

TickWrite(w) ==
    /\ At(w, "tick_write")
    /\ status' = [status EXCEPT ![job[w]] = "processing"]
    /\ mem' = [mem EXCEPT ![w].written = mem[w].progress]
    /\ Goto(w, IF mem[w].progress = 1 THEN "read" ELSE "join")
    /\ UNCHANGED <<data, saves, queued, faults, owner, beat>>

\* Broken: the merged requests are answered, their roots are not walked.
WalkedOwn(w) == RootsOf[job[w]]

Walked(w) == UNION {RootsOf[r] : r \in Everyone(w)}

\* recalculate_dependents reads the roots of all merged requests and rewrites
\* their dependents; between two reports it does not look at the lease.
WalkRead(w) ==
    /\ At(w, "read")
    /\ mem' = [mem EXCEPT ![w].seen =
                [x \in Roots |-> IF x \in Walked(w) THEN version[x] ELSE 0]]
    /\ Goto(w, "write")
    /\ UNCHANGED <<data, saves, files, faults, owner, beat>>

\* Broken: each report advances the progress by two stages.
WalkWriteSkipping(w) ==
    /\ At(w, "write")
    /\ derived' = [x \in Roots |-> IF x \in Walked(w) THEN mem[w].seen[x] ELSE derived[x]]
    /\ mem' = [mem EXCEPT ![w].outcome = "success", ![w].progress = @ + 2]
    /\ Goto(w, "tick")
    /\ UNCHANGED <<version, saves, files, faults, owner, beat>>

WalkWrite(w) ==
    /\ At(w, "write")
    /\ derived' = [x \in Roots |-> IF x \in Walked(w) THEN mem[w].seen[x] ELSE derived[x]]
    /\ mem' = [mem EXCEPT ![w] = [@ EXCEPT !.outcome = "success", !.progress = 2,
                                          !.seen = FreshMemory.seen]]
    /\ Goto(w, "tick")
    /\ UNCHANGED <<version, saves, files, faults, owner, beat>>

\* A dependent declines: the walk goes on, the result is not ok.
WalkFails(w) ==
    /\ At(w, "write") /\ Spend("walk")
    /\ mem' = [mem EXCEPT ![w] = [@ EXCEPT !.outcome = "error", !.progress = 2,
                                          !.seen = FreshMemory.seen]]
    /\ Goto(w, "tick")
    /\ UNCHANGED <<data, saves, files, owner, beat>>

Join(w) ==
    /\ At(w, "join")
    /\ \/ beat[w].phase \in {"off", "wait"}
          /\ beat' = [beat EXCEPT ![w] = NoBeat] /\ UNCHANGED faults
       \/ beat[w].phase \in {"check", "write"}
          /\ Spend("slow") /\ UNCHANGED beat
    /\ IF mem[w].outcome = "lost"
       THEN Goto(w, "release") /\ UNCHANGED mem
       ELSE Goto(w, "answer") /\ mem' = [mem EXCEPT ![w].todo = Everyone(w)]
    /\ UNCHANGED <<data, saves, files, owner>>

Walking(w) ==
    \/ AnnounceCheck(w) \/ AnnounceWrite(w) \/ TickCheck(w) \/ TickWrite(w)
    \/ WalkRead(w) \/ WalkWrite(w) \/ WalkFails(w) \/ Join(w)

-----------------------------------------------------------------------------
(* The answers                                                             *)

\* One answer is dealt with.
Answered(w, r) ==
    LET left == mem[w].todo \ {r} IN
    /\ mem' = [mem EXCEPT ![w] = [@ EXCEPT !.todo = left, !.target = NoRequest]]
    /\ Goto(w, IF left = {} THEN "release" ELSE "answer")

\* An answer that cannot be published ends the job when it is its own; the loop
\* over the merged requests goes on with the next one.
Unanswered(w, r) ==
    IF r = job[w] THEN Goto(w, "release") /\ UNCHANGED mem ELSE Answered(w, r)

AnswerCheck(w) ==
    /\ At(w, "answer")
    /\ \E r \in Upcoming(w, mem[w].todo) :
        IF Lost(w) THEN Unanswered(w, r)
        ELSE Goto(w, "answer_write") /\ mem' = [mem EXCEPT ![w].target = r]
    /\ UNCHANGED <<data, saves, files, faults, owner, beat>>

AnswerWrite(w) ==
    /\ At(w, "answer_write")
    /\ status' = [status EXCEPT ![mem[w].target] = mem[w].outcome]
    /\ Goto(w, "confirm")
    /\ UNCHANGED <<data, saves, queued, faults, owner, mem, beat>>

\* The request file goes only if the status file really has an answer.
Confirm(w) ==
    /\ At(w, "confirm")
    /\ IF status[mem[w].target] \in Terminal
       THEN Goto(w, "unlink") /\ UNCHANGED mem
       ELSE Answered(w, mem[w].target)
    /\ UNCHANGED <<data, saves, files, faults, owner, beat>>

Unlink(w) ==
    /\ At(w, "unlink")
    /\ \/ queued' = [queued EXCEPT ![mem[w].target] = FALSE] /\ UNCHANGED faults
       \/ Spend("io") /\ UNCHANGED queued
    /\ Answered(w, mem[w].target)
    /\ UNCHANGED <<data, saves, status, owner, beat>>

Release(w) ==
    /\ At(w, "release")
    /\ job' = [job EXCEPT ![w] = NoRequest]
    /\ claim' = [claim EXCEPT ![w] = "none"]
    /\ mem' = [mem EXCEPT ![w] = FreshMemory]
    /\ Goto(w, "idle")
    /\ UNCHANGED <<data, saves, files, faults, beat>>

\* A status cannot be written: before the answers that is an error of the job.
WriteFails(w) ==
    /\ Spend("io")
    /\ \/ pc[w] \in {"announce_write", "tick_write"} /\ Raise(w, "error")
       \/ At(w, "answer_write") /\ Unanswered(w, mem[w].target)
    /\ UNCHANGED <<data, saves, files, owner, beat>>

Replying(w) ==
    \/ AnswerCheck(w) \/ AnswerWrite(w) \/ Confirm(w) \/ Unlink(w)
    \/ Release(w) \/ WriteFails(w)

-----------------------------------------------------------------------------
(* The status heartbeat thread                                             *)

\* Every five seconds it calls publish_processing(current_progress): the
\* progress is captured here, before the lease is looked at and the lock of
\* the status writes is waited for.
BeatWake(w) ==
    /\ beat[w].phase = "wait"
    /\ pc[w] \in {"tick", "tick_write", "read", "write"}
    /\ beat' = [beat EXCEPT ![w] = [phase |-> "check", todo |-> Everyone(w),
                                    progress |-> mem[w].progress]]
    /\ UNCHANGED <<data, saves, files, faults, pc, owner, mem>>

\* A lost lease, or one that was released meanwhile, ends the thread.
BeatCheck(w) ==
    /\ beat[w].phase = "check"
    /\ beat' = [beat EXCEPT ![w] = IF claim[w] = "valid"
                                   THEN [@ EXCEPT !.phase = "write"] ELSE NoBeat]
    /\ UNCHANGED <<data, saves, files, faults, pc, owner, mem>>

BeatWrite(w) ==
    /\ beat[w].phase = "write"
    /\ \E r \in Upcoming(w, beat[w].todo) :
        LET left == beat[w].todo \ {r} IN
        /\ status' = [status EXCEPT ![r] = "processing"]
        /\ beat' = [beat EXCEPT ![w] = IF left = {} THEN Waiting
                        ELSE [@ EXCEPT !.phase = "check", !.todo = left]]
    /\ UNCHANGED <<data, saves, queued, faults, pc, owner, mem>>

BeatFails(w) ==
    /\ beat[w].phase = "write" /\ Spend("io")
    /\ beat' = [beat EXCEPT ![w] = NoBeat]
    /\ UNCHANGED <<data, saves, files, pc, owner, mem>>

\* The stop event was set while the thread wrote and nobody waited for it.
BeatStops(w) ==
    /\ beat[w].phase = "wait"
    /\ pc[w] \notin {"tick", "tick_write", "read", "write", "join"}
    /\ beat' = [beat EXCEPT ![w] = NoBeat]
    /\ UNCHANGED <<data, saves, files, faults, pc, owner, mem>>

Beating(w) == BeatCheck(w) \/ BeatWrite(w) \/ BeatFails(w) \/ BeatStops(w)

-----------------------------------------------------------------------------
(* Faults                                                                  *)

\* FencedClaim!Displace
Displace(w) ==
    /\ claim[w] = "valid" /\ Spend("displace")
    /\ claim' = [claim EXCEPT ![w] = "lost"]
    /\ UNCHANGED <<data, saves, files, job, pc, mem, beat>>

\* The process dies with both threads and is started again.
Crash(w) ==
    /\ pc[w] # "idle" /\ Spend("crash")
    /\ job' = [job EXCEPT ![w] = NoRequest]
    /\ claim' = [claim EXCEPT ![w] = "none"]
    /\ mem' = [mem EXCEPT ![w] = FreshMemory]
    /\ beat' = [beat EXCEPT ![w] = NoBeat]
    /\ Goto(w, "idle")
    /\ UNCHANGED <<data, saves, files>>

Done ==
    /\ \A r \in Requests : client[r] = "sent" /\ ~queued[r]
    /\ \A w \in Workers : pc[w] = "idle" /\ beat[w].phase = "off"
Terminated == Done /\ UNCHANGED vars

Job(w) == Claiming(w) \/ Walking(w) \/ Replying(w)

Next ==
    \/ \E r \in Requests : Client(r)
    \/ \E w \in Workers :
        Job(w) \/ BeatWake(w) \/ Beating(w) \/ Displace(w) \/ Crash(w)
    \/ Terminated

\* Both threads of a worker are scheduled and the queue is scanned again and
\* again; the status heartbeat may be late for ever and a client may never come.
Fairness == \A w \in Workers : WF_vars(Job(w)) /\ WF_vars(Beating(w))

Spec == Init /\ [][Next]_vars
FairSpec == Spec /\ Fairness

-----------------------------------------------------------------------------
(* Properties                                                              *)

\* No live worker has lost its lease so far.
LeasesHeld == faults["displace"] = 0

\* A save that was answered with success is in its dependents: merged into
\* another walk, run twice or restarted, whatever was saved meanwhile.
SuccessCoversChange ==
    LeasesHeld => \A r \in Requests :
        status[r] = "success" => \A x \in RootsOf[r] : derived[x] >= change[r][x]

\* No walk puts dependents back to an older version of their root.
DerivedNeverRegresses ==
    [][LeasesHeld => \A x \in Roots : derived'[x] >= derived[x]]_vars

\* A request file that is gone was answered first, and a job that runs has its
\* request file, so that it can be claimed again if its worker dies ("a request
\* whose worker died before publishing a terminal status is re-claimed").
RequestIsRetained == \A r \in Requests : status[r] = "processing" => queued[r]

\* The status thread has just published the progress of the job itself.
BeatWrote(w) ==
    /\ beat[w].phase = "write" /\ job[w] \in beat[w].todo
    /\ beat'[w] # beat[w] /\ faults' = faults

\* What the status thread publishes is not older than what the walk already
\* has ("a stale heartbeat write must never land after a newer progress write").
HeartbeatIsNeverStale ==
    [][\A w \in Workers : BeatWrote(w) => beat[w].progress >= mem[w].written]_vars

\* The queue of the class becomes empty again and again, so every request leaves
\* it, whoever dies, loses its lease or misses a write.
QueueDrains == []<>(\A r \in Requests : ~queued[r])

=============================================================================
