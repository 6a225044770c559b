-------------------------- MODULE HostedSaveProofs --------------------------
(***************************************************************************)
(* Safety of hosted saves for any Engines, requests, plans and faults.     *)
(*                                                                         *)
(* Types strengthens TypeOK with what the phases of a worker imply.  Each  *)
(* of the first properties has an invariant of its own: RunsAreCounted     *)
(* counts the runs to come against the claim markers, ReviewsHold follows  *)
(* a review to its save under the lease, FirstRuns relates the one worker  *)
(* of a request that is not cleaned up yet to its status.                  *)
(* FilesGoFirst says what a client that was told 503 has removed, and      *)
(* NoClaimBefore when an Engine may take the lease of the class, which it  *)
(* shares with the durable walk as FencedClaim promises it.                *)
(***************************************************************************)
EXTENDS HostedSave, FiniteSetTheorems, SequenceTheorems, TLAPS

\* A worker has a job, and what it publishes belongs to the phase that follows.
Publishing(e) == pc[e] \in {"publish", "publish_write"}

Follows(e) ==
    /\ pc[e] # "idle" => job[e] \in Requests
    /\ pc[e] = "plan" => job[e] \in Plans
    /\ pc[e] \in {"lease", "recheck", "save", "result"} => job[e] \notin Plans
    /\ Publishing(e) =>
          \/ /\ mem[e].out.state = "processing" /\ mem[e].next = "plan"
             /\ job[e] \in Plans
          \/ /\ mem[e].out.state = "processing" /\ mem[e].next \in {"lease", "result"}
             /\ job[e] \notin Plans
          \/ mem[e].out.state \in Terminal /\ mem[e].next = "release"

PhasesFollow == \A e \in Engines : Follows(e)

\* A client that discards has artifacts left.
ClientsDiscard == \A r \in Requests : client[r].phase # "done" => client[r].gone \in 0..2

Types == TypeOK /\ PhasesFollow /\ ClientsDiscard

LEMMA SpendTypes ==
    ASSUME TypeOK, NEW kind \in FaultKinds, Spend(kind)
    PROVE  /\ faults' \in [FaultKinds -> Nat]
           /\ faults'["displace"] = faults["displace"] + (IF kind = "displace" THEN 1 ELSE 0)
  BY DEF TypeOK, Spend, FaultKinds

Clients == [phase : ClientPhases, gone : 0..3]

LEMMA ClientRecords == \A phase \in ClientPhases : At(phase) \in Clients
  BY DEF At, Clients

LEMMA InitTypes == Init => Types
<1> SUFFICES ASSUME Init PROVE Types
  OBVIOUS
<1> USE DEF Init
<1>1. NoStatus \in Status /\ Idle \in [out : Status, next : Phases]
  BY DEF NoStatus, Status, Idle, Phases
<1>2. At("new") \in Clients
  BY ClientRecords DEF ClientPhases
<1>3. /\ status \in [Requests -> Status]
      /\ client \in [Requests -> Clients]
      /\ mem \in [Engines -> [out : Status, next : Phases]]
  BY <1>1, <1>2
<1>4. inbox \in [Engines -> Seq(Requests)] /\ \A e \in Engines : Len(inbox[e]) <= Capacity
  BY FaultsAssumption
<1>5. TypeOK
  BY <1>3, <1>4 DEF TypeOK, Clients, Phases
<1>6. PhasesFollow
  BY DEF PhasesFollow, Follows, Publishing
<1>7. ClientsDiscard
  BY DEF ClientsDiscard, At
<1> QED
  BY <1>5, <1>6, <1>7 DEF Types

LEMMA ClientTypes ==
    ASSUME Types, NEW r \in Requests, Client(r)
    PROVE  Types'
<1>1. UNCHANGED <<engine, class, runs, exposed>>
  BY DEF Client, Post, SeeAnswer, SeeProcessing, ClaimDeadline, LookForRequest, Discard,
       RemoveArtifact,
         Timeout, history
<1>2. PhasesFollow'
  BY <1>1 DEF Types, PhasesFollow, Follows, Publishing, engine
<1>3. ClientsDiscard'
  <2> USE DEF Types, TypeOK, ClientsDiscard, Clients, At
  <2>1. CASE Discard(r)
    BY <2>1 DEF Discard, RemoveArtifact
  <2>2. CASE ~Discard(r)
    <3>1. client' = client \/ \E phase \in ClientPhases : client' = [client EXCEPT ![r] = At(phase)]
      BY <2>2 DEF Client, Post, SeeAnswer, SeeProcessing, ClaimDeadline, LookForRequest, Timeout,
                  ClientPhases
    <3>2. \A q \in Requests : client'[q] = client[q] \/ client'[q].gone = 0
      BY <3>1
    <3>3. \A q \in Requests : client'[q] = client[q] \/ client'[q].gone \in 0..2
      BY <3>2
    <3> QED
      BY <3>3
  <2> QED
    BY <2>1, <2>2
<1>4. /\ file \in [Requests -> BOOLEAN] /\ mark \in [Requests -> BOOLEAN]
      /\ status \in [Requests -> Status] /\ client \in [Requests -> Clients]
      /\ told \in [Requests -> Answers \cup {"nothing"}]
      /\ seen \in [Requests -> BOOLEAN] /\ reviewed \in [Requests -> Nat]
      /\ unmarked \in [Requests -> Nat] /\ kept \subseteq Requests
      /\ faults \in [FaultKinds -> Nat]
      /\ Spend("io") => faults' \in [FaultKinds -> Nat]
  BY SpendTypes DEF Types, TypeOK, Clients, FaultKinds
<1>5. ASSUME /\ file' \in [Requests -> BOOLEAN] /\ mark' \in [Requests -> BOOLEAN]
             /\ status' \in [Requests -> Status] /\ client' \in [Requests -> Clients]
             /\ told' \in [Requests -> Answers \cup {"nothing"}]
             /\ seen' \in [Requests -> BOOLEAN] /\ reviewed' \in [Requests -> Nat]
             /\ unmarked' \in [Requests -> Nat] /\ kept' \subseteq Requests
             /\ faults' \in [FaultKinds -> Nat]
      PROVE  Types'
  BY <1>1, <1>2, <1>3, <1>5 DEF Types, TypeOK, engine, class, Clients
<1> HIDE DEF Types, TypeOK, Clients
<1> USE ClientRecords DEF queue, user, history
<1>6. CASE Post(r)
  <2>1. reviewed' \in [Requests -> Nat]
    BY <1>4, <1>6, PlansAssumption DEF Post
  <2>2. client' \in [Requests -> Clients]
    BY <1>4, <1>6 DEF Post, ClientPhases
  <2> QED
    BY <1>4, <1>5, <1>6, <2>1, <2>2 DEF Post
<1>7. CASE SeeAnswer(r)
  <2>1. reviewed' \in [Requests -> Nat]
    BY <1>4, <1>7 DEF SeeAnswer, Status
  <2>2. told' \in [Requests -> Answers \cup {"nothing"}]
    BY <1>4, <1>7 DEF SeeAnswer, Answers, IsTerminal, Terminal
  <2>3. client' \in [Requests -> Clients]
    BY <1>4, <1>7 DEF SeeAnswer, ClientPhases
  <2> QED
    BY <1>4, <1>5, <1>7, <2>1, <2>2, <2>3 DEF SeeAnswer
<1>8. CASE SeeProcessing(r)
  BY <1>4, <1>5, <1>8 DEF SeeProcessing
<1>9. CASE ClaimDeadline(r)
  BY <1>4, <1>5, <1>9 DEF ClaimDeadline, ClientPhases
<1>10. CASE LookForRequest(r)
  <2>1. client' \in [Requests -> Clients] /\ seen' \in [Requests -> BOOLEAN]
    BY <1>4, <1>10 DEF LookForRequest, ClientPhases
  <2> QED
    BY <1>4, <1>5, <1>10, <2>1 DEF LookForRequest
<1>11. CASE Discard(r)
  <2>1. NoStatus \in Status
    BY DEF NoStatus, Status
  <2>2. client[r] \in Clients /\ client[r].gone \in 0..2
    BY <1>4, <1>11 DEF Discard, RemoveArtifact, Types, ClientsDiscard
  <2>3. client' \in [Requests -> Clients]
    BY <1>4, <1>11, <2>2 DEF Discard, RemoveArtifact, ClientPhases, Clients
  <2>4. told' \in [Requests -> Answers \cup {"nothing"}] /\ UNCHANGED <<seen, reviewed>>
    BY <1>4, <1>11 DEF Discard, Answers
  <2>5. CASE UNCHANGED <<queue, unmarked>> /\ Spend("io")
    <3>1. kept' \subseteq Requests
      BY <1>4, <1>11 DEF Discard
    <3> QED
      BY <1>4, <1>5, <2>3, <2>4, <2>5, <3>1
  <2>6. CASE RemoveArtifact(r) /\ UNCHANGED <<kept, faults>>
    <3>1. status' \in [Requests -> Status]
      BY <1>4, <2>1, <2>6 DEF RemoveArtifact
    <3>2. file' \in [Requests -> BOOLEAN] /\ mark' \in [Requests -> BOOLEAN]
      BY <1>4, <2>6 DEF RemoveArtifact
    <3>3. unmarked' \in [Requests -> Nat]
      BY <1>4, <2>6 DEF RemoveArtifact
    <3> QED
      BY <1>4, <1>5, <2>3, <2>4, <2>6, <3>1, <3>2, <3>3
  <2> QED
    BY <1>11, <2>5, <2>6 DEF Discard
<1>12. CASE Timeout(r)
  BY <1>4, <1>5, <1>12 DEF Timeout, ClientPhases, Answers
<1> QED
  BY <1>6, <1>7, <1>8, <1>9, <1>10, <1>11, <1>12 DEF Client

Memory == [out : Status, next : Phases]

\* An Engine's step leaves the other Engines alone.
LEMMA OthersKeep ==
    ASSUME Types, NEW e \in Engines, Working(e) \/ Displace(e) \/ Crash(e),
           NEW d \in Engines, d # e
    PROVE  /\ pc'[d] = pc[d] /\ job'[d] = job[d] /\ claim'[d] = claim[d]
           /\ mem'[d] = mem[d] /\ inbox'[d] = inbox[d] /\ reading'[d] = reading[d]
<1> USE DEF Types, TypeOK, engine, Goto, Finish, PublishThen
<1>1. CASE Working(e)
  BY <1>1 DEF Working, Offer, Read, Schedule, Enqueue, Dequeue, Claim, RemoveRequest,
       PublishCheck, PublishWrite,
       PublishFails, AnswerPlan, LeaseTake, LeaseBusy, Recheck, Save, SaveRefused, Result, Release
<1>2. CASE Displace(e)
  BY <1>2 DEF Displace
<1>3. CASE Crash(e)
  BY <1>3 DEF Crash
<1> QED
  BY <1>1, <1>2, <1>3

\* What a step of an Engine must keep, for itself.
EngineTypes(e) ==
    /\ graph' \in Nat /\ UNCHANGED <<walking, changing>>
    /\ file' \in [Requests -> BOOLEAN] /\ mark' \in [Requests -> BOOLEAN]
    /\ status' \in [Requests -> Status]
    /\ reading' \in [Engines -> SUBSET Requests]
    /\ inbox' \in [Engines -> Seq(Requests)] /\ Len(inbox'[e]) <= Capacity
    /\ pc' \in [Engines -> Phases]
    /\ job' \in [Engines -> Requests \cup {NoRequest}]
    /\ claim' \in [Engines -> {"none", "valid", "lost"}]
    /\ mem' \in [Engines -> Memory]
    /\ faults' \in [FaultKinds -> Nat]
    /\ runs' \in [Requests -> Nat]
    /\ exposed' \in [Requests -> {"no", "beside", "overtaken"}]
    /\ UNCHANGED <<user, unmarked, kept>>

LEMMA EngineKeepsTypes ==
    ASSUME Types, NEW e \in Engines, Working(e) \/ Displace(e) \/ Crash(e),
           EngineTypes(e), Follows(e)'
    PROVE  Types'
<1>1. TypeOK'
  BY OthersKeep DEF EngineTypes, Types, TypeOK, user, Memory
<1>2. PhasesFollow'
  <2>1. SUFFICES ASSUME NEW d \in Engines, d # e PROVE Follows(d)'
    BY DEF PhasesFollow
  <2> QED
    BY <2>1, OthersKeep DEF Types, PhasesFollow, Follows, Publishing
<1>3. ClientsDiscard'
  BY DEF EngineTypes, Types, ClientsDiscard, user
<1> QED
  BY <1>1, <1>2, <1>3 DEF Types

\* Finish and PublishThen, the two ways in which most steps end.
LEMMA FinishTypes ==
    ASSUME Types, NEW e \in Engines, Finish(e)
    PROVE  /\ reading' \in [Engines -> SUBSET Requests]
           /\ inbox' \in [Engines -> Seq(Requests)] /\ Len(inbox'[e]) <= Capacity
           /\ pc' \in [Engines -> Phases]
           /\ job' \in [Engines -> Requests \cup {NoRequest}]
           /\ claim' \in [Engines -> {"none", "valid", "lost"}]
           /\ mem' \in [Engines -> Memory]
           /\ Follows(e)'
<1>1. Idle \in Memory
  BY DEF Idle, Memory, NoStatus, Status, Phases
<1> QED
  BY <1>1 DEF Types, TypeOK, Finish, Memory, Follows, Publishing, Phases

LEMMA PublishTypes ==
    ASSUME Types, NEW e \in Engines, NEW out \in Status, NEW phase \in Phases,
           PublishThen(e, out, phase), UNCHANGED <<reading, inbox, job, claim>>
    PROVE  /\ reading' \in [Engines -> SUBSET Requests]
           /\ inbox' \in [Engines -> Seq(Requests)] /\ Len(inbox'[e]) <= Capacity
           /\ pc' \in [Engines -> Phases]
           /\ job' \in [Engines -> Requests \cup {NoRequest}]
           /\ claim' \in [Engines -> {"none", "valid", "lost"}]
           /\ mem' \in [Engines -> Memory]
           /\ pc'[e] = "publish" /\ mem'[e].out = out /\ mem'[e].next = phase
<1>1. [out |-> out, next |-> phase] \in Memory
  BY DEF Memory
<1> QED
  BY <1>1 DEF Types, TypeOK, PublishThen, Goto, Memory, Phases

LEMMA StatusValues ==
    /\ NoStatus \in Status /\ Processing \in Status /\ Refused \in Status /\ Failed \in Status
    /\ \A g \in Nat : Success(g) \in Status /\ Success(g).state = "success"
    /\ Processing.state = "processing" /\ Refused.state = "refused" /\ Failed.state = "failed"
  BY DEF NoStatus, Processing, Refused, Failed, Success, Status, Terminal

\* What the dispatcher appends to a queue that is not full stays within its bound.
LEMMA RoomForOneMore ==
    ASSUME NEW q \in Seq(Requests), NEW r \in Requests, Len(q) <= Capacity, Len(q) # Capacity
    PROVE  Append(q, r) \in Seq(Requests) /\ Len(Append(q, r)) <= Capacity
  BY FaultsAssumption

LEMMA WorkingTypes ==
    ASSUME Types, NEW e \in Engines, Working(e)
    PROVE  Types'
<1>1. /\ graph \in Nat /\ walking \in BOOLEAN
      /\ file \in [Requests -> BOOLEAN] /\ mark \in [Requests -> BOOLEAN]
      /\ status \in [Requests -> Status]
      /\ reading \in [Engines -> SUBSET Requests]
      /\ exposed \in [Requests -> {"no", "beside", "overtaken"}]
      /\ inbox \in [Engines -> Seq(Requests)] /\ Len(inbox[e]) <= Capacity
      /\ pc \in [Engines -> Phases] /\ job \in [Engines -> Requests \cup {NoRequest}]
      /\ claim \in [Engines -> {"none", "valid", "lost"}]
      /\ mem \in [Engines -> Memory] /\ faults \in [FaultKinds -> Nat]
      /\ runs \in [Requests -> Nat]
      /\ Follows(e) /\ PlansAssumption
  BY PlansAssumption DEF Types, TypeOK, PhasesFollow, Memory
<1>2. \A kind \in FaultKinds : Spend(kind) => faults' \in [FaultKinds -> Nat]
  BY SpendTypes DEF Types
<1>3. SUFFICES EngineTypes(e) /\ Follows(e)'
  BY EngineKeepsTypes
<1> USE <1>1, <1>2, StatusValues
    DEF EngineTypes, class, queue, user, history, FaultKinds
<1>4. CASE \E r \in Requests : Offer(e, r) \/ Read(e, r) \/ Schedule(e, r)
  <2>1. PICK r \in Requests : Offer(e, r) \/ Read(e, r) \/ Schedule(e, r)
    BY <1>4
  <2>2. ASSUME Enqueue(e, r)
        PROVE  inbox' \in [Engines -> Seq(Requests)] /\ Len(inbox'[e]) <= Capacity
    <3>1. inbox'[e] \in {inbox[e], Append(inbox[e], r)}
      BY <2>2 DEF Enqueue
    <3>2. inbox'[e] = Append(inbox[e], r) /\ inbox'[e] # inbox[e] => Len(inbox[e]) # Capacity
      BY <2>2 DEF Enqueue
    <3>3. Append(inbox[e], r) \in Seq(Requests) /\ Len(Append(inbox[e], r)) = Len(inbox[e]) + 1
      OBVIOUS
    <3>4. inbox' \in [Engines -> Seq(Requests)]
      BY <2>2, <3>3 DEF Enqueue
    <3>5. Len(inbox'[e]) <= Capacity
      <4>1. CASE inbox'[e] = inbox[e]
        BY <4>1
      <4>2. CASE inbox'[e] # inbox[e]
        BY <3>1, <3>2, <4>2, RoomForOneMore
      <4> QED
        BY <4>1, <4>2
    <3> QED
      BY <3>4, <3>5
  <2>3. Follows(e)'
    BY <2>1 DEF Offer, Read, Schedule, Follows, Publishing
  <2>4. reading' \in [Engines -> SUBSET Requests]
    <3>1. reading[e] \subseteq Requests
      OBVIOUS
    <3>2. reading[e] \cup {r} \subseteq Requests /\ reading[e] \ {r} \subseteq Requests
      BY <3>1
    <3>3. \/ reading' = reading
          \/ reading' = [reading EXCEPT ![e] = reading[e] \cup {r}]
          \/ reading' = [reading EXCEPT ![e] = reading[e] \ {r}]
      BY <2>1 DEF Offer, Read, Schedule
    <3> QED
      BY <3>2, <3>3
  <2>5. faults' \in [FaultKinds -> Nat]
    BY <2>1 DEF Offer, Read, Schedule
  <2>6. inbox' \in [Engines -> Seq(Requests)] /\ Len(inbox'[e]) <= Capacity
    BY <2>1, <2>2 DEF Offer, Read, Schedule
  <2> QED
    BY <2>1, <2>3, <2>4, <2>5, <2>6 DEF Offer, Read, Schedule
<1>5. CASE Dequeue(e)
  <2>1. Head(inbox[e]) \in Requests /\ Tail(inbox[e]) \in Seq(Requests)
        /\ Len(Tail(inbox[e])) <= Capacity
    BY <1>5, FaultsAssumption, HeadTailProperties DEF Dequeue
  <2>2. Follows(e)'
    BY <1>5, <2>1 DEF Dequeue, Goto, Follows, Publishing
  <2> QED
    BY <1>5, <2>1, <2>2 DEF Dequeue, Goto, Phases
<1>6. CASE Claim(e)
  <2>1. CASE mark[job[e]]
    BY <1>6, <2>1, FinishTypes DEF Claim
  <2>2. CASE ~mark[job[e]]
    <3>1. Follows(e)'
      BY <1>6, <2>2 DEF Claim, Goto, Follows, Publishing
    <3>2. pc' \in [Engines -> Phases] /\ mark' \in [Requests -> BOOLEAN]
      BY <1>6, <2>2 DEF Claim, Goto, Phases
    <3> QED
      BY <1>6, <2>2, <3>1, <3>2 DEF Claim
  <2> QED
    BY <2>1, <2>2
<1>7. CASE RemoveRequest(e)
  <2>1. job[e] \in Requests
    BY <1>7 DEF RemoveRequest, Follows
  <2>2. file' \in [Requests -> BOOLEAN] /\ faults' \in [FaultKinds -> Nat]
    BY <1>7 DEF RemoveRequest
  <2> DEFINE phase == IF job[e] \in Plans THEN "plan" ELSE "lease"
  <2>3. PublishThen(e, Processing, phase) /\ UNCHANGED <<reading, inbox, job, claim>> /\ phase \in Phases
    BY <1>7 DEF RemoveRequest, Phases
  <2>4. Follows(e)'
    BY <2>1, <2>3, PublishTypes DEF Follows, Publishing
  <2> QED
    BY <1>7, <2>2, <2>3, <2>4, PublishTypes DEF RemoveRequest
<1>8. CASE PublishCheck(e)
  BY <1>8 DEF PublishCheck, Goto, Follows, Publishing, Phases, Memory
<1>9. CASE PublishWrite(e)
  <2>1. mem[e].out \in Status /\ mem[e].next \in Phases
    BY DEF Memory
  <2>2. Follows(e)'
    BY <1>9 DEF PublishWrite, Goto, Follows, Publishing
  <2> QED
    BY <1>9, <2>1, <2>2 DEF PublishWrite, Goto
<1>10. CASE PublishFails(e)
  <2>1. faults' \in [FaultKinds -> Nat] /\ UNCHANGED <<class, queue, user, history>>
    BY <1>10 DEF PublishFails
  <2>2. CASE Finish(e)
    BY <2>1, <2>2, FinishTypes
  <2>3. CASE /\ Goto(e, "result") /\ mem[e].next = "result"
             /\ UNCHANGED <<reading, inbox, job, claim, mem>>
    BY <1>10, <2>1, <2>3 DEF PublishFails, Goto, Follows, Publishing, Phases, Terminal
  <2>4. CASE PublishThen(e, Failed, "release") /\ UNCHANGED <<reading, inbox, job, claim>>
    BY SMTT(20), <1>10, <2>1, <2>4, PublishTypes DEF PublishFails, Follows, Publishing, Phases,
         Terminal
  <2>5. CASE Goto(e, "release") /\ UNCHANGED <<reading, inbox, job, claim, mem>>
    BY <1>10, <2>1, <2>5 DEF PublishFails, Goto, Follows, Publishing, Phases
  <2> QED
    BY <1>10, <2>2, <2>3, <2>4, <2>5 DEF PublishFails
<1>11. CASE AnswerPlan(e)
  <2>1. Follows(e)'
    BY <1>11, PublishTypes DEF AnswerPlan, Follows, Publishing, Phases, Terminal
  <2> QED
    BY <1>11, <2>1, PublishTypes DEF AnswerPlan, Phases
<1>12. CASE LeaseTake(e)
  BY <1>12 DEF LeaseTake, Goto, Follows, Publishing, Phases
<1>13. CASE LeaseBusy(e)
  <2>1. Follows(e)'
    BY <1>13, PublishTypes DEF LeaseBusy, Follows, Publishing, Phases, Terminal
  <2> QED
    BY <1>13, <2>1, PublishTypes DEF LeaseBusy, Phases
<1>14. CASE Recheck(e)
  <2>1. CASE Goto(e, "save") /\ UNCHANGED mem
    BY <1>14, <2>1 DEF Recheck, Goto, Follows, Publishing, Phases
  <2>2. CASE PublishThen(e, Refused, "release")
    <3>1. Follows(e)'
      BY <1>14, <2>2, PublishTypes DEF Recheck, Follows, Publishing, Phases, Terminal
    <3> QED
      BY <1>14, <2>2, <3>1, PublishTypes DEF Recheck, Phases
  <2> QED
    BY <1>14, <2>1, <2>2 DEF Recheck
<1>15. CASE Save(e)
  <2>1. runs' \in [Requests -> Nat] /\ graph' \in Nat
    <3>1. job[e] \in Requests
      BY <1>15 DEF Save, Follows
    <3>2. runs' = [runs EXCEPT ![job[e]] = @ + 1] /\ graph' \in {graph, graph + 1}
      BY <1>15 DEF Save
    <3>3. runs[job[e]] + 1 \in Nat
      BY <3>1
    <3>4. runs' \in [Requests -> Nat]
      BY <3>2, <3>3
    <3> QED
      BY <3>2, <3>4
  <2>2. Follows(e)'
    BY <1>15, PublishTypes DEF Save, Follows, Publishing, Phases
  <2> QED
    BY <1>15, <2>1, <2>2, PublishTypes DEF Save, Phases
<1>16. CASE SaveRefused(e)
  <2>1. Follows(e)'
    BY <1>16, PublishTypes DEF SaveRefused, Follows, Publishing, Phases, Terminal
  <2> QED
    BY <1>16, <2>1, PublishTypes DEF SaveRefused, Phases
<1>17. CASE Result(e)
  <2>1. \E out \in {Success(0), Failed} : PublishThen(e, out, "release")
    BY <1>17 DEF Result
  <2>2. Follows(e)'
    BY <1>17, <2>1, PublishTypes DEF Result, Follows, Publishing, Phases, Terminal
  <2> QED
    BY <1>17, <2>1, <2>2, PublishTypes DEF Result, Phases
<1>18. CASE Release(e)
  BY <1>18, FinishTypes DEF Release
<1> QED
  BY <1>4, <1>5, <1>6, <1>7, <1>8, <1>9, <1>10, <1>11, <1>12, <1>13, <1>14, <1>15, <1>16,
     <1>17, <1>18 DEF Working

LEMMA EnvironmentTypes ==
    ASSUME Types, Environment
    PROVE  Types'
<1>1. CASE OtherJobs
  <2> USE <1>1 DEF OtherJobs, StartWalk, EndWalk, ChangeLooks, ChangeWrites, ChangeEnds
  <2>1. UNCHANGED <<queue, user, engine, runs, unmarked, kept>>
    BY DEF history
  <2>2. graph' \in Nat
    <3>1. graph' \in {graph, graph + 1}
      OBVIOUS
    <3> QED
      BY <3>1 DEF Types, TypeOK
  <2>3. walking' \in BOOLEAN /\ changing' \in {"no", "looked", "wrote"}
    BY DEF Types, TypeOK
  <2>4. faults' \in [FaultKinds -> Nat]
    BY SpendTypes DEF Types, TypeOK, FaultKinds
  <2>5. exposed' \in [Requests -> {"no", "beside", "overtaken"}]
    <3>1. exposed \in [Requests -> {"no", "beside", "overtaken"}]
      BY DEF Types, TypeOK
    <3>2. exposed' = exposed \/ Overtake
      BY DEF history
    <3> QED
      BY <3>1, <3>2 DEF Overtake
  <2> HIDE <1>1 DEF OtherJobs, StartWalk, EndWalk, ChangeLooks, ChangeWrites, ChangeEnds
  <2> QED
    BY <2>1, <2>2, <2>3, <2>4, <2>5 DEF Types, TypeOK, PhasesFollow, ClientsDiscard, Follows,
         Publishing, queue, user, engine
<1>2. CASE \E e \in Engines : Displace(e)
  <2>1. PICK e \in Engines : Displace(e)
    BY <1>2
  <2>2. Follows(e)'
    BY <2>1 DEF Displace, Follows, Publishing, Types, PhasesFollow
  <2>3. claim' \in [Engines -> {"none", "valid", "lost"}]
    BY <2>1 DEF Displace, Types, TypeOK
  <2>4. faults' \in [FaultKinds -> Nat]
    BY <2>1, SpendTypes DEF Displace, Types, FaultKinds
  <2>5. EngineTypes(e)
    BY <2>1, <2>3, <2>4
       DEF Displace, EngineTypes, Types, TypeOK, class, queue, user, history, Memory
  <2> QED
    BY <2>1, <2>2, <2>5, EngineKeepsTypes
<1>3. CASE \E e \in Engines : Crash(e)
  <2>1. PICK e \in Engines : Crash(e)
    BY <1>3
  <2>2. Idle \in Memory
    BY StatusValues DEF Idle, Memory, Phases
  <2>3. faults' \in [FaultKinds -> Nat]
    BY <2>1, SpendTypes DEF Crash, Types, FaultKinds
  <2>4. pc' \in [Engines -> Phases] /\ pc'[e] = "idle"
    BY <2>1 DEF Crash, Goto, Types, TypeOK, Phases
  <2>5. inbox' \in [Engines -> Seq(Requests)] /\ Len(inbox'[e]) <= Capacity
    BY <2>1, FaultsAssumption DEF Crash, Types, TypeOK
  <2>6. /\ job' \in [Engines -> Requests \cup {NoRequest}]
        /\ claim' \in [Engines -> {"none", "valid", "lost"}]
        /\ mem' \in [Engines -> Memory]
    BY <2>1, <2>2 DEF Crash, Types, TypeOK, Memory
  <2>7. EngineTypes(e)
    BY <2>1, <2>3, <2>4, <2>5, <2>6
       DEF Crash, EngineTypes, Types, TypeOK, class, queue, user, history
  <2>8. Follows(e)'
    BY <2>4 DEF Follows, Publishing
  <2> QED
    BY <2>1, <2>7, <2>8, EngineKeepsTypes
<1>4. CASE \E r \in Requests : Prune(r)
  <2>1. PICK r \in Requests : Prune(r)
    BY <1>4
  <2>2. status' \in [Requests -> Status]
    BY <2>1, StatusValues DEF Prune, Types, TypeOK
  <2>3. mark' \in [Requests -> BOOLEAN]
    BY <2>1 DEF Prune, Types, TypeOK
  <2>4. unmarked' \in [Requests -> Nat]
    BY <2>1 DEF Prune, Types, TypeOK
  <2> QED
    BY <2>1, <2>2, <2>3, <2>4 DEF Prune, Types, TypeOK, PhasesFollow, ClientsDiscard, Follows,
         Publishing, class, user, engine
<1> QED
  BY <1>1, <1>2, <1>3, <1>4 DEF Environment

LEMMA StepTypes ==
    ASSUME Types, [Next]_vars
    PROVE  Types'
<1>1. CASE UNCHANGED vars
  BY <1>1 DEF vars, class, queue, user, engine, history, Types, TypeOK, PhasesFollow, Follows,
       Publishing, ClientsDiscard
<1> QED
  BY <1>1, ClientTypes, WorkingTypes, EnvironmentTypes DEF Next, Terminated

\* The types of the model, for any Engines, requests and faults.
THEOREM HostedSaveTypes == Spec => []TypeOK
<1>1. Spec => []Types
  BY InitTypes, StepTypes, PTL DEF Spec
<1>2. Types => TypeOK
  BY DEF Types
<1> QED
  BY <1>1, <1>2, PTL

-----------------------------------------------------------------------------
(* One run for each life of the claim marker.  A worker that has claimed a  *)
(* request and not saved it yet is a run to come: the runs, made and to     *)
(* come, are at most the markers, removed and present.                      *)

AboutToSave(e) ==
    \/ pc[e] \in {"remove", "lease", "recheck", "save"}
    \/ Publishing(e) /\ mem[e].next = "lease"

Pending(r) == {e \in Engines : job[e] = r /\ AboutToSave(e)}

Markers(r) == unmarked[r] + (IF mark[r] THEN 1 ELSE 0)

RunsAreCounted == \A r \in Requests : runs[r] + Cardinality(Pending(r)) <= Markers(r)

LEMMA PendingIsFinite ==
    \A r \in Requests : IsFiniteSet(Pending(r)) /\ Cardinality(Pending(r)) \in Nat
  BY NamesAssumption, FS_Subset, FS_CardinalityType DEF Pending

\* Nothing becomes pending without a claim.
LEMMA NothingNewPending ==
    ASSUME Types, NEW e \in Engines, Working(e) \/ Displace(e) \/ Crash(e), ~Claim(e),
           NEW r \in Requests
    PROVE  Pending(r)' \subseteq Pending(r)
<1>1. SUFFICES ASSUME job'[e] = r, AboutToSave(e)'
               PROVE  job[e] = r /\ AboutToSave(e)
  BY OthersKeep DEF Pending, AboutToSave, Publishing
<1> USE <1>1 DEF AboutToSave, Publishing, Goto, Finish, PublishThen, Types, TypeOK, PhasesFollow,
                 Follows
<1>2. CASE Displace(e) \/ Crash(e)
  BY <1>2 DEF Displace, Crash
<1>3. CASE \/ \E q \in Requests : Offer(e, q) \/ Read(e, q) \/ Schedule(e, q)
           \/ Dequeue(e) \/ RemoveRequest(e)
  BY <1>3 DEF Offer, Read, Schedule, Enqueue, Dequeue, RemoveRequest
<1>4. CASE PublishCheck(e) \/ PublishWrite(e) \/ PublishFails(e)
  BY <1>4 DEF PublishCheck, PublishWrite, PublishFails
<1>5. CASE AnswerPlan(e) \/ LeaseTake(e) \/ LeaseBusy(e) \/ Recheck(e)
  BY <1>5 DEF AnswerPlan, LeaseTake, LeaseBusy, Recheck
<1>6. CASE Save(e) \/ SaveRefused(e) \/ Result(e) \/ Release(e)
  BY <1>6 DEF Save, SaveRefused, Result, Release
<1> QED
  BY <1>2, <1>3, <1>4, <1>5, <1>6 DEF Working

\* A step that adds neither a run nor something pending, and takes no marker
\* away without counting it, keeps the count.
LEMMA CountIsKept ==
    ASSUME Types, RunsAreCounted, Types', NEW r \in Requests,
           Pending(r)' \subseteq Pending(r), runs'[r] = runs[r], Markers(r)' >= Markers(r)
    PROVE  runs'[r] + Cardinality(Pending(r)') <= Markers(r)'
<1>1. Cardinality(Pending(r)') <= Cardinality(Pending(r))
  BY PendingIsFinite, FS_Subset
<1>2. Cardinality(Pending(r)') \in Nat /\ Cardinality(Pending(r)) \in Nat
  BY PendingIsFinite, FS_Subset, FS_CardinalityType
<1>3. runs[r] \in Nat /\ Markers(r) \in Nat /\ Markers(r)' \in Nat
  BY DEF Types, TypeOK, Markers
<1> QED
  BY <1>1, <1>2, <1>3 DEF RunsAreCounted

LEMMA ClaimIsCounted ==
    ASSUME Types, Types', RunsAreCounted, NEW e \in Engines, Claim(e), NEW r \in Requests
    PROVE  runs'[r] + Cardinality(Pending(r)') <= Markers(r)'
<1>1. \A d \in Engines : d # e => /\ job'[d] = job[d]
                                  /\ AboutToSave(d)' = AboutToSave(d)
  BY OthersKeep DEF AboutToSave, Publishing, Working
<1>2. runs[r] \in Nat /\ Markers(r) \in Nat /\ UNCHANGED <<runs, unmarked>>
  BY SMTT(20) DEF Markers, Types, TypeOK, Claim, history
<1>3. pc[e] = "claim" /\ ~AboutToSave(e)
  BY DEF Claim, AboutToSave, Publishing
<1>4. CASE mark[job[e]] \/ job[e] # r
  <2>1. job'[e] = r /\ AboutToSave(e)' => FALSE
    <3>1. CASE mark[job[e]]
      BY <3>1 DEF Claim, Finish, AboutToSave, Publishing, Types, TypeOK
    <3>2. CASE ~mark[job[e]]
      BY <1>4, <3>2 DEF Claim
    <3> QED
      BY <3>1, <3>2
  <2>2. Pending(r)' \subseteq Pending(r)
    BY <1>1, <2>1 DEF Pending
  <2>3. mark'[r] = mark[r]
    BY <1>4 DEF Claim, Types, TypeOK
  <2>4. Markers(r)' >= Markers(r)
    BY <1>2, <2>3 DEF Markers
  <2> QED
    BY <1>2, <2>2, <2>4, CountIsKept
<1>5. CASE ~mark[job[e]] /\ job[e] = r
  <2>1. job'[e] = r /\ AboutToSave(e)'
    BY <1>5 DEF Claim, Goto, AboutToSave, Publishing, Types, TypeOK
  <2>2. Pending(r)' = Pending(r) \cup {e} /\ e \notin Pending(r)
    BY <1>1, <1>3, <2>1 DEF Pending
  <2>3. Cardinality(Pending(r)') = Cardinality(Pending(r)) + 1
    BY <2>2, PendingIsFinite, FS_AddElement
  <2>4. mark'[r] /\ ~mark[r]
    BY <1>5 DEF Claim, Types, TypeOK
  <2>5. Markers(r)' = Markers(r) + 1
    BY <1>2, <2>4 DEF Markers, Types, TypeOK
  <2> QED
    BY <1>2, <2>3, <2>5, PendingIsFinite DEF RunsAreCounted
<1> QED
  BY <1>4, <1>5

LEMMA SaveIsCounted ==
    ASSUME Types, Types', RunsAreCounted, NEW e \in Engines, Save(e), NEW r \in Requests
    PROVE  runs'[r] + Cardinality(Pending(r)') <= Markers(r)'
<1>1. Markers(r)' = Markers(r) /\ Markers(r) \in Nat /\ runs[r] \in Nat
  BY DEF Save, queue, Markers, Types, TypeOK
<1>2. CASE job[e] # r
  <2>1. runs'[r] = runs[r]
    BY <1>2 DEF Save, Types, TypeOK
  <2>2. Pending(r)' \subseteq Pending(r)
    BY NothingNewPending DEF Working, Save, Claim
  <2> QED
    BY <1>1, <2>1, <2>2, CountIsKept
<1>3. CASE job[e] = r
  <2>1. runs'[r] = runs[r] + 1
    BY <1>3 DEF Save, Types, TypeOK
  <2>2. Pending(r)' = Pending(r) \ {e} /\ e \in Pending(r)
    <3>1. ~AboutToSave(e)' /\ AboutToSave(e) /\ job' = job
      BY DEF Save, PublishThen, Goto, AboutToSave, Publishing, Types, TypeOK
    <3> QED
      BY <1>3, <3>1, OthersKeep DEF Pending, AboutToSave, Publishing, Working
  <2>3. Cardinality(Pending(r)') = Cardinality(Pending(r)) - 1
    BY <2>2, PendingIsFinite, FS_RemoveElement
  <2> QED
    BY <1>1, <2>1, <2>3, PendingIsFinite DEF RunsAreCounted
<1> QED
  BY <1>2, <1>3

LEMMA StepCounts ==
    ASSUME Types, Types', RunsAreCounted, [Next]_vars
    PROVE  RunsAreCounted'
<1> SUFFICES ASSUME NEW r \in Requests
             PROVE  runs'[r] + Cardinality(Pending(r)') <= Markers(r)'
  BY DEF RunsAreCounted
<1>1. ASSUME UNCHANGED <<engine, runs>> PROVE Pending(r)' \subseteq Pending(r)
  BY <1>1 DEF Pending, AboutToSave, Publishing, engine
<1>2. runs[r] \in Nat /\ Markers(r) \in Nat
  BY DEF Types, TypeOK, Markers
<1>3. ASSUME NEW q \in Requests, UNCHANGED <<engine, runs>>,
             mark' = [mark EXCEPT ![q] = FALSE],
             unmarked' = [unmarked EXCEPT ![q] = IF mark[q] THEN @ + 1 ELSE @]
      PROVE  runs'[r] + Cardinality(Pending(r)') <= Markers(r)'
  <2>1. Markers(r)' = Markers(r)
    <3>1. CASE q = r
      BY <1>3, <3>1 DEF Markers, Types, TypeOK
    <3>2. CASE q # r
      BY <1>3, <3>2 DEF Markers, Types, TypeOK
    <3> QED
      BY <3>1, <3>2
  <2> QED
    BY <1>1, <1>2, <1>3, <2>1, CountIsKept
<1>4. ASSUME UNCHANGED <<engine, runs, mark, unmarked>>
      PROVE  runs'[r] + Cardinality(Pending(r)') <= Markers(r)'
  BY <1>1, <1>2, <1>4, CountIsKept DEF Markers
<1>5. CASE \E q \in Requests : Client(q)
  <2>1. PICK q \in Requests : Client(q)
    BY <1>5
  <2>2. CASE Discard(q) /\ RemoveArtifact(q) /\ client[q].gone = 2
    BY <1>3, <2>2 DEF Discard, RemoveArtifact
  <2>3. CASE ~Discard(q) \/ ~RemoveArtifact(q) \/ client[q].gone # 2
    <3>1. UNCHANGED <<engine, runs, mark, unmarked>>
      BY <2>1, <2>3 DEF Client, Post, SeeAnswer, SeeProcessing, ClaimDeadline, LookForRequest,
           Discard, RemoveArtifact, Timeout, queue, history
    <3> QED
      BY <1>4, <3>1
  <2> QED
    BY <2>2, <2>3
<1>6. CASE \E e \in Engines : Working(e)
  <2>1. PICK e \in Engines : Working(e)
    BY <1>6
  <2>2. CASE Claim(e) \/ Save(e)
    BY <2>2, ClaimIsCounted, SaveIsCounted
  <2>3. CASE ~Claim(e) /\ ~Save(e)
    <3>1. UNCHANGED <<runs, mark, unmarked>>
      BY <2>1, <2>3 DEF Working, Offer, Read, Schedule, Enqueue, Dequeue, RemoveRequest,
           PublishCheck, PublishWrite,
           PublishFails, AnswerPlan, LeaseTake, LeaseBusy, Recheck, SaveRefused, Result, Release,
           queue, history
    <3> QED
      BY <1>2, <2>1, <2>3, <3>1, NothingNewPending, CountIsKept DEF Markers
  <2> QED
    BY <2>2, <2>3
<1>7. CASE Environment
  <2>1. CASE OtherJobs
    BY <1>4, <2>1 DEF OtherJobs, StartWalk, EndWalk, ChangeLooks, ChangeWrites, ChangeEnds,
         queue, history
  <2>2. CASE \E e \in Engines : Displace(e) \/ Crash(e)
    <3>1. PICK e \in Engines : Displace(e) \/ Crash(e)
      BY <2>2
    <3>2. UNCHANGED <<runs, mark, unmarked>>
      BY <3>1 DEF Displace, Crash, queue, history
    <3>3. faults' # faults
      BY SMTT(20), <3>1 DEF Displace, Crash, Spend, FaultKinds, Types, TypeOK
    <3>4. ~Claim(e)
      BY <3>3 DEF Claim
    <3> QED
      BY <1>2, <3>1, <3>2, <3>4, NothingNewPending, CountIsKept DEF Markers
  <2>3. CASE \E q \in Requests : Prune(q)
    BY <1>3, <2>3 DEF Prune
  <2> QED
    BY <1>7, <2>1, <2>2, <2>3 DEF Environment
<1>8. CASE UNCHANGED vars
  BY <1>4, <1>8 DEF vars, queue, history
<1> QED
  BY <1>5, <1>6, <1>7, <1>8 DEF Next, Terminated

\* A save is executed once for each life of its claim marker, for any number of
\* Engines, requests, crashes and failed calls.
THEOREM OneRunPerClaim == Spec => []OneRunPerMarker
<1>1. Init => RunsAreCounted
  <2>1. Init => \A r \in Requests : Pending(r) = {} /\ runs[r] = 0 /\ Markers(r) = 0
    BY DEF Init, Pending, AboutToSave, Publishing, Markers
  <2> QED
    BY <2>1, FS_EmptySet DEF RunsAreCounted
<1>2. Types /\ RunsAreCounted => OneRunPerMarker
  <2>1. SUFFICES ASSUME Types, RunsAreCounted, NEW r \in Requests
                 PROVE  runs[r] <= 1 + unmarked[r]
    BY DEF OneRunPerMarker
  <2>2. runs[r] \in Nat /\ unmarked[r] \in Nat /\ Cardinality(Pending(r)) \in Nat
    BY <2>1, PendingIsFinite DEF Types, TypeOK
  <2>3. runs[r] + Cardinality(Pending(r)) <= unmarked[r] + (IF mark[r] THEN 1 ELSE 0)
    BY <2>1 DEF RunsAreCounted, Markers
  <2> QED
    BY <2>2, <2>3
<1>3. Types /\ RunsAreCounted /\ [Next]_vars => Types' /\ RunsAreCounted'
  BY StepTypes, StepCounts
<1> QED
  BY InitTypes, <1>1, <1>2, <1>3, PTL DEF Spec

-----------------------------------------------------------------------------
(* A reviewed save runs against the graph that was reviewed.  The graph is  *)
(* looked at under the lease; until the save, nobody else holds the class,  *)
(* and the review of a request that is being worked on does not change.     *)

\* What an Engine has in memory beside its job.
Held(e) == InboxOf(e) \cup reading[e]

OnlyPostedIsHeld ==
    \A r \in Requests : client[r].phase = "new" =>
        ~file[r] /\ \A e \in Engines : job[e] # r /\ r \notin Held(e)

ClassIsHeldOnce ==
    /\ \A d, e \in Engines : claim[d] = "valid" /\ claim[e] = "valid" => d = e
    /\ walking => \A e \in Engines : claim[e] # "valid"

ReviewHolds(e) ==
    /\ pc[e] \in {"recheck", "save"} => claim[e] = "valid"
    /\ pc[e] = "save" /\ PlanOf[job[e]] # NoRequest =>
           reviewed[job[e]] = graph \/ exposed[job[e]] = "overtaken"
    /\ pc[e] \in {"recheck", "save"} /\ changing # "no" => exposed[job[e]] # "no"

ReviewsHold == faults["displace"] = 0 => \A e \in Engines : ReviewHolds(e)

\* The requests in memory: a step adds one that has a file.
LEMMA InboxesGrow ==
    ASSUME Types, NEW e \in Engines, Working(e) \/ Displace(e) \/ Crash(e), NEW d \in Engines
    PROVE  \A r \in Held(d)' : r \in Held(d) \/ file[r]
<1> USE DEF InboxOf, Held
<1>1. CASE d # e
  BY <1>1, OthersKeep
<1>2. ASSUME d = e, NEW r \in Requests, Offer(e, r) \/ Read(e, r) \/ Schedule(e, r)
      PROVE  \A q \in Held(d)' : q \in Held(d) \/ file[q]
  <2>1. inbox[e] \in Seq(Requests) /\ (r \in reading[e] \/ file[r])
    BY <1>2 DEF Offer, Read, Schedule, Types, TypeOK
  <2>2. inbox'[e] = inbox[e] \/ inbox'[e] = Append(inbox[e], r)
    BY <1>2 DEF Offer, Read, Schedule, Enqueue, Types, TypeOK
  <2>3. reading'[e] \subseteq reading[e] \cup {r}
    BY <1>2 DEF Offer, Read, Schedule, Types, TypeOK
  <2>4. \A i \in 1..Len(inbox'[e]) : inbox'[e][i] \in InboxOf(e) \cup {r}
    BY <2>1, <2>2
  <2> QED
    BY <1>2, <2>1, <2>3, <2>4
<1>3. CASE d = e /\ Dequeue(e)
  <2>1. inbox'[e] = Tail(inbox[e]) /\ inbox[e] \in Seq(Requests) /\ inbox[e] # <<>>
        /\ reading' = reading
    BY <1>3 DEF Dequeue, Types, TypeOK
  <2>2. /\ Len(Tail(inbox[e])) = Len(inbox[e]) - 1
        /\ \A i \in 1..Len(Tail(inbox[e])) : Tail(inbox[e])[i] = inbox[e][i + 1]
    BY <2>1, HeadTailProperties
  <2>3. Len(inbox[e]) \in Nat
    BY <2>1
  <2> QED
    BY <1>3, <2>1, <2>2, <2>3
<1>4. CASE d = e /\ ~Dequeue(e)
           /\ ~\E r \in Requests : Offer(e, r) \/ Read(e, r) \/ Schedule(e, r)
  <2>1. /\ inbox'[e] = inbox[e] \/ inbox'[e] = <<>>
        /\ reading'[e] = reading[e] \/ reading'[e] = {}
    BY <1>4 DEF Working, Displace, Crash, Claim, RemoveRequest, PublishCheck, PublishWrite,
         PublishFails, AnswerPlan, LeaseTake, LeaseBusy, Recheck, Save, SaveRefused, Result,
         Release, Finish, engine, Types, TypeOK
  <2> QED
    BY <1>4, <2>1
<1> QED
  BY <1>1, <1>2, <1>3, <1>4

\* Jobs come from the memory of the dispatcher.
LEMMA JobsAreDequeued ==
    ASSUME Types, NEW e \in Engines, Working(e) \/ Displace(e) \/ Crash(e), NEW d \in Engines
    PROVE  job'[d] \in {job[d], NoRequest} \/ job'[d] \in InboxOf(d)
<1>1. CASE d # e
  BY <1>1, OthersKeep
<1>2. CASE d = e /\ Dequeue(e)
  <2>1. inbox[e] \in Seq(Requests) /\ inbox[e] # <<>> /\ job'[e] = Head(inbox[e])
    BY <1>2 DEF Dequeue, Types, TypeOK
  <2> QED
    BY <1>2, <2>1 DEF InboxOf
<1>3. CASE d = e /\ ~Dequeue(e)
  BY <1>3 DEF Working, Displace, Crash, Claim, RemoveRequest, PublishCheck, PublishWrite, Offer,
       Read, Schedule, Enqueue,
       PublishFails, AnswerPlan, LeaseTake, LeaseBusy, Recheck, Save, SaveRefused, Result,
       Release, Finish, engine, Types, TypeOK
<1> QED
  BY <1>1, <1>2, <1>3

LEMMA ClientsMoveOn ==
    ASSUME Types, NEW r \in Requests, Client(r), NEW q \in Requests
    PROVE  /\ client'[q].phase = "new" => client[q].phase = "new" /\ file'[q] = file[q]
           /\ client[q].phase # "new" /\ q \notin Plans => reviewed'[q] = reviewed[q]
<1> USE DEF Types, TypeOK, At, Clients, ClientPhases
<1>1. CASE q # r
  BY <1>1 DEF Client, Post, SeeAnswer, SeeProcessing, ClaimDeadline, LookForRequest, Discard,
       RemoveArtifact,
     Timeout, queue
<1>2. CASE q = r /\ Discard(r)
  BY <1>2 DEF Discard, RemoveArtifact
<1>3. CASE q = r /\ ~Discard(r)
  BY <1>3 DEF Client, Post, SeeAnswer, SeeProcessing, ClaimDeadline, LookForRequest, Timeout, queue
<1> QED
  BY <1>1, <1>2, <1>3

LEMMA PostedStep ==
    ASSUME Types, OnlyPostedIsHeld, [Next]_vars
    PROVE  OnlyPostedIsHeld'
<1>1. CASE \E r \in Requests : Client(r)
  <2>1. PICK r \in Requests : Client(r)
    BY <1>1
  <2>2. UNCHANGED engine
    BY <2>1 DEF Client, Post, SeeAnswer, SeeProcessing, ClaimDeadline, LookForRequest, Discard,
         RemoveArtifact,
         Timeout
  <2>3. \A q \in Requests : client'[q].phase = "new" =>
            client[q].phase = "new" /\ file'[q] = file[q]
    BY <2>1, ClientsMoveOn
  <2> QED
    BY <2>2, <2>3 DEF OnlyPostedIsHeld, engine, Held, InboxOf
<1>2. CASE \E e \in Engines : Working(e) \/ Displace(e) \/ Crash(e)
  <2>1. PICK e \in Engines : Working(e) \/ Displace(e) \/ Crash(e)
    BY <1>2
  <2>2. client' = client
    BY <2>1 DEF Working, Displace, Crash, Claim, RemoveRequest, PublishCheck, PublishWrite,
         Offer, Read, Schedule, Enqueue,
         Dequeue, PublishFails, AnswerPlan, LeaseTake, LeaseBusy, Recheck, Save, SaveRefused,
         Result, Release, user
  <2>3. \A q \in Requests : file'[q] => file[q]
    BY <2>1 DEF Working, Displace, Crash, Claim, RemoveRequest, PublishCheck, PublishWrite,
         Offer, Read, Schedule, Enqueue,
         Dequeue, PublishFails, AnswerPlan, LeaseTake, LeaseBusy, Recheck, Save, SaveRefused,
         Result, Release, queue, Types, TypeOK
  <2> QED
    BY <2>1, <2>2, <2>3, InboxesGrow, JobsAreDequeued, NamesAssumption DEF OnlyPostedIsHeld, Held
<1>3. CASE UNCHANGED <<engine, file, client>>
  BY <1>3 DEF OnlyPostedIsHeld, engine, Held, InboxOf
<1> QED
  BY <1>1, <1>2, <1>3 DEF Next, Environment, OtherJobs, StartWalk, EndWalk, ChangeLooks,
       ChangeWrites, ChangeEnds, Prune, Terminated, vars, queue,
     user

LEMMA HeldOnceStep ==
    ASSUME Types, ClassIsHeldOnce, [Next]_vars
    PROVE  ClassIsHeldOnce'
<1>1. CASE \E e \in Engines : LeaseTake(e)
  <2>1. PICK e \in Engines : LeaseTake(e)
    BY <1>1
  <2>2. ~walking' /\ \A d \in Engines : claim[d] # "valid"
    BY <2>1 DEF LeaseTake, Busy, class
  <2>3. \A d \in Engines : claim'[d] = "valid" => d = e
    BY <2>1, <2>2 DEF LeaseTake, Types, TypeOK
  <2> QED
    BY <2>2, <2>3 DEF ClassIsHeldOnce
<1>2. CASE OtherJobs
  BY <1>2 DEF OtherJobs, StartWalk, EndWalk, ChangeLooks, ChangeWrites, ChangeEnds, Busy,
       ClassIsHeldOnce, engine
<1>3. CASE \E e \in Engines : Displace(e) \/ Crash(e)
  <2>1. PICK e \in Engines : Displace(e) \/ Crash(e)
    BY <1>3
  <2>2. claim'[e] # "valid" /\ walking' = walking
    BY <2>1 DEF Displace, Crash, class, Types, TypeOK
  <2>3. \A d \in Engines : claim'[d] = "valid" => claim[d] = "valid"
    BY <2>1, <2>2, OthersKeep
  <2> QED
    BY <2>2, <2>3 DEF ClassIsHeldOnce
<1>4. ASSUME NEW e \in Engines, Working(e), ~LeaseTake(e) PROVE ClassIsHeldOnce'
  <2>1. walking' = walking /\ claim'[e] \in {"none", claim[e]}
    BY <1>4 DEF Working, Claim, RemoveRequest, PublishCheck, PublishWrite, Offer, Read,
         Schedule, Enqueue, Dequeue,
         PublishFails, AnswerPlan, LeaseBusy, Recheck, Save, SaveRefused, Result, Release,
         Finish, class, engine, Types, TypeOK
  <2>2. \A d \in Engines : claim'[d] = "valid" => claim[d] = "valid"
    BY <1>4, <2>1, OthersKeep
  <2> QED
    BY <2>1, <2>2 DEF ClassIsHeldOnce
<1>5. CASE UNCHANGED <<claim, walking>>
  BY <1>5 DEF ClassIsHeldOnce
<1>6. ASSUME NEW r \in Requests, Client(r) \/ Prune(r) PROVE UNCHANGED <<claim, walking>>
  BY <1>6 DEF Client, Post, SeeAnswer, SeeProcessing, ClaimDeadline, LookForRequest, Discard,
       RemoveArtifact,
       Timeout, Prune, engine, class
<1> QED
  BY <1>1, <1>2, <1>3, <1>4, <1>5, <1>6
     DEF Next, Environment, Terminated, vars, class, engine

\* A worker that goes on keeps its lease, and its request was posted before.
LEMMA ReviewsStep ==
    ASSUME Types, OnlyPostedIsHeld, ClassIsHeldOnce, ReviewsHold, [Next]_vars
    PROVE  ReviewsHold'
<1> SUFFICES ASSUME faults'["displace"] = 0, NEW d \in Engines
             PROVE  ReviewHolds(d)'
  BY DEF ReviewsHold
<1>1. faults["displace"] = 0 /\ ~\E e \in Engines : Displace(e)
  <2>1. \A kind \in FaultKinds : Spend(kind) =>
            faults'["displace"] = faults["displace"] + (IF kind = "displace" THEN 1 ELSE 0)
    BY SpendTypes DEF Types
  <2>2. UNCHANGED faults \/ \E kind \in FaultKinds : Spend(kind)
    BY DEF Next, Client, Post, SeeAnswer, SeeProcessing, ClaimDeadline, LookForRequest, Discard,
         RemoveArtifact,
         Timeout, Working, Offer, Read, Schedule, Enqueue, Dequeue, Claim, RemoveRequest,
         PublishCheck, PublishWrite,
         PublishFails, AnswerPlan, LeaseTake, LeaseBusy, Recheck, Save, SaveRefused, Result,
         Release, Environment, OtherJobs, StartWalk, EndWalk, ChangeLooks, ChangeWrites,
         ChangeEnds, Displace, Crash, Prune, Terminated, vars,
         FaultKinds
  <2>3. faults["displace"] \in Nat
    BY DEF Types, TypeOK, FaultKinds
  <2>4. \A e \in Engines : Displace(e) => Spend("displace")
    BY DEF Displace
  <2> QED
    BY <2>1, <2>2, <2>3, <2>4 DEF FaultKinds
<1>2. ReviewHolds(d) /\ \A e \in Engines : ReviewHolds(e)
  BY <1>1 DEF ReviewsHold
<1>3. pc[d] = "save" => job[d] \in Requests \ Plans /\ client[job[d]].phase # "new"
  BY DEF Types, PhasesFollow, Follows, OnlyPostedIsHeld
<1>4. CASE \E r \in Requests : Client(r)
  <2>1. PICK r \in Requests : Client(r)
    BY <1>4
  <2>2. UNCHANGED <<engine, graph, changing, exposed>>
    BY <2>1 DEF Client, Post, SeeAnswer, SeeProcessing, ClaimDeadline, LookForRequest, Discard,
         Timeout, class, history
  <2>3. pc[d] = "save" => reviewed'[job[d]] = reviewed[job[d]]
    BY <1>3, <2>1, ClientsMoveOn
  <2> QED
    BY <1>2, <2>2, <2>3 DEF ReviewHolds, engine
<1>5. ASSUME NEW e \in Engines, Working(e) PROVE ReviewHolds(d)'
  <2>1. UNCHANGED <<reviewed, changing>>
    BY <1>5 DEF Working, Offer, Read, Schedule, Dequeue, Claim, RemoveRequest, PublishCheck,
         PublishWrite, PublishFails, AnswerPlan, LeaseTake, LeaseBusy, Recheck, Save, SaveRefused,
         Result, Release, user, class
  <2>2. (graph' # graph => Save(e)) /\ (exposed' # exposed => Save(e) \/ LeaseTake(e))
    BY <1>5 DEF Working, Offer, Read, Schedule, Dequeue, Claim, RemoveRequest, PublishCheck,
         PublishWrite, PublishFails, AnswerPlan, LeaseTake, LeaseBusy, Recheck, SaveRefused,
         Result, Release, class, history
  <2>3. CASE d # e
    <3>1. pc'[d] = pc[d] /\ claim'[d] = claim[d] /\ job'[d] = job[d]
      BY <1>5, <2>3, OthersKeep
    <3>2. pc[d] \in {"recheck", "save"} => graph' = graph /\ exposed' = exposed
      <4>1. SUFFICES ASSUME pc[d] \in {"recheck", "save"}, Save(e) \/ LeaseTake(e) PROVE FALSE
        BY <2>2
      <4>2. claim[d] = "valid" /\ Save(e) /\ claim[e] = "valid"
        BY <1>2, <4>1 DEF ReviewHolds, Save, LeaseTake, Busy
      <4> QED
        BY <2>3, <4>2 DEF ClassIsHeldOnce
    <3> QED
      BY <1>2, <2>1, <3>1, <3>2 DEF ReviewHolds
  <2>4. CASE d = e
    <3>1. CASE LeaseTake(e)
      <4>1. pc'[e] = "recheck" /\ claim'[e] = "valid" /\ job' = job /\ job[e] \in Requests
        BY <3>1 DEF LeaseTake, Goto, Types, TypeOK, PhasesFollow, Follows
      <4>2. changing # "no" => exposed'[job[e]] # "no"
        BY <3>1, <4>1 DEF LeaseTake, Types, TypeOK
      <4> QED
        BY <2>1, <2>4, <4>1, <4>2 DEF ReviewHolds
    <3>2. CASE Recheck(e)
      <4>1. UNCHANGED <<job, claim, graph, exposed>> /\ claim[e] = "valid" /\ pc[e] = "recheck"
        BY <1>2, <2>4, <3>2 DEF Recheck, ReviewHolds, class, history
      <4>2. pc'[e] = "publish" \/ PlanOf[job[e]] = NoRequest \/ reviewed[job[e]] = graph
        BY <3>2 DEF Recheck, PublishThen, Goto, Types, TypeOK
      <4> QED
        BY <1>2, <2>1, <2>4, <4>1, <4>2 DEF ReviewHolds
    <3>3. CASE ~LeaseTake(e) /\ ~Recheck(e)
      <4>1. pc'[e] \in {"recheck", "save"} =>
                UNCHANGED graph /\ pc'[e] = pc[e] /\ job'[e] = job[e] /\ claim'[e] = claim[e]
        BY <1>5, <3>3 DEF Working, Offer, Read, Schedule, Dequeue, Claim, RemoveRequest,
             PublishCheck, PublishWrite, PublishFails, AnswerPlan, LeaseBusy, Save, SaveRefused,
             Result, Release, Goto, Finish, PublishThen, class, Types, TypeOK, PhasesFollow,
             Follows, Publishing
      <4>2. pc'[e] \in {"recheck", "save"} => ~Save(e)
        BY DEF Save, PublishThen, Goto, Types, TypeOK
      <4> QED
        BY <1>2, <2>1, <2>2, <2>4, <3>3, <4>1, <4>2 DEF ReviewHolds
    <3> QED
      BY <3>1, <3>2, <3>3
  <2> QED
    BY <2>3, <2>4
<1>6. CASE OtherJobs
  <2>1. UNCHANGED <<engine, reviewed>>
    BY <1>6 DEF OtherJobs, StartWalk, EndWalk, ChangeLooks, ChangeWrites, ChangeEnds, user
  <2>2. CASE StartWalk \/ EndWalk
    <3>1. (graph' # graph => walking) /\ UNCHANGED <<changing, exposed>>
      BY <2>2 DEF StartWalk, EndWalk, history
    <3> QED
      BY <1>2, <2>1, <3>1 DEF ReviewHolds, ClassIsHeldOnce, engine
  <2>3. CASE ChangeLooks
    <3>1. claim[d] # "valid"
      BY <2>3 DEF ChangeLooks, Busy
    <3> QED
      BY <1>2, <2>1, <3>1 DEF ReviewHolds, engine
  <2>4. CASE ChangeWrites \/ ChangeEnds
    <3>1. changing # "no" /\ (UNCHANGED <<graph, exposed>> \/ Overtake)
      BY <2>4 DEF ChangeWrites, ChangeEnds
    <3>2. CASE UNCHANGED <<graph, exposed>>
      BY <1>2, <2>1, <3>1, <3>2 DEF ReviewHolds, engine
    <3>3. CASE Overtake
      <4>1. pc[d] \in {"recheck", "save"} => job[d] \in Requests /\ exposed[job[d]] # "no"
        BY <1>2, <3>1 DEF ReviewHolds, Types, PhasesFollow, Follows
      <4>2. pc[d] = "save" => exposed'[job[d]] = "overtaken"
        BY <3>3, <4>1 DEF Overtake, Types, TypeOK
      <4>3. pc[d] = "recheck" => exposed'[job[d]] # "no"
        BY <3>3, <4>1 DEF Overtake, Types, TypeOK
      <4> QED
        BY <1>2, <2>1, <4>2, <4>3 DEF ReviewHolds, engine
    <3> QED
      BY <3>1, <3>2, <3>3
  <2> QED
    BY <1>6, <2>2, <2>3, <2>4 DEF OtherJobs
<1>7. CASE \E e \in Engines : Crash(e)
  <2>1. PICK e \in Engines : Crash(e)
    BY <1>7
  <2>2. UNCHANGED <<graph, changing, reviewed, exposed>> /\ pc'[e] = "idle"
    BY <2>1 DEF Crash, Goto, class, user, history, Types, TypeOK
  <2> QED
    BY <1>2, <2>1, <2>2, OthersKeep DEF ReviewHolds
<1>8. CASE UNCHANGED <<engine, graph, changing, reviewed, exposed>>
  BY <1>2, <1>8 DEF ReviewHolds, engine
<1> QED
  BY <1>1, <1>4, <1>5, <1>6, <1>7, <1>8
     DEF Next, Environment, Prune, Terminated, vars, class, user, history

\* A reviewed save runs against the graph its user has reviewed, for any Engines,
\* plans and rival walks, unless an Engine lost its lease, or a change of the
\* dataset types that was under way when the save took its lease wrote after the
\* save's recheck.
THEOREM ReviewsAreCurrent == Spec => ReviewedIsCurrent
<1> DEFINE Inv == Types /\ OnlyPostedIsHeld /\ ClassIsHeldOnce /\ ReviewsHold
<1>1. Init => Inv
  <2>1. Init => OnlyPostedIsHeld
    BY NamesAssumption DEF Init, OnlyPostedIsHeld, Held, InboxOf
  <2>2. Init => ClassIsHeldOnce /\ ReviewsHold
    BY DEF Init, ClassIsHeldOnce, ReviewsHold, ReviewHolds
  <2> QED
    BY <2>1, <2>2, InitTypes
<1>2. Inv /\ [Next]_vars => Inv'
  BY StepTypes, PostedStep, HeldOnceStep, ReviewsStep
<1>3. Inv /\ [Next]_vars =>
          [\A r \in Requests :
              runs'[r] # runs[r] /\ PlanOf[r] # NoRequest /\ faults["displace"] = 0
                  => reviewed[r] = graph \/ exposed[r] = "overtaken"]_vars
  <2>1. SUFFICES ASSUME Inv, Next, NEW r \in Requests, runs'[r] # runs[r],
                        PlanOf[r] # NoRequest, faults["displace"] = 0
                 PROVE  reviewed[r] = graph \/ exposed[r] = "overtaken"
    OBVIOUS
  <2>2. PICK e \in Engines : Save(e)
    BY <2>1 DEF Next, Client, Post, SeeAnswer, SeeProcessing, ClaimDeadline, LookForRequest,
         Discard, RemoveArtifact, Timeout, Working, Offer, Read, Schedule, Enqueue, Dequeue,
         Claim, RemoveRequest, PublishCheck,
         PublishWrite, PublishFails, AnswerPlan, LeaseTake, LeaseBusy, Recheck, SaveRefused,
         Result, Release, Environment, OtherJobs, StartWalk, EndWalk, ChangeLooks, ChangeWrites,
         ChangeEnds, Displace, Crash, Prune, Terminated,
         vars, history
  <2>3. r = job[e] /\ pc[e] = "save"
    BY <2>1, <2>2 DEF Save, Types, TypeOK
  <2> QED
    BY <2>1, <2>3 DEF ReviewsHold, ReviewHolds
<1> QED
  BY <1>1, <1>2, <1>3, PTL DEF Spec, ReviewedIsCurrent

-----------------------------------------------------------------------------
(* Answers tell what happened.  Until its client cleans up, a request has   *)
(* had one claim marker at most, so one worker at most runs it, and what    *)
(* that worker has saved and what it is about to answer fit together.       *)

WorksOn(e, r) == job[e] = r /\ pc[e] \notin {"idle", "claim"}

StatusIsTrue(r) ==
    /\ status[r].state = "success" => runs[r] = 1
    /\ status[r].state = "refused" => runs[r] = 0

WorkIsTrue(e, r) ==
    /\ pc[e] # "release" => ~IsTerminal(r)
    /\ AboutToSave(e) => runs[r] = 0
    /\ pc[e] = "result" => runs[r] = 1
    /\ Publishing(e) =>
         /\ mem[e].next = "result" \/ mem[e].out.state = "success" => runs[r] = 1
         /\ mem[e].out.state = "refused" => runs[r] = 0

FirstRun(r) ==
    /\ ~mark[r] => /\ runs[r] = 0 /\ status[r].state = "none"
                   /\ \A e \in Engines : ~WorksOn(e, r)
    /\ \A d, e \in Engines : WorksOn(d, r) /\ WorksOn(e, r) => d = e
    /\ r \notin Plans => /\ StatusIsTrue(r)
                         /\ \A e \in Engines : WorksOn(e, r) => WorkIsTrue(e, r)

FirstRuns == \A r \in Requests : unmarked[r] = 0 => FirstRun(r)

Unanswered ==
    \A r \in Requests : client[r].phase \in {"new", "polling", "deadline"} =>
                            unmarked[r] = 0 /\ told[r] = "nothing"

LEMMA UnansweredStep ==
    ASSUME Types, Unanswered, [Next]_vars
    PROVE  Unanswered'
<1>1. ASSUME NEW r \in Requests, Client(r) PROVE Unanswered'
  <2> SUFFICES ASSUME NEW q \in Requests,
                      client'[q].phase \in {"new", "polling", "deadline"}
               PROVE  unmarked'[q] = 0 /\ told'[q] = "nothing"
    BY DEF Unanswered
  <2>1. CASE q # r
    BY <1>1, <2>1 DEF Client, Post, SeeAnswer, SeeProcessing, ClaimDeadline, LookForRequest,
         Discard, RemoveArtifact, Timeout, history, Types, TypeOK, Unanswered
  <2>2. CASE q = r /\ Discard(r)
    BY <2>2 DEF Discard, RemoveArtifact, Types, TypeOK
  <2>3. CASE q = r /\ ~Discard(r)
    BY <1>1, <2>3 DEF Client, Post, SeeAnswer, SeeProcessing, ClaimDeadline, LookForRequest,
         Timeout, history, Types, TypeOK, Unanswered, At
  <2> QED
    BY <2>1, <2>2, <2>3
<1>2. ASSUME NEW r \in Requests, Prune(r) PROVE Unanswered'
  BY <1>2 DEF Prune, Unanswered, Types, TypeOK, user
<1>3. CASE UNCHANGED <<client, told, unmarked>>
  BY <1>3 DEF Unanswered
<1>4. ASSUME NEW e \in Engines, Working(e) PROVE UNCHANGED <<client, told, unmarked>>
  BY <1>4 DEF Working, Offer, Read, Schedule, Enqueue, Dequeue, Claim, RemoveRequest,
       PublishCheck, PublishWrite,
       PublishFails, AnswerPlan, LeaseTake, LeaseBusy, Recheck, Save, SaveRefused, Result,
       Release, user, history
<1> QED
  BY <1>1, <1>2, <1>3, <1>4
     DEF Next, Environment, OtherJobs, StartWalk, EndWalk, ChangeLooks, ChangeWrites,
          ChangeEnds, Displace, Crash, Terminated, vars, user, history

\* A step that does not touch a request, its files or the work on it.
LEMMA FirstRunIsKept ==
    ASSUME NEW r \in Requests, FirstRun(r), mark'[r] = mark[r], runs'[r] = runs[r],
           status'[r] = status[r] \/ status'[r].state = "none",
           \A e \in Engines : WorksOn(e, r)' =>
               WorksOn(e, r) /\ pc'[e] = pc[e] /\ mem'[e] = mem[e]
    PROVE  FirstRun(r)'
  BY DEF FirstRun, StatusIsTrue, WorkIsTrue, AboutToSave, Publishing, IsTerminal, Terminal

\* Only Claim begins work on a request.
LEMMA WorkBegins ==
    ASSUME Types, NEW e \in Engines, Working(e) \/ Displace(e) \/ Crash(e), ~Claim(e),
           NEW d \in Engines, NEW r \in Requests, WorksOn(d, r)'
    PROVE  WorksOn(d, r)
<1>1. CASE d # e
  BY <1>1, OthersKeep DEF WorksOn
<1>2. CASE d = e
  BY <1>2 DEF Working, Offer, Read, Schedule, Enqueue, Dequeue, RemoveRequest, PublishCheck,
       PublishWrite, PublishFails,
     AnswerPlan, LeaseTake, LeaseBusy, Recheck, Save, SaveRefused, Result, Release, Displace,
     Crash, Goto, Finish, PublishThen, WorksOn, engine, Types, TypeOK
<1> QED
  BY <1>1, <1>2

\* What a worker does to the files and runs of its request.
LEMMA WorkIsLocal ==
    ASSUME Types, NEW e \in Engines, Working(e), NEW r \in Requests, job[e] # r
    PROVE  mark'[r] = mark[r] /\ status'[r] = status[r] /\ runs'[r] = runs[r]
  BY DEF Working, Offer, Read, Schedule, Enqueue, Dequeue, Claim, RemoveRequest, PublishCheck,
       PublishWrite, PublishFails,
     AnswerPlan, LeaseTake, LeaseBusy, Recheck, Save, SaveRefused, Result, Release, queue,
     history, Types, TypeOK

\* The one worker of a request keeps its files, runs and answer consistent.
LEMMA WorkStaysTrue ==
    ASSUME Types, NEW e \in Engines, Working(e), NEW r \in Requests \ Plans, WorksOn(e, r),
           StatusIsTrue(r), WorkIsTrue(e, r)
    PROVE  StatusIsTrue(r)' /\ (WorksOn(e, r)' => WorkIsTrue(e, r)')
<1> USE DEF WorksOn, StatusIsTrue, WorkIsTrue, AboutToSave, Publishing, IsTerminal, Terminal,
            Goto, Types, TypeOK, PhasesFollow, Follows
<1> USE StatusValues
<1>1. CASE \E q \in Requests : Offer(e, q) \/ Read(e, q) \/ Schedule(e, q)
  BY <1>1 DEF Offer, Read, Schedule, Enqueue, queue, history
<1>2. CASE RemoveRequest(e)
  BY <1>2 DEF RemoveRequest, PublishThen, history
<1>3. CASE PublishCheck(e)
  BY <1>3 DEF PublishCheck, queue, history
<1>4. CASE PublishWrite(e)
  BY <1>4 DEF PublishWrite, history
<1>5. CASE PublishFails(e)
  BY <1>5 DEF PublishFails, PublishThen, Finish, queue, history
<1>6. CASE LeaseTake(e) \/ LeaseBusy(e) \/ Recheck(e)
  BY <1>6 DEF LeaseTake, LeaseBusy, Recheck, PublishThen, queue, history
<1>7. CASE Save(e)
  BY <1>7 DEF Save, PublishThen, queue
<1>8. CASE SaveRefused(e) \/ Result(e) \/ Release(e)
  BY <1>8 DEF SaveRefused, Result, Release, PublishThen, Finish, queue, history
<1> QED
  BY <1>1, <1>2, <1>3, <1>4, <1>5, <1>6, <1>7, <1>8 DEF Working, Dequeue, Claim, AnswerPlan

LEMMA ClaimIsFirst ==
    ASSUME Types, FirstRuns, NEW e \in Engines, Claim(e), NEW r \in Requests, unmarked[r] = 0
    PROVE  FirstRun(r)'
<1>1. FirstRun(r) /\ UNCHANGED <<status, runs>>
  BY DEF FirstRuns, Claim, history
<1>2. \A d \in Engines : d # e =>
          /\ WorksOn(d, r)' = WorksOn(d, r) /\ pc'[d] = pc[d] /\ mem'[d] = mem[d]
  BY OthersKeep DEF WorksOn, Working
<1>3. CASE mark[job[e]] \/ job[e] # r
  <2>1. ~WorksOn(e, r)' /\ mark'[r] = mark[r]
    BY <1>3 DEF Claim, Finish, Goto, WorksOn, Types, TypeOK
  <2> QED
    BY <1>1, <1>2, <2>1, FirstRunIsKept
<1>4. CASE ~mark[job[e]] /\ job[e] = r
  <2>1. /\ mark'[r] /\ pc'[e] = "remove" /\ runs[r] = 0 /\ status[r].state = "none"
        /\ \A d \in Engines : ~WorksOn(d, r)
    BY <1>1, <1>4 DEF Claim, Goto, FirstRun, Types, TypeOK
  <2>2. \A d \in Engines : WorksOn(d, r)' => d = e
    BY <1>2, <2>1
  <2>3. StatusIsTrue(r)' /\ WorkIsTrue(e, r)'
    BY <1>1, <2>1 DEF StatusIsTrue, WorkIsTrue, AboutToSave, Publishing, IsTerminal, Terminal
  <2> QED
    BY <2>1, <2>2, <2>3 DEF FirstRun
<1> QED
  BY <1>3, <1>4

LEMMA FirstRunsStep ==
    ASSUME Types, FirstRuns, [Next]_vars
    PROVE  FirstRuns'
<1> SUFFICES ASSUME NEW r \in Requests, unmarked'[r] = 0 PROVE FirstRun(r)'
  BY DEF FirstRuns
<1>1. ASSUME UNCHANGED <<engine, runs>>, unmarked[r] = 0, mark'[r] = mark[r],
             status'[r] = status[r] \/ status'[r] = NoStatus
      PROVE  FirstRun(r)'
  <2>1. FirstRun(r) /\ NoStatus.state = "none"
    BY <1>1 DEF FirstRuns, NoStatus
  <2>2. \A e \in Engines : WorksOn(e, r)' =>
            WorksOn(e, r) /\ pc'[e] = pc[e] /\ mem'[e] = mem[e]
    BY <1>1 DEF WorksOn, engine
  <2> QED
    BY <1>1, <2>1, <2>2, FirstRunIsKept
<1>2. ASSUME NEW q \in Requests,
             mark' = [mark EXCEPT ![q] = FALSE],
             unmarked' = [unmarked EXCEPT ![q] = IF mark[q] THEN @ + 1 ELSE @]
      PROVE  unmarked[r] = 0 /\ mark'[r] = mark[r]
  <2>1. unmarked \in [Requests -> Nat] /\ mark \in [Requests -> BOOLEAN] /\ unmarked'[r] = 0
    BY DEF Types, TypeOK
  <2>2. CASE q = r
    <3>1. mark[r] = FALSE
      BY <1>2, <2>1, <2>2
    <3>2. mark'[r] = FALSE
      BY <1>2, <2>1, <2>2
    <3>3. unmarked[r] = 0
      BY <1>2, <2>1, <2>2, <3>1
    <3> QED
      BY <2>1, <3>1, <3>2, <3>3
  <2>3. CASE q # r
    BY <1>2, <2>1, <2>3
  <2> QED
    BY <2>2, <2>3
<1>3. ASSUME NEW q \in Requests, Client(q) PROVE FirstRun(r)'
  <2>1. UNCHANGED <<engine, runs>>
    BY <1>3 DEF Client, Post, SeeAnswer, SeeProcessing, ClaimDeadline, LookForRequest, Discard,
         RemoveArtifact,
         Timeout, history
  <2>2. CASE RemoveArtifact(q) /\ client[q].gone = 2
    BY <1>1, <1>2, <2>1, <2>2 DEF RemoveArtifact
  <2>3. CASE RemoveArtifact(q) /\ client[q].gone # 2
    BY <1>1, <2>1, <2>3 DEF RemoveArtifact, Types, TypeOK
  <2>4. CASE Discard(q) /\ ~RemoveArtifact(q)
    BY <1>1, <2>1, <2>4 DEF Discard, queue
  <2>5. CASE ~Discard(q)
    BY <1>1, <1>3, <2>1, <2>5 DEF Client, Post, SeeAnswer, SeeProcessing, ClaimDeadline,
       LookForRequest, Timeout, history, queue
  <2> QED
    BY <2>2, <2>3, <2>4, <2>5
<1>4. ASSUME NEW e \in Engines, Working(e) PROVE FirstRun(r)'
  <2>1. unmarked[r] = 0 /\ FirstRun(r)
    BY <1>4 DEF FirstRuns, Working, Offer, Read, Schedule, Enqueue, Dequeue, Claim,
         RemoveRequest, PublishCheck,
         PublishWrite, PublishFails, AnswerPlan, LeaseTake, LeaseBusy, Recheck, Save,
         SaveRefused, Result, Release, history
  <2>2. \A d \in Engines : d # e => pc'[d] = pc[d] /\ mem'[d] = mem[d]
    BY <1>4, OthersKeep
  <2>3. CASE Claim(e)
    BY <2>1, <2>3, ClaimIsFirst
  <2>4. CASE ~Claim(e) /\ ~WorksOn(e, r)
    <3>1. \A d \in Engines : WorksOn(d, r)' =>
              WorksOn(d, r) /\ pc'[d] = pc[d] /\ mem'[d] = mem[d]
      BY <1>4, <2>2, <2>4, WorkBegins
    <3>2. mark'[r] = mark[r] /\ status'[r] = status[r] /\ runs'[r] = runs[r]
      <4>1. CASE job[e] # r
        BY <1>4, <4>1, WorkIsLocal
      <4>2. CASE job[e] = r
        BY <1>4, <2>4, <4>2 DEF WorksOn, Working, Offer, Read, Schedule, Enqueue, Dequeue,
             RemoveRequest, PublishCheck,
             PublishWrite, PublishFails, AnswerPlan, LeaseTake, LeaseBusy, Recheck, Save,
             SaveRefused, Result, Release, queue, history
      <4> QED
        BY <4>1, <4>2
    <3> QED
      BY <2>1, <3>1, <3>2, FirstRunIsKept
  <2>5. CASE ~Claim(e) /\ WorksOn(e, r)
    <3>1. mark[r] /\ mark'[r]
      BY <1>4, <2>1, <2>5 DEF FirstRun, Working, Offer, Read, Schedule, Enqueue, Dequeue,
           RemoveRequest, PublishCheck,
         PublishWrite, PublishFails, AnswerPlan, LeaseTake, LeaseBusy, Recheck, Save,
         SaveRefused, Result, Release, queue
    <3>2. \A d \in Engines : WorksOn(d, r)' => d = e
      BY <1>4, <2>1, <2>5, WorkBegins DEF FirstRun
    <3>3. r \notin Plans => StatusIsTrue(r)' /\ (WorksOn(e, r)' => WorkIsTrue(e, r)')
      BY <1>4, <2>1, <2>5, WorkStaysTrue DEF FirstRun
    <3> QED
      BY <3>1, <3>2, <3>3 DEF FirstRun
  <2> QED
    BY <2>3, <2>4, <2>5
<1>5. ASSUME NEW e \in Engines, Displace(e) \/ Crash(e) PROVE FirstRun(r)'
  <2>1. /\ UNCHANGED <<mark, status, runs, unmarked>>
        /\ WorksOn(e, r)' => pc'[e] = pc[e] /\ mem'[e] = mem[e]
    BY <1>5 DEF Displace, Crash, queue, history, WorksOn, Goto, Types, TypeOK
  <2>2. FirstRun(r)
    BY <2>1 DEF FirstRuns
  <2>3. ~Claim(e)
    <3>1. faults' # faults
      BY <1>5 DEF Displace, Crash, Spend, FaultKinds, Types, TypeOK
    <3> QED
      BY <3>1 DEF Claim
  <2>4. \A d \in Engines : WorksOn(d, r)' =>
            WorksOn(d, r) /\ pc'[d] = pc[d] /\ mem'[d] = mem[d]
    BY <1>5, <2>1, <2>3, WorkBegins, OthersKeep
  <2> QED
    BY <2>1, <2>2, <2>4, FirstRunIsKept
<1>6. ASSUME NEW q \in Requests, Prune(q) PROVE FirstRun(r)'
  <2>1. UNCHANGED <<engine, runs>> /\ (status'[r] = status[r] \/ status'[r] = NoStatus)
    BY <1>6 DEF Prune, Types, TypeOK
  <2> QED
    BY <1>1, <1>2, <1>6, <2>1 DEF Prune
<1>7. CASE UNCHANGED <<engine, queue, runs, unmarked>>
  BY <1>1, <1>7 DEF queue
<1> QED
  BY <1>3, <1>4, <1>5, <1>6, <1>7 
     DEF Next, Environment, OtherJobs, StartWalk, EndWalk, ChangeLooks, ChangeWrites, ChangeEnds,
         Terminated, vars, history

\* What the client of a save is told is what happened so far, for any Engines,
\* requests, crashes, failed calls and lost leases.
THEOREM AnswersAreTrue == Spec => AnswerIsTrue
<1> DEFINE Inv == Types /\ Unanswered /\ FirstRuns
<1>1. Init => Inv
  <2>1. Init => Unanswered
    BY DEF Init, Unanswered
  <2>2. Init => FirstRuns
    BY DEF Init, FirstRuns, FirstRun, WorksOn, StatusIsTrue, WorkIsTrue, NoStatus
  <2> QED
    BY <2>1, <2>2, InitTypes
<1>2. Inv /\ [Next]_vars => Inv'
  BY StepTypes, UnansweredStep, FirstRunsStep
<1>3. Inv /\ [Next]_vars =>
          [\A r \in Requests \ Plans :
              /\ told'[r] = "saved" /\ told[r] # "saved" => runs[r] = 1
              /\ told'[r] = "refused" /\ told[r] # "refused" => runs[r] = 0]_vars
  <2>1. SUFFICES ASSUME Inv, Next, NEW r \in Requests \ Plans,
                        told'[r] \in {"saved", "refused"}, told'[r] # told[r]
                 PROVE  /\ told'[r] = "saved" => runs[r] = 1
                        /\ told'[r] = "refused" => runs[r] = 0
    OBVIOUS
  <2>2. SeeAnswer(r)
    <3>1. \A q \in Requests \ {r} : Client(q) => told'[r] = told[r]
      <4>1. SUFFICES ASSUME NEW q \in Requests, q # r, Client(q) PROVE told'[r] = told[r]
        OBVIOUS
      <4>2. told' = told \/ \E answer : told' = [told EXCEPT ![q] = answer]
        BY <4>1 DEF Client, Post, SeeAnswer, SeeProcessing, ClaimDeadline, LookForRequest,
           Discard, RemoveArtifact, Timeout
      <4>3. told \in [Requests -> Answers \cup {"nothing"}]
        BY <2>1 DEF Types, TypeOK
      <4> QED
        BY <4>1, <4>2, <4>3
    <3>2. Client(r)
      BY <2>1, <3>1 DEF Next, Working, Offer, Read, Schedule, Enqueue, Dequeue, Claim,
           RemoveRequest, PublishCheck,
         PublishWrite, PublishFails, AnswerPlan, LeaseTake, LeaseBusy, Recheck, Save,
         SaveRefused, Result, Release, Environment, OtherJobs, StartWalk, EndWalk, ChangeLooks,
         ChangeWrites, ChangeEnds, Displace, Crash, Prune,
         Terminated, vars, user
    <3> QED
      BY <2>1, <3>2 DEF Client, Post, SeeProcessing, ClaimDeadline, LookForRequest, Discard,
           RemoveArtifact,
         Timeout, Types, TypeOK
  <2>3. StatusIsTrue(r)
    BY <2>1, <2>2 DEF SeeAnswer, Unanswered, FirstRuns, FirstRun
  <2> QED
    BY <2>1, <2>2, <2>3 DEF SeeAnswer, StatusIsTrue, IsTerminal, Terminal, Types, TypeOK
<1> QED
  BY <1>1, <1>2, <1>3, PTL DEF Spec, AnswerIsTrue

-----------------------------------------------------------------------------
(* The lease of the class, as it is promised                                *)

\* The durable walk takes the same lease as the Engines' saves.
Walk == CHOOSE x : x \notin Engines

ClaimOnClass ==
    [h \in Engines \cup {Walk} |->
        IF h \in Engines THEN claim[h] ELSE IF walking THEN "valid" ELSE "none"]

Claims == INSTANCE FencedClaim WITH Workers <- Engines \cup {Walk}, claim <- ClaimOnClass

\* A worker has no claim before the step that takes it.
BeforeLease(e) ==
    \/ pc[e] \in {"idle", "claim", "remove", "plan", "lease"}
    \/ Publishing(e) /\ mem[e].next \in {"plan", "lease"}

NoClaimBefore == \A e \in Engines : BeforeLease(e) => claim[e] = "none"

LEMMA WalkIsNoEngine == Walk \notin Engines
<1>1. \E x : x \notin Engines
  BY NoSetContainsEverything
<1> QED
  BY <1>1 DEF Walk

LEMMA NoClaimStep ==
    ASSUME Types, NoClaimBefore, [Next]_vars
    PROVE  NoClaimBefore'
<1>1. CASE UNCHANGED engine
  BY <1>1 DEF engine, NoClaimBefore, BeforeLease, Publishing
<1>2. ASSUME NEW e \in Engines, Working(e) \/ Displace(e) \/ Crash(e)
      PROVE  NoClaimBefore'
  <2>1. BeforeLease(e)' => claim'[e] = "none"
    <3> USE DEF Types, TypeOK, Goto, PublishThen, Finish, engine, BeforeLease, Publishing,
                NoClaimBefore
    <3>1. CASE \E r \in Requests : Offer(e, r) \/ Read(e, r) \/ Schedule(e, r)
      BY <3>1 DEF Offer, Read, Schedule, Enqueue
    <3>2. CASE Dequeue(e) \/ Claim(e) \/ Release(e) \/ Crash(e)
      BY <3>2 DEF Dequeue, Claim, Release, Crash
    <3>3. CASE RemoveRequest(e)
      BY <3>3 DEF RemoveRequest
    <3>4. CASE PublishCheck(e) \/ PublishWrite(e)
      BY <3>4 DEF PublishCheck, PublishWrite, PhasesFollow, Follows
    <3>5. CASE PublishFails(e)
      BY <3>5 DEF PublishFails, PhasesFollow, Follows
    <3>6. CASE AnswerPlan(e) \/ LeaseTake(e) \/ LeaseBusy(e) \/ Recheck(e)
      BY <3>6 DEF AnswerPlan, LeaseTake, LeaseBusy, Recheck
    <3>7. CASE Save(e) \/ SaveRefused(e) \/ Result(e)
      BY <3>7 DEF Save, SaveRefused, Result
    <3>8. CASE Displace(e)
      BY <3>8 DEF Displace
    <3> QED
      BY <1>2, <3>1, <3>2, <3>3, <3>4, <3>5, <3>6, <3>7, <3>8 DEF Working
  <2>2. \A d \in Engines : d # e => BeforeLease(d)' = BeforeLease(d) /\ claim'[d] = claim[d]
    BY <1>2, OthersKeep DEF BeforeLease, Publishing
  <2> QED
    BY <2>1, <2>2 DEF NoClaimBefore
<1>3. ASSUME NEW r \in Requests, Client(r) \/ Prune(r) PROVE UNCHANGED engine
  BY <1>3 DEF Client, Post, SeeAnswer, SeeProcessing, ClaimDeadline, LookForRequest, Discard,
       RemoveArtifact,
       Timeout, Prune
<1> QED
  BY <1>1, <1>2, <1>3 DEF Next, Environment, OtherJobs, StartWalk, EndWalk, ChangeLooks,
       ChangeWrites, ChangeEnds, Terminated, vars

LEMMA EngineClaims ==
    ASSUME Types, NoClaimBefore, NEW e \in Engines, Working(e) \/ Displace(e) \/ Crash(e)
    PROVE  [Claims!Next]_ClaimOnClass
<1> DEFINE Put(c) == walking' = walking /\ claim' = [claim EXCEPT ![e] = c]
<1>1. ASSUME NEW c, Put(c) PROVE ClaimOnClass' = [ClaimOnClass EXCEPT ![e] = c]
  <2>1. claim \in [Engines -> {"none", "valid", "lost"}] /\ e # Walk
    BY WalkIsNoEngine DEF Types, TypeOK
  <2>2. \A h \in Engines : claim'[h] = IF h = e THEN c ELSE claim[h]
    BY <1>1, <2>1
  <2> QED
    BY <1>1, <2>1, <2>2 DEF ClaimOnClass
<1>2. ClaimOnClass[e] = claim[e]
  BY DEF ClaimOnClass
<1>3. CASE LeaseTake(e)
  <2>1. Put("valid") /\ claim[e] = "none" /\ \A h \in Engines \cup {Walk} : ClaimOnClass[h] # "valid"
    BY <1>3, WalkIsNoEngine DEF LeaseTake, Busy, NoClaimBefore, BeforeLease, ClaimOnClass, class
  <2> QED
    BY <1>1, <1>2, <2>1 DEF Claims!Next, Claims!Enter
<1>4. CASE Displace(e)
  <2>1. Put("lost") /\ claim[e] = "valid"
    BY <1>4 DEF Displace, class
  <2> QED
    BY <1>1, <1>2, <2>1 DEF Claims!Next, Claims!Displace
<1>5. CASE Put("none")
  <2>1. CASE claim[e] = "none"
    <3>1. claim' = claim
      BY <1>5, <2>1 DEF Types, TypeOK
    <3> QED
      BY <1>5, <3>1 DEF ClaimOnClass
  <2>2. CASE claim[e] # "none"
    BY <1>1, <1>2, <1>5, <2>2 DEF Claims!Next, Claims!Leave
  <2> QED
    BY <2>1, <2>2
<1>6. CASE UNCHANGED <<walking, claim>>
  BY <1>6 DEF ClaimOnClass
<1>7. LeaseTake(e) \/ Displace(e) \/ Put("none") \/ UNCHANGED <<walking, claim>>
  BY DEF Working, Displace, Crash, Claim, RemoveRequest, PublishCheck, PublishWrite, Offer,
       Read, Schedule, Enqueue,
       Dequeue, PublishFails, AnswerPlan, LeaseTake, LeaseBusy, Recheck, Save, SaveRefused, Result,
       Release, Finish, class, engine
<1> QED
  BY <1>3, <1>4, <1>5, <1>6, <1>7

LEMMA WalkClaims ==
    ASSUME Types, OtherJobs
    PROVE  [Claims!Next]_ClaimOnClass
<1>1. claim' = claim
  BY DEF OtherJobs, StartWalk, EndWalk, ChangeLooks, ChangeWrites, ChangeEnds, engine
<1>2. CASE StartWalk
  <2>1. ClaimOnClass' = [ClaimOnClass EXCEPT ![Walk] = "valid"]
    BY <1>1, <1>2, WalkIsNoEngine DEF StartWalk, ClaimOnClass
  <2>2. ClaimOnClass[Walk] = "none" /\ \A h \in Engines \cup {Walk} : ClaimOnClass[h] # "valid"
    BY <1>2, WalkIsNoEngine DEF StartWalk, Busy, ClaimOnClass
  <2> QED
    BY <2>1, <2>2 DEF Claims!Next, Claims!Enter
<1>3. CASE EndWalk
  <2>1. ClaimOnClass' = [ClaimOnClass EXCEPT ![Walk] = "none"] /\ ClaimOnClass[Walk] # "none"
    BY <1>1, <1>3, WalkIsNoEngine DEF EndWalk, ClaimOnClass
  <2> QED
    BY <2>1 DEF Claims!Next, Claims!Leave
<1>4. CASE ChangeLooks \/ ChangeWrites \/ ChangeEnds
  BY <1>1, <1>4 DEF ChangeLooks, ChangeWrites, ChangeEnds, ClaimOnClass
<1> QED
  BY <1>2, <1>3, <1>4 DEF OtherJobs

\* Saves and walks use the lease of their reserving class as FencedClaim promises it and
\* EngineJobLease implements it: one valid claim at most among all of them.
THEOREM SavesUseFencedClaim == Spec => Claims!Spec
<1>1. Init => Claims!Init /\ NoClaimBefore
  BY DEF Init, ClaimOnClass, NoClaimBefore, Claims!Init
<1>2. Types /\ NoClaimBefore /\ [Next]_vars => NoClaimBefore' /\ [Claims!Next]_ClaimOnClass
  <2> SUFFICES ASSUME Types, NoClaimBefore, [Next]_vars
               PROVE  [Claims!Next]_ClaimOnClass
    BY NoClaimStep
  <2>1. CASE \E r \in Requests : Client(r) \/ Prune(r)
    BY <2>1 DEF Client, Post, SeeAnswer, SeeProcessing, ClaimDeadline, LookForRequest, Discard,
         RemoveArtifact,
         Timeout, Prune, engine, class, ClaimOnClass
  <2>2. CASE Terminated \/ UNCHANGED vars
    BY <2>2 DEF Terminated, vars, engine, class, ClaimOnClass
  <2> QED
    BY <2>1, <2>2, EngineClaims, WalkClaims DEF Next, Environment
<1>3. Spec => []Types
  BY InitTypes, StepTypes, PTL DEF Spec
<1> QED
  BY <1>1, <1>2, <1>3, PTL DEF Spec, Claims!Spec

-----------------------------------------------------------------------------
(* Who can still run a save that was retracted                              *)

\* An Engine that does not have a retracted request in memory never reads it,
\* unless the client failed to remove its file before it told the user.
RetractedIsNotRead ==
    [][\A r \in Requests, e \in Engines :
        told[r] = "unavailable" /\ r \notin kept /\ job[e] # r /\ r \notin Held(e)
            => job'[e] # r /\ r \notin Held(e)']_vars

\* The request file goes before the marker, and the answer comes after both.
FilesGoFirst ==
    \A r \in Requests :
        /\ client[r].gone \in {2, 3} /\ r \notin kept => ~file[r]
        /\ told[r] = "unavailable" => client[r] = [phase |-> "done", gone |-> 3]

LEMMA FilesStep ==
    ASSUME Types, FilesGoFirst, [Next]_vars
    PROVE  FilesGoFirst'
<1> SUFFICES ASSUME NEW q \in Requests
             PROVE  /\ client'[q].gone \in {2, 3} /\ q \notin kept' => ~file'[q]
                    /\ told'[q] = "unavailable" => client'[q] = [phase |-> "done", gone |-> 3]
  BY DEF FilesGoFirst
<1>1. /\ client \in [Requests -> Clients] /\ file \in [Requests -> BOOLEAN]
      /\ told \in [Requests -> Answers \cup {"nothing"}]
      /\ client[q].gone \in {2, 3} /\ q \notin kept => ~file[q]
      /\ told[q] = "unavailable" => client[q] = [phase |-> "done", gone |-> 3]
  BY DEF Types, TypeOK, FilesGoFirst, Clients
<1>2. ASSUME NEW r \in Requests, Client(r), r # q
      PROVE  /\ client'[q] = client[q] /\ file'[q] = file[q] /\ told'[q] = told[q]
             /\ q \in kept => q \in kept'
  BY <1>1, <1>2 DEF history, Client, Post, SeeAnswer, SeeProcessing, ClaimDeadline,
       LookForRequest, Discard, RemoveArtifact,
     Timeout, queue
<1>3. CASE Discard(q)
  <2>1. client[q].gone \in 0..2 /\ client[q].phase # "done" /\ told[q] # "unavailable"
    BY <1>1, <1>3 DEF Discard, RemoveArtifact, Types, ClientsDiscard
  <2>2. /\ client'[q].gone = client[q].gone + 1
        /\ told'[q] = "unavailable" => client'[q] = [phase |-> "done", gone |-> 3]
    BY <1>1, <1>3, <2>1 DEF Discard
  <2>3. CASE RemoveArtifact(q) /\ kept' = kept
    BY <1>1, <2>1, <2>2, <2>3 DEF RemoveArtifact
  <2>4. CASE UNCHANGED queue /\ kept' = IF client[q].gone = 1 THEN kept \cup {q} ELSE kept
    BY <1>1, <2>1, <2>2, <2>4 DEF queue
  <2> QED
    BY <1>3, <2>2, <2>3, <2>4 DEF Discard
<1>4. CASE Client(q) /\ ~Discard(q)
  <2>1. (client'[q] = client[q] \/ client'[q].gone = 0) /\ kept' = kept
    BY <1>1, <1>4 DEF history, Client, Post, SeeAnswer, SeeProcessing, ClaimDeadline,
         LookForRequest,
       Timeout, At
  <2>2. client[q].phase # "done" /\ (file'[q] = file[q] \/ client'[q].gone = 0)
    BY <1>1, <1>4 DEF Client, Post, SeeAnswer, SeeProcessing, ClaimDeadline, LookForRequest,
       Timeout, At, queue
  <2>3. told'[q] # "unavailable"
    <3>1. told[q] # "unavailable"
      BY <1>1, <2>2
    <3> QED
      BY <1>1, <1>4, <3>1 DEF Client, Post, SeeAnswer, SeeProcessing, ClaimDeadline,
         LookForRequest, Timeout, IsTerminal, Terminal
  <2> QED
    BY <1>1, <2>1, <2>2, <2>3
<1>5. ASSUME NEW e \in Engines, Working(e) \/ Displace(e) \/ Crash(e)
      PROVE  UNCHANGED <<client, told, kept>> /\ (file'[q] => file[q])
  BY <1>1, <1>5 DEF Working, Offer, Read, Schedule, Enqueue, Dequeue, Claim, RemoveRequest,
       PublishCheck, PublishWrite,
     PublishFails, AnswerPlan, LeaseTake, LeaseBusy, Recheck, Save, SaveRefused, Result, Release,
     Displace, Crash, queue, user, history
<1>6. CASE UNCHANGED <<file, user, kept>>
  BY <1>1, <1>6 DEF user
<1>7. OtherJobs \/ Terminated \/ UNCHANGED vars \/ (\E r \in Requests : Prune(r))
          => UNCHANGED <<file, user, kept>>
  BY DEF history, OtherJobs, StartWalk, EndWalk, ChangeLooks, ChangeWrites, ChangeEnds,
       Terminated, Prune, vars, queue
<1> QED
  BY <1>1, <1>2, <1>3, <1>4, <1>5, <1>6, <1>7 DEF Next, Environment

\* After the 503 of a retraction the save may still be executed, but only by an Engine
\* that had read it into memory before, or if the client could not remove the request file.
THEOREM RetractedIsOnlyInMemory == Spec => RetractedIsNotRead
<1>1. Init => FilesGoFirst
  BY DEF Init, FilesGoFirst, At
<1>2. Types /\ FilesGoFirst /\ [Next]_vars => FilesGoFirst'
  BY FilesStep
<1>3. Types /\ FilesGoFirst /\ [Next]_vars =>
          [\A r \in Requests, e \in Engines :
              told[r] = "unavailable" /\ r \notin kept /\ job[e] # r /\ r \notin Held(e)
                  => job'[e] # r /\ r \notin Held(e)']_vars
  <2> SUFFICES ASSUME Types, FilesGoFirst, Next, NEW r \in Requests, NEW e \in Engines,
                      told[r] = "unavailable", r \notin kept, job[e] # r, r \notin Held(e)
               PROVE  job'[e] # r /\ r \notin Held(e)'
    OBVIOUS
  <2>1. ~file[r]
    BY DEF FilesGoFirst
  <2>2. CASE \E d \in Engines : Working(d) \/ Displace(d) \/ Crash(d)
    BY <2>1, <2>2, InboxesGrow, JobsAreDequeued, NamesAssumption DEF Held
  <2>3. CASE UNCHANGED engine
    BY <2>3 DEF engine, Held, InboxOf
  <2>4. OtherJobs \/ Terminated \/ (\E q \in Requests : Client(q) \/ Prune(q))
            => UNCHANGED engine
    BY DEF OtherJobs, StartWalk, EndWalk, ChangeLooks, ChangeWrites, ChangeEnds, Terminated,
         Client, Post, SeeAnswer, SeeProcessing, ClaimDeadline,
       LookForRequest, Discard, RemoveArtifact, Timeout, Prune, vars
  <2> QED
    BY <2>2, <2>3, <2>4 DEF Next, Environment
<1>4. Spec => []Types
  BY InitTypes, StepTypes, PTL DEF Spec
<1> QED
  BY <1>1, <1>2, <1>3, <1>4, PTL DEF Spec, RetractedIsNotRead
=============================================================================
