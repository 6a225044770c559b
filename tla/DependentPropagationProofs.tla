--------------------- MODULE DependentPropagationProofs ---------------------
(***************************************************************************)
(* Safety of dependent propagation for any workers, requests, roots and    *)
(* faults.                                                                 *)
(*                                                                         *)
(* Types strengthens TypeOK with what the phase of a walk implies.  Moves  *)
(* says what a step of a worker may do to the requests, and Inv follows a  *)
(* saved version: a walk that writes has read at least what its requests   *)
(* changed (Reads), a walk that succeeded has written it (Covers), and so  *)
(* has one that was answered with success, because workers that hold the   *)
(* lease exclude each other (Held) and no request joins a walk before its  *)
(* save is complete (Known).                                               *)
(*                                                                         *)
(* Kept adds where a request file is about to go: what removes it is a     *)
(* success, as long as nothing fails, so that no save is dropped.  At last *)
(* the walk is shown to use its lease as FencedClaim promises it.          *)
(***************************************************************************)
EXTENDS DependentPropagation, TLAPS

\* What the phase of a worker says about its local variables.
Follows(w) ==
    /\ pc[w] # "idle" => job[w] \in Requests
    /\ mem[w].todo \subseteq Everyone(w)
    /\ pc[w] \in {"announce_write", "answer_write", "confirm", "unlink"} =>
           mem[w].target \in Everyone(w)
    /\ pc[w] \in {"idle", "discard", "acquire", "drain", "announce", "announce_write", "read",
                  "write"} => mem[w].outcome = "none"
    /\ pc[w] \in {"idle", "discard", "acquire", "drain"} => mem[w].todo = {}
    /\ pc[w] \in {"tick", "tick_write"} =>
           \/ mem[w].progress = 1 /\ mem[w].outcome = "none"
           \/ mem[w].progress = 2 /\ mem[w].outcome \in Terminal
    /\ pc[w] = "join" => mem[w].outcome \in Terminal \cup {"lost"}
    /\ pc[w] \in {"answer", "answer_write", "confirm", "unlink"} => mem[w].outcome \in Terminal

Types == TypeOK /\ \A w \in Workers : Follows(w)

LEMMA SpendTypes ==
    ASSUME TypeOK, NEW kind \in FaultKinds, Spend(kind)
    PROVE  /\ faults' \in [FaultKinds -> Nat]
           /\ faults'["displace"] = faults["displace"] + (IF kind = "displace" THEN 1 ELSE 0)
           /\ faults' # faults
  BY DEF TypeOK, Spend, FaultKinds

LEMMA FreshValues ==
    FreshMemory \in Memory /\ NoBeat \in Beat /\ Waiting \in Beat
  BY DEF FreshMemory, Memory, NoBeat, Waiting, Beat

LEMMA InitTypes == Init => Types
<1> SUFFICES ASSUME Init PROVE Types
  OBVIOUS
<1>1. TypeOK
  BY FreshValues, FaultsAssumption DEF Init, TypeOK, Phases
<1>2. \A w \in Workers : Follows(w)
  BY DEF Init, Follows, FreshMemory
<1> QED
  BY <1>1, <1>2 DEF Types

\* A step of one worker leaves the others alone.
Steps(w) == Job(w) \/ BeatWake(w) \/ Beating(w) \/ Displace(w) \/ Crash(w)

LEMMA OthersKeep ==
    ASSUME Types, NEW w \in Workers, Steps(w), NEW v \in Workers, v # w
    PROVE  /\ pc'[v] = pc[v] /\ job'[v] = job[v] /\ claim'[v] = claim[v]
           /\ mem'[v] = mem[v] /\ beat'[v] = beat[v]
<1> USE DEF Types, TypeOK, owner, Goto, Raise, Answered, Unanswered
<1>1. CASE Claiming(w)
  BY <1>1 DEF Claiming, Pick, Discard, Acquire, AcquireMiss, Drain
<1>2. CASE Walking(w)
  BY <1>2 DEF Walking, AnnounceCheck, AnnounceWrite, TickCheck, TickWrite, WalkRead, WalkWrite,
     WalkFails, Join
<1>3. CASE Replying(w)
  BY <1>3 DEF Replying, AnswerCheck, AnswerWrite, Confirm, Unlink, Release, WriteFails
<1>4. CASE BeatWake(w) \/ Beating(w)
  BY <1>4 DEF BeatWake, Beating, BeatCheck, BeatWrite, BeatFails, BeatStops
<1>5. CASE Displace(w) \/ Crash(w)
  BY <1>5 DEF Displace, Crash
<1> QED
  BY <1>1, <1>2, <1>3, <1>4, <1>5 DEF Steps, Job

\* What a step of a worker must keep, for itself.
OwnTypes(w) ==
    /\ derived' \in [Roots -> Nat] /\ queued' \in [Requests -> BOOLEAN]
    /\ status' \in [Requests -> {"none", "queued", "processing"} \cup Terminal]
    /\ faults' \in [FaultKinds -> Nat]
    /\ pc' \in [Workers -> Phases] /\ job' \in [Workers -> Requests \cup {NoRequest}]
    /\ claim' \in [Workers -> {"none", "valid", "lost"}]
    /\ mem' \in [Workers -> Memory] /\ beat' \in [Workers -> Beat]
    /\ UNCHANGED <<version, saves>>
    /\ Follows(w)'

LEMMA StepKeepsTypes ==
    ASSUME Types, NEW w \in Workers, Steps(w), OwnTypes(w)
    PROVE  Types'
<1>1. TypeOK'
  BY DEF OwnTypes, Types, TypeOK, saves
<1>2. ASSUME NEW v \in Workers, v # w PROVE Follows(v)'
  BY <1>2, OthersKeep DEF Types, Follows, Everyone
<1> QED
  BY <1>1, <1>2 DEF OwnTypes, Types

LEMMA ClientTypes ==
    ASSUME Types, NEW r \in Requests, Client(r)
    PROVE  Types'
<1>1. UNCHANGED <<derived, faults, pc, owner, mem, beat>>
  BY DEF Client, Save, Submit, data
<1>2. \A w \in Workers : Follows(w)'
  BY <1>1 DEF Types, Follows, Everyone, owner
<1>3. CASE Save(r)
  <2>1. version' \in [Roots -> Nat]
    BY <1>3 DEF Save, Types, TypeOK
  <2>2. change' \in [Requests -> [Roots -> Nat]]
    BY <1>3, <2>1 DEF Save, Types, TypeOK
  <2>3. client' \in [Requests -> {"new", "saved", "sent"}]
    BY <1>3 DEF Save, Types, TypeOK
  <2> QED
    BY <1>1, <1>2, <1>3, <2>1, <2>2, <2>3 DEF Save, Types, TypeOK, owner, files
<1>4. CASE Submit(r)
  <2>1. /\ client' \in [Requests -> {"new", "saved", "sent"}]
        /\ status' \in [Requests -> {"none", "queued", "processing"} \cup Terminal]
    BY <1>4 DEF Submit, Types, TypeOK
  <2>2. queued' \in [Requests -> BOOLEAN]
    BY <1>4 DEF Submit, Types, TypeOK
  <2> QED
    BY <1>1, <1>2, <1>4, <2>1, <2>2 DEF Submit, Types, TypeOK, owner, data
<1> QED
  BY <1>3, <1>4 DEF Client

\* The types that the steps of a worker start from.
LEMMA TypesOf ==
    ASSUME Types, NEW w \in Workers
    PROVE  /\ derived \in [Roots -> Nat] /\ version \in [Roots -> Nat]
           /\ queued \in [Requests -> BOOLEAN]
           /\ status \in [Requests -> {"none", "queued", "processing"} \cup Terminal]
           /\ faults \in [FaultKinds -> Nat]
           /\ pc \in [Workers -> Phases] /\ job \in [Workers -> Requests \cup {NoRequest}]
           /\ claim \in [Workers -> {"none", "valid", "lost"}]
           /\ mem \in [Workers -> Memory] /\ beat \in [Workers -> Beat]
           /\ Follows(w) /\ mem[w] \in Memory
           /\ \A kind \in FaultKinds : Spend(kind) => faults' \in [FaultKinds -> Nat]
  BY SpendTypes DEF Types, TypeOK

LEMMA ClaimingTypes ==
    ASSUME Types, NEW w \in Workers, Claiming(w)
    PROVE  OwnTypes(w)
<1> USE TypesOf DEF OwnTypes, saves, files, owner, data, Goto, At
<1>1. CASE \E r \in Requests : Pick(w, r)
  <2>1. PICK r \in Requests : Pick(w, r)
    BY <1>1
  <2>2. Follows(w)'
    BY <2>1, NamesAssumption DEF Pick, Follows, Everyone
  <2> QED
    BY <2>1, <2>2 DEF Pick, Phases
<1>2. CASE Discard(w)
  <2>1. Follows(w)'
    BY <1>2 DEF Discard, Follows, Everyone
  <2>2. queued' \in [Requests -> BOOLEAN]
    BY <1>2 DEF Discard
  <2> QED
    BY <1>2, <2>1, <2>2 DEF Discard, Phases
<1>3. CASE Acquire(w)
  <2>1. Follows(w)'
    BY <1>3 DEF Acquire, Follows, Everyone
  <2> QED
    BY <1>3, <2>1 DEF Acquire, Phases
<1>4. CASE AcquireMiss(w)
  <2>1. Follows(w)'
    BY <1>4 DEF AcquireMiss, Follows, Everyone
  <2> QED
    BY <1>4, <2>1 DEF AcquireMiss, Phases
<1>5. CASE Drain(w)
  <2> DEFINE siblings == {q \in Requests \ {job[w]} : queued[q] /\ status[q] \notin Terminal}
             next == [mem[w] EXCEPT !.merged = siblings, !.todo = siblings \cup {job[w]}]
  <2>1. job[w] \in Requests
    BY <1>5 DEF Drain, Follows
  <2>2. next \in Memory
    BY <2>1 DEF Memory
  <2>3. mem' = [mem EXCEPT ![w] = next]
    BY <1>5 DEF Drain
  <2>4. mem'[w] = next /\ mem' \in [Workers -> Memory] /\ pc'[w] = "announce"
    BY <1>5, <2>2, <2>3 DEF Drain
  <2>5. next.todo = siblings \cup {job[w]} /\ next.merged = siblings /\ next.outcome = "none"
    BY <1>5 DEF Drain, Follows, Memory
  <2>6. Follows(w)'
    BY <1>5, <2>1, <2>4, <2>5 DEF Drain, Follows, Everyone
  <2> QED
    BY <1>5, <2>4, <2>6 DEF Drain, Phases
<1> QED
  BY <1>1, <1>2, <1>3, <1>4, <1>5 DEF Claiming

\* Updates of the local variables, as the actions make them.
LEMMA Raised ==
    ASSUME NEW m \in Memory, NEW o \in {"none", "success", "error", "lost"},
           NEW new, new = [m EXCEPT !.outcome = o]
    PROVE  /\ new \in Memory /\ new.outcome = o
           /\ new.merged = m.merged /\ new.todo = m.todo
  BY DEF Memory

LEMMA Announced ==
    ASSUME NEW m \in Memory,
           NEW new, new = [m EXCEPT !.todo = {}, !.progress = 1, !.target = NoRequest]
    PROVE  /\ new \in Memory /\ new.todo = {} /\ new.progress = 1
           /\ new.merged = m.merged /\ new.outcome = m.outcome
<1>1. 1 \in 0..2
  OBVIOUS
<1>2. /\ new.merged = m.merged /\ new.seen = m.seen /\ new.written = m.written
      /\ new.outcome = m.outcome /\ new.todo = {} /\ new.progress = 1
      /\ new.target = NoRequest
  BY DEF Memory
<1>3. new = [merged |-> new.merged, todo |-> new.todo, target |-> new.target,
             seen |-> new.seen, outcome |-> new.outcome, progress |-> new.progress,
             written |-> new.written]
  BY DEF Memory
<1> QED
  BY <1>1, <1>2, <1>3 DEF Memory

LEMMA RaiseTypes ==
    ASSUME Types, NEW w \in Workers, Raise(w, "lost") \/ Raise(w, "error"), UNCHANGED job,
           pc[w] # "idle"
    PROVE  mem' \in [Workers -> Memory] /\ pc' \in [Workers -> Phases] /\ Follows(w)'
<1>1. PICK outcome \in {"lost", "error"} : Raise(w, outcome)
  OBVIOUS
<1>2. mem' = [mem EXCEPT ![w] = [mem[w] EXCEPT !.outcome = outcome]]
  BY <1>1 DEF Raise
<1>3. /\ mem' \in [Workers -> Memory] /\ mem'[w].outcome = outcome
      /\ mem'[w].merged = mem[w].merged /\ mem'[w].todo = mem[w].todo
  <2> DEFINE new == [mem[w] EXCEPT !.outcome = outcome]
  <2>1. mem \in [Workers -> Memory] /\ mem[w] \in Memory
    BY TypesOf
  <2>2. /\ new \in Memory /\ new.outcome = outcome
        /\ new.merged = mem[w].merged /\ new.todo = mem[w].todo
    BY <2>1, Raised
  <2>3. mem' = [mem EXCEPT ![w] = new]
    BY <1>2
  <2> HIDE DEF new
  <2> QED
    BY <2>1, <2>2, <2>3
<1>4. pc' \in [Workers -> Phases] /\ pc'[w] = "join"
  BY <1>1, TypesOf DEF Raise, Goto, Phases
<1>5. Follows(w)'
  BY <1>3, <1>4, TypesOf DEF Follows, Everyone, Terminal
<1> QED
  BY <1>3, <1>4, <1>5

LEMMA AnnounceTypes ==
    ASSUME Types, NEW w \in Workers, AnnounceCheck(w) \/ AnnounceWrite(w)
    PROVE  OwnTypes(w)
<1> USE TypesOf DEF OwnTypes, saves, files, owner, data, At
<1>1. CASE AnnounceCheck(w)
  <2>1. CASE Lost(w)
    BY <1>1, <2>1, RaiseTypes DEF AnnounceCheck
  <2>2. CASE ~Lost(w)
    <3>1. PICK r \in Upcoming(w, mem[w].todo) : mem' = [mem EXCEPT ![w].target = r]
      BY <1>1, <2>2 DEF AnnounceCheck
    <3>2. r \in Everyone(w) /\ r \in Requests
      BY <1>1, <3>1 DEF AnnounceCheck, Upcoming, Follows, Everyone, Memory
    <3>3. /\ mem' \in [Workers -> Memory] /\ mem'[w].target = r
          /\ mem'[w].merged = mem[w].merged /\ mem'[w].todo = mem[w].todo
          /\ mem'[w].outcome = mem[w].outcome
      BY ZenonT(40), <3>1, <3>2 DEF Memory
    <3>4. pc' \in [Workers -> Phases] /\ pc'[w] = "announce_write"
      BY <1>1, <2>2 DEF AnnounceCheck, Goto, Phases
    <3>5. Follows(w)'
      BY <1>1, <3>2, <3>3, <3>4 DEF AnnounceCheck, Follows, Everyone
    <3> QED
      BY <1>1, <3>3, <3>4, <3>5 DEF AnnounceCheck
  <2> QED
    BY <2>1, <2>2
<1>2. CASE AnnounceWrite(w)
  <2> DEFINE left == mem[w].todo \ {mem[w].target}
  <2>1. status' \in [Requests -> {"none", "queued", "processing"} \cup Terminal]
    BY <1>2 DEF AnnounceWrite
  <2>2. CASE left # {}
    <3>1. mem' = [mem EXCEPT ![w].todo = left] /\ UNCHANGED beat /\ Goto(w, "announce")
      BY <1>2, <2>2 DEF AnnounceWrite
    <3>2. /\ mem' \in [Workers -> Memory] /\ mem'[w].todo = left
          /\ mem'[w].merged = mem[w].merged /\ mem'[w].outcome = mem[w].outcome
      BY ZenonT(40), <3>1 DEF Memory
    <3>3. pc' \in [Workers -> Phases] /\ pc'[w] = "announce"
      BY <3>1 DEF Goto, Phases
    <3>4. Follows(w)'
      BY <1>2, <3>2, <3>3 DEF AnnounceWrite, Follows, Everyone
    <3> QED
      BY <1>2, <2>1, <3>1, <3>2, <3>3, <3>4 DEF AnnounceWrite
  <2>3. CASE left = {}
    <3> DEFINE next == [mem[w] EXCEPT !.todo = {}, !.progress = 1, !.target = NoRequest]
    <3>1. mem' = [mem EXCEPT ![w] = next] /\ Goto(w, "tick")
      BY <1>2, <2>3 DEF AnnounceWrite
    <3>2. /\ next \in Memory /\ next.todo = {} /\ next.progress = 1
          /\ next.merged = mem[w].merged /\ next.outcome = mem[w].outcome
      BY Announced
    <3>3. mem' \in [Workers -> Memory] /\ mem'[w] = next
      BY <3>1, <3>2
    <3>4. pc' \in [Workers -> Phases] /\ pc'[w] = "tick"
      BY <3>1 DEF Goto, Phases
    <3>5. Follows(w)'
      BY <1>2, <3>2, <3>3, <3>4 DEF AnnounceWrite, Follows, Everyone
    <3>6. beat' \in [Workers -> Beat]
      BY <1>2, <2>3, FreshValues DEF AnnounceWrite
    <3> QED
      BY <1>2, <2>1, <3>3, <3>4, <3>5, <3>6 DEF AnnounceWrite
  <2> QED
    BY <2>2, <2>3
<1> QED
  BY <1>1, <1>2

LEMMA TickTypes ==
    ASSUME Types, NEW w \in Workers, TickCheck(w) \/ TickWrite(w)
    PROVE  OwnTypes(w)
<1> USE TypesOf DEF OwnTypes, saves, files, owner, data, At
<1>1. CASE TickCheck(w)
  <2>1. CASE Lost(w)
    BY <1>1, <2>1, RaiseTypes DEF TickCheck
  <2>2. CASE ~Lost(w)
    BY <1>1, <2>2 DEF TickCheck, Goto, Phases, Follows, Everyone
  <2> QED
    BY <2>1, <2>2
<1>2. CASE TickWrite(w)
  <2>1. mem' = [mem EXCEPT ![w].written = mem[w].progress]
    BY <1>2 DEF TickWrite
  <2>2. /\ mem' \in [Workers -> Memory] /\ mem'[w].todo = mem[w].todo
        /\ mem'[w].merged = mem[w].merged /\ mem'[w].outcome = mem[w].outcome
    BY ZenonT(40), <2>1 DEF Memory
  <2>3. /\ pc' \in [Workers -> Phases]
        /\ pc'[w] = IF mem[w].progress = 1 THEN "read" ELSE "join"
    BY <1>2 DEF TickWrite, Goto, Phases
  <2>4. Follows(w)'
    BY <1>2, <2>2, <2>3 DEF TickWrite, Follows, Everyone
  <2>5. status' \in [Requests -> {"none", "queued", "processing"} \cup Terminal]
    BY <1>2 DEF TickWrite
  <2> QED
    BY <1>2, <2>2, <2>3, <2>4, <2>5 DEF TickWrite
<1> QED
  BY <1>1, <1>2

\* The local variables after the walk has ended.
Finished(m, o) == [m EXCEPT !.outcome = o, !.progress = 2, !.seen = FreshMemory.seen]

LEMMA WalkedMemory ==
    ASSUME NEW m \in Memory, NEW o \in {"success", "error"}
    PROVE  /\ Finished(m, o) \in Memory /\ Finished(m, o).todo = m.todo
           /\ Finished(m, o).progress = 2 /\ Finished(m, o).outcome = o
           /\ Finished(m, o).merged = m.merged /\ Finished(m, o).seen = FreshMemory.seen
<1> SUFFICES ASSUME NEW new, new = Finished(m, o)
             PROVE  /\ new \in Memory /\ new.todo = m.todo /\ new.progress = 2
                    /\ new.outcome = o /\ new.merged = m.merged
                    /\ new.seen = FreshMemory.seen
  OBVIOUS
<1>1. 2 \in 0..2 /\ FreshMemory.seen \in [Roots -> Nat]
  BY DEF FreshMemory
<1>2. /\ new.merged = m.merged /\ new.target = m.target /\ new.written = m.written
      /\ new.todo = m.todo /\ new.progress = 2
      /\ new.outcome = o /\ new.seen = FreshMemory.seen
  BY DEF Memory, Finished
<1>3. new = [merged |-> new.merged, todo |-> new.todo, target |-> new.target,
             seen |-> new.seen, outcome |-> new.outcome, progress |-> new.progress,
             written |-> new.written]
  BY DEF Memory, Finished
<1> QED
  BY <1>1, <1>2, <1>3 DEF Memory

\* Both ends of the walk: what they do to the worker itself.
LEMMA WalkedTypes ==
    ASSUME Types, NEW w \in Workers, At(w, "write"), UNCHANGED job, Goto(w, "tick"),
           NEW o \in {"success", "error"},
           mem' = [mem EXCEPT ![w] = [@ EXCEPT !.outcome = o, !.progress = 2,
                                               !.seen = FreshMemory.seen]]
    PROVE  mem' \in [Workers -> Memory] /\ pc' \in [Workers -> Phases] /\ Follows(w)'
<1> DEFINE new == Finished(mem[w], o)
<1>1. mem \in [Workers -> Memory] /\ mem[w] \in Memory
  BY TypesOf
<1>2. mem' = [mem EXCEPT ![w] = new]
  BY DEF Finished
<1>3. /\ new \in Memory /\ new.todo = mem[w].todo /\ new.progress = 2 /\ new.outcome = o
      /\ new.merged = mem[w].merged
  BY <1>1, WalkedMemory
<1> HIDE DEF new
<1>4. mem' \in [Workers -> Memory] /\ mem'[w] = new
  BY <1>1, <1>2, <1>3
<1>5. pc' \in [Workers -> Phases] /\ pc'[w] = "tick"
  BY TypesOf DEF Goto, Phases
<1>6. Follows(w)'
  BY <1>3, <1>4, <1>5, TypesOf DEF Follows, Everyone, Terminal, At
<1> QED
  BY <1>4, <1>5, <1>6

LEMMA WalkTypes ==
    ASSUME Types, NEW w \in Workers, WalkRead(w) \/ WalkWrite(w) \/ WalkFails(w)
    PROVE  OwnTypes(w)
<1> USE TypesOf DEF OwnTypes, saves, files, owner, data, At
<1>1. CASE WalkRead(w)
  <2> DEFINE seen == [x \in Roots |-> IF x \in Walked(w) THEN version[x] ELSE 0]
  <2>1. seen \in [Roots -> Nat]
    OBVIOUS
  <2>2. mem' = [mem EXCEPT ![w].seen = seen]
    BY <1>1 DEF WalkRead
  <2> HIDE DEF seen
  <2>3. /\ mem' \in [Workers -> Memory] /\ mem'[w].todo = mem[w].todo
        /\ mem'[w].merged = mem[w].merged /\ mem'[w].outcome = mem[w].outcome
    BY ZenonT(40), <2>1, <2>2 DEF Memory
  <2>4. pc' \in [Workers -> Phases] /\ pc'[w] = "write"
    BY <1>1 DEF WalkRead, Goto, Phases
  <2>5. Follows(w)'
    BY <1>1, <2>3, <2>4 DEF WalkRead, Follows, Everyone
  <2> QED
    BY <1>1, <2>3, <2>4, <2>5 DEF WalkRead
<1>2. CASE WalkWrite(w)
  <2>1. mem' \in [Workers -> Memory] /\ pc' \in [Workers -> Phases] /\ Follows(w)'
    <3>1. mem' = [mem EXCEPT ![w] = [@ EXCEPT !.outcome = "success", !.progress = 2,
                                              !.seen = FreshMemory.seen]]
      BY <1>2 DEF WalkWrite
    <3>2. At(w, "write") /\ UNCHANGED job /\ Goto(w, "tick")
      BY <1>2 DEF WalkWrite
    <3> QED
      BY <3>1, <3>2, WalkedTypes
  <2>2. mem[w].seen \in [Roots -> Nat]
    BY DEF Memory
  <2>3. derived' \in [Roots -> Nat]
    BY <1>2, <2>2 DEF WalkWrite
  <2> QED
    BY <1>2, <2>1, <2>3 DEF WalkWrite
<1>3. CASE WalkFails(w)
  <2>1. mem' \in [Workers -> Memory] /\ pc' \in [Workers -> Phases] /\ Follows(w)'
    <3>1. mem' = [mem EXCEPT ![w] = [@ EXCEPT !.outcome = "error", !.progress = 2,
                                              !.seen = FreshMemory.seen]]
      BY <1>3 DEF WalkFails
    <3>2. At(w, "write") /\ UNCHANGED job /\ Goto(w, "tick")
      BY <1>3 DEF WalkFails
    <3> QED
      BY <3>1, <3>2, WalkedTypes
  <2>2. faults' \in [FaultKinds -> Nat]
    BY <1>3 DEF WalkFails, FaultKinds
  <2> QED
    BY <1>3, <2>1, <2>2 DEF WalkFails
<1> QED
  BY <1>1, <1>2, <1>3

LEMMA JoinTypes ==
    ASSUME Types, NEW w \in Workers, Join(w)
    PROVE  OwnTypes(w)
<1> USE TypesOf DEF OwnTypes, saves, files, owner, data, At
<1>1. faults' \in [FaultKinds -> Nat] /\ beat' \in [Workers -> Beat]
  BY FreshValues DEF Join, FaultKinds
<1>2. /\ mem' \in [Workers -> Memory] /\ mem'[w].todo \subseteq Everyone(w)
      /\ mem'[w].merged = mem[w].merged /\ mem'[w].outcome = mem[w].outcome
  <2>1. CASE mem[w].outcome = "lost"
    BY <2>1 DEF Join, Follows
  <2>2. CASE mem[w].outcome # "lost"
    <3>1. mem' = [mem EXCEPT ![w].todo = Everyone(w)]
      BY <2>2 DEF Join
    <3>2. Everyone(w) \in SUBSET Requests
      BY DEF Join, Follows, Everyone, Memory
    <3> QED
      BY ZenonT(40), <3>1, <3>2 DEF Memory
  <2> QED
    BY <2>1, <2>2
<1>3. /\ pc' \in [Workers -> Phases]
      /\ pc'[w] = IF mem[w].outcome = "lost" THEN "release" ELSE "answer"
  BY DEF Join, Goto, Phases
<1>4. Follows(w)'
  BY <1>2, <1>3 DEF Join, Follows, Everyone
<1> QED
  BY <1>1, <1>2, <1>3, <1>4 DEF Join

\* The local variables after one answer was dealt with.
Settled(m, left) == [m EXCEPT !.todo = left, !.target = NoRequest]

LEMMA SettledMemory ==
    ASSUME NEW m \in Memory, NEW left \in SUBSET Requests
    PROVE  /\ Settled(m, left) \in Memory /\ Settled(m, left).todo = left
           /\ Settled(m, left).merged = m.merged /\ Settled(m, left).outcome = m.outcome
           /\ Settled(m, left).seen = m.seen
<1> SUFFICES ASSUME NEW new, new = Settled(m, left)
             PROVE  /\ new \in Memory /\ new.todo = left /\ new.merged = m.merged
                    /\ new.outcome = m.outcome /\ new.seen = m.seen
  OBVIOUS
<1>1. /\ new.merged = m.merged /\ new.written = m.written /\ new.progress = m.progress
      /\ new.todo = left /\ new.target = NoRequest
      /\ new.outcome = m.outcome /\ new.seen = m.seen
  BY DEF Memory, Settled
<1>2. new = [merged |-> new.merged, todo |-> new.todo, target |-> new.target,
             seen |-> new.seen, outcome |-> new.outcome, progress |-> new.progress,
             written |-> new.written]
  BY DEF Memory, Settled
<1> QED
  BY <1>1, <1>2 DEF Memory

LEMMA AnsweredTypes ==
    ASSUME Types, NEW w \in Workers, NEW r, UNCHANGED job,
           pc[w] \in {"answer", "answer_write", "confirm", "unlink"},
           Answered(w, r) \/ Unanswered(w, r)
    PROVE  mem' \in [Workers -> Memory] /\ pc' \in [Workers -> Phases] /\ Follows(w)'
<1>1. mem \in [Workers -> Memory] /\ mem[w] \in Memory /\ Follows(w)
  BY TypesOf
<1>2. CASE UNCHANGED mem /\ Goto(w, "release")
  BY <1>1, <1>2, TypesOf DEF Goto, Follows, Everyone, Phases
<1>3. CASE Answered(w, r)
  <2> DEFINE left == mem[w].todo \ {r}
             new == Settled(mem[w], left)
  <2>1. left \in SUBSET Requests
    BY <1>1 DEF Memory
  <2>2. mem' = [mem EXCEPT ![w] = new]
    BY <1>3 DEF Answered, Settled
  <2>3. /\ new \in Memory /\ new.todo = left /\ new.merged = mem[w].merged
        /\ new.outcome = mem[w].outcome
    BY <1>1, <2>1, SettledMemory
  <2> HIDE DEF new
  <2>4. mem' \in [Workers -> Memory] /\ mem'[w] = new
    BY <1>1, <2>2, <2>3
  <2>5. /\ pc' \in [Workers -> Phases]
        /\ pc'[w] = IF left = {} THEN "release" ELSE "answer"
    BY <1>3, TypesOf DEF Answered, Goto, Phases
  <2>6. Follows(w)'
    BY <1>1, <2>3, <2>4, <2>5 DEF Follows, Everyone
  <2> QED
    BY <2>4, <2>5, <2>6
<1> QED
  BY <1>2, <1>3 DEF Unanswered

LEMMA AnswerTypes ==
    ASSUME Types, NEW w \in Workers, AnswerCheck(w) \/ AnswerWrite(w)
    PROVE  OwnTypes(w)
<1> USE TypesOf DEF OwnTypes, saves, files, owner, data, At
<1>1. CASE AnswerCheck(w)
  <2>1. PICK r \in Upcoming(w, mem[w].todo) :
          IF Lost(w) THEN Unanswered(w, r)
          ELSE Goto(w, "answer_write") /\ mem' = [mem EXCEPT ![w].target = r]
    BY <1>1 DEF AnswerCheck
  <2>2. CASE Unanswered(w, r)
    BY <1>1, <2>2, AnsweredTypes DEF AnswerCheck
  <2>3. CASE Goto(w, "answer_write") /\ mem' = [mem EXCEPT ![w].target = r]
    <3>1. r \in Everyone(w) /\ r \in Requests
      BY <1>1, <2>1 DEF AnswerCheck, Upcoming, Follows, Everyone, Memory
    <3>2. /\ mem' \in [Workers -> Memory] /\ mem'[w].target = r
          /\ mem'[w].merged = mem[w].merged /\ mem'[w].todo = mem[w].todo
          /\ mem'[w].outcome = mem[w].outcome
      BY ZenonT(40), <2>3, <3>1 DEF Memory
    <3>3. pc' \in [Workers -> Phases] /\ pc'[w] = "answer_write"
      BY <2>3 DEF Goto, Phases
    <3>4. Follows(w)'
      BY <1>1, <3>1, <3>2, <3>3 DEF AnswerCheck, Follows, Everyone
    <3> QED
      BY <1>1, <3>2, <3>3, <3>4 DEF AnswerCheck
  <2> QED
    BY <2>1, <2>2, <2>3
<1>2. CASE AnswerWrite(w)
  <2>1. pc' \in [Workers -> Phases] /\ pc'[w] = "confirm"
    BY <1>2 DEF AnswerWrite, Goto, Phases
  <2>2. status' \in [Requests -> {"none", "queued", "processing"} \cup Terminal]
    BY <1>2 DEF AnswerWrite, Follows, Terminal
  <2>3. Follows(w)'
    BY <1>2, <2>1 DEF AnswerWrite, Follows, Everyone
  <2> QED
    BY <1>2, <2>1, <2>2, <2>3 DEF AnswerWrite
<1> QED
  BY <1>1, <1>2

LEMMA SettleTypes ==
    ASSUME Types, NEW w \in Workers, Confirm(w) \/ Unlink(w) \/ WriteFails(w)
    PROVE  OwnTypes(w)
<1> USE TypesOf DEF OwnTypes, saves, files, owner, data, At
<1>1. CASE Confirm(w)
  <2>1. CASE Goto(w, "unlink") /\ UNCHANGED mem
    BY <1>1, <2>1 DEF Confirm, Goto, Phases, Follows, Everyone
  <2>2. CASE Answered(w, mem[w].target)
    <3>1. mem' \in [Workers -> Memory] /\ pc' \in [Workers -> Phases] /\ Follows(w)'
      BY <1>1, <2>2, AnsweredTypes DEF Confirm
    <3> QED
      BY <1>1, <3>1 DEF Confirm
  <2> QED
    BY <1>1, <2>1, <2>2 DEF Confirm
<1>2. CASE Unlink(w)
  <2>1. mem' \in [Workers -> Memory] /\ pc' \in [Workers -> Phases] /\ Follows(w)'
    BY <1>2, AnsweredTypes DEF Unlink
  <2>2. queued' \in [Requests -> BOOLEAN]
    BY <1>2 DEF Unlink
  <2>3. faults' \in [FaultKinds -> Nat]
    BY <1>2 DEF Unlink, FaultKinds
  <2> QED
    BY <1>2, <2>1, <2>2, <2>3 DEF Unlink
<1>3. CASE WriteFails(w)
  <2>1. faults' \in [FaultKinds -> Nat]
    BY <1>3 DEF WriteFails, FaultKinds
  <2>2. mem' \in [Workers -> Memory] /\ pc' \in [Workers -> Phases] /\ Follows(w)'
    <3>1. CASE pc[w] \in {"announce_write", "tick_write"} /\ Raise(w, "error")
      BY <1>3, <3>1, RaiseTypes DEF WriteFails
    <3>2. CASE At(w, "answer_write") /\ Unanswered(w, mem[w].target)
      BY <1>3, <3>2, AnsweredTypes DEF WriteFails
    <3> QED
      BY <1>3, <3>1, <3>2 DEF WriteFails
  <2> QED
    BY <1>3, <2>1, <2>2 DEF WriteFails
<1> QED
  BY <1>1, <1>2, <1>3

LEMMA EndTypes ==
    ASSUME Types, NEW w \in Workers, Release(w) \/ Crash(w) \/ Displace(w)
    PROVE  OwnTypes(w)
<1> USE TypesOf, FreshValues DEF OwnTypes, saves, files, owner, data, At
<1>1. CASE Release(w)
  BY <1>1 DEF Release, Goto, Phases, Follows, Everyone, FreshMemory
<1>2. CASE Crash(w)
  <2>1. faults' \in [FaultKinds -> Nat]
    BY <1>2 DEF Crash, FaultKinds
  <2>2. Follows(w)'
    BY <1>2 DEF Crash, Goto, Phases, Follows, Everyone, FreshMemory
  <2> QED
    BY <1>2, <2>1, <2>2 DEF Crash, Goto, Phases
<1>3. CASE Displace(w)
  <2>1. faults' \in [FaultKinds -> Nat]
    BY <1>3 DEF Displace, FaultKinds
  <2>2. Follows(w)'
    BY <1>3 DEF Displace, Follows, Everyone
  <2> QED
    BY <1>3, <2>1, <2>2 DEF Displace
<1> QED
  BY <1>1, <1>2, <1>3

LEMMA BeatTypes ==
    ASSUME Types, NEW w \in Workers, BeatWake(w) \/ Beating(w)
    PROVE  OwnTypes(w)
<1> USE TypesOf, FreshValues DEF OwnTypes, saves, files, owner, data, At
<1>1. Follows(w)' /\ UNCHANGED <<version, saves, derived, queued, pc, job, claim, mem>>
  BY DEF BeatWake, Beating, BeatCheck, BeatWrite, BeatFails, BeatStops, Follows, Everyone
<1>2. CASE BeatWake(w)
  <2> DEFINE new == [phase |-> "check", todo |-> Everyone(w), progress |-> mem[w].progress]
  <2>1. Everyone(w) \in SUBSET Requests /\ mem[w].progress \in 0..2
    BY <1>2 DEF BeatWake, Follows, Everyone, Memory
  <2>2. new \in Beat
    BY <2>1 DEF Beat
  <2>3. beat' = [beat EXCEPT ![w] = new]
    BY <1>2 DEF BeatWake
  <2>4. beat' \in [Workers -> Beat]
    BY <2>2, <2>3
  <2> QED
    BY <1>1, <1>2, <2>4 DEF BeatWake
<1>3. beat[w] \in Beat /\ [beat[w] EXCEPT !.phase = "write"] \in Beat
  BY DEF Beat
<1>4. CASE BeatCheck(w)
  <2>1. beat' \in [Workers -> Beat]
    BY <1>3, <1>4 DEF BeatCheck
  <2> QED
    BY <1>1, <1>4, <2>1 DEF BeatCheck
<1>5. CASE BeatWrite(w)
  <2>1. PICK r \in Upcoming(w, beat[w].todo) :
          /\ status' = [status EXCEPT ![r] = "processing"]
          /\ beat' = [beat EXCEPT ![w] =
                        IF beat[w].todo \ {r} = {} THEN Waiting
                        ELSE [@ EXCEPT !.phase = "check", !.todo = beat[w].todo \ {r}]]
    BY <1>5 DEF BeatWrite
  <2> DEFINE left == beat[w].todo \ {r}
             new == [beat[w] EXCEPT !.phase = "check", !.todo = left]
  <2>2. new \in Beat
    BY <1>3 DEF Beat
  <2>3. beat' = [beat EXCEPT ![w] = IF left = {} THEN Waiting ELSE new]
    BY <2>1
  <2>4. beat' \in [Workers -> Beat]
    BY <2>2, <2>3
  <2>5. status' \in [Requests -> {"none", "queued", "processing"} \cup Terminal]
    BY <2>1
  <2> QED
    BY <1>1, <1>5, <2>4, <2>5 DEF BeatWrite
<1>6. CASE BeatFails(w)
  <2>1. faults' \in [FaultKinds -> Nat] /\ beat' \in [Workers -> Beat]
    BY <1>6 DEF BeatFails, FaultKinds
  <2> QED
    BY <1>1, <1>6, <2>1 DEF BeatFails
<1>7. CASE BeatStops(w)
  <2>1. beat' \in [Workers -> Beat]
    BY <1>7 DEF BeatStops
  <2> QED
    BY <1>1, <1>7, <2>1 DEF BeatStops
<1> QED
  BY <1>2, <1>4, <1>5, <1>6, <1>7 DEF Beating

LEMMA StepTypes ==
    ASSUME Types, NEW w \in Workers, Steps(w)
    PROVE  Types'
<1>1. CASE Job(w)
  BY <1>1, ClaimingTypes, AnnounceTypes, TickTypes, WalkTypes, JoinTypes, AnswerTypes,
     SettleTypes, EndTypes, StepKeepsTypes DEF Job, Walking, Replying
<1>2. CASE BeatWake(w) \/ Beating(w) \/ Displace(w) \/ Crash(w)
  BY <1>2, EndTypes, BeatTypes, StepKeepsTypes
<1> QED
  BY <1>1, <1>2 DEF Steps

LEMMA NextTypes == Types /\ [Next]_vars => Types'
<1> SUFFICES ASSUME Types, [Next]_vars PROVE Types'
  OBVIOUS
<1>1. CASE \E r \in Requests : Client(r)
  BY <1>1, ClientTypes
<1>2. CASE \E w \in Workers : Steps(w)
  BY <1>2, StepTypes
<1>3. CASE UNCHANGED vars
  BY <1>3 DEF vars, data, saves, files, owner, Types, TypeOK, Follows, Everyone
<1> QED
  BY <1>1, <1>2, <1>3 DEF Next, Steps, Terminated

\* Every variable keeps its type: however the two threads of the workers interleave, no
\* step of the claim, the walk, the answers or the status heartbeat writes a status or
\* keeps a local value that the code has no name for.
THEOREM PropagationTypes == Spec => []TypeOK
<1>1. Spec => []Types
  BY InitTypes, NextTypes, PTL DEF Spec
<1>2. Types => TypeOK
  BY DEF Types
<1> QED
  BY <1>1, <1>2, PTL

-----------------------------------------------------------------------------
(* What the steps of a worker do to the requests                           *)

\* Whom a step of a worker can answer, and what its walk knows.
Moves(w) ==
    /\ UNCHANGED <<version, client, change>>
    /\ \A r \in Requests : queued'[r] => queued[r]
    /\ \A r \in Requests : status'[r] # status[r] =>
           \/ status'[r] = "processing" /\ r \in Everyone(w) \cup beat[w].todo
           \/ /\ status'[r] = mem[w].outcome /\ r \in Everyone(w)
              /\ pc[w] = "answer_write"
    /\ beat'[w].todo \subseteq beat[w].todo \cup Everyone(w)
    /\ \A r \in Requests : r \in Everyone(w)' => r \in Everyone(w) \/ queued[r]
    /\ pc'[w] = "write" =>
           WalkRead(w) \/ (pc[w] = "write" /\ mem'[w] = mem[w] /\ job'[w] = job[w])
    /\ mem'[w].outcome = "success" =>
           WalkWrite(w) \/ (mem[w].outcome = "success" /\ Everyone(w)' = Everyone(w))
    /\ UNCHANGED derived \/ WalkWrite(w)

LEMMA ClaimingMoves ==
    ASSUME Types, NEW w \in Workers, Claiming(w)
    PROVE  Moves(w)
<1> USE TypesOf DEF Moves, saves, files, owner, data, Goto, At
<1>1. CASE \E r \in Requests : Pick(w, r)
  <2>1. PICK r \in Requests : Pick(w, r)
    BY <1>1
  <2>2. job'[w] = r /\ queued[r] /\ pc'[w] \in {"discard", "acquire"}
    BY <2>1 DEF Pick
  <2>3. mem[w].outcome = "none"
    BY <2>1 DEF Pick, Follows
  <2> QED
    BY <2>1, <2>2, <2>3 DEF Pick, Everyone
<1>2. CASE Discard(w)
  <2>1. job'[w] = NoRequest /\ pc'[w] = "idle"
    BY <1>2 DEF Discard
  <2>2. \A r \in Requests : queued'[r] => queued[r]
    BY <1>2 DEF Discard
  <2>3. mem[w].outcome = "none"
    BY <1>2 DEF Discard, Follows
  <2> QED
    BY <1>2, <2>1, <2>2, <2>3, NamesAssumption DEF Discard, Everyone
<1>3. CASE Acquire(w)
  BY <1>3 DEF Acquire, Everyone
<1>4. CASE AcquireMiss(w)
  <2>1. job'[w] = NoRequest /\ pc'[w] = "idle" /\ mem[w].outcome = "none"
    BY <1>4 DEF AcquireMiss, Follows
  <2> QED
    BY <1>4, <2>1, NamesAssumption DEF AcquireMiss, Everyone
<1>5. CASE Drain(w)
  <2> DEFINE siblings == {q \in Requests \ {job[w]} : queued[q] /\ status[q] \notin Terminal}
             next == [mem[w] EXCEPT !.merged = siblings, !.todo = siblings \cup {job[w]}]
  <2>1. mem' = [mem EXCEPT ![w] = next]
    BY <1>5 DEF Drain
  <2>2. mem'[w].merged = siblings /\ mem'[w].outcome = "none"
    BY <1>5, <2>1 DEF Drain, Follows, Memory
  <2> QED
    BY <1>5, <2>2 DEF Drain, Everyone
<1> QED
  BY <1>1, <1>2, <1>3, <1>4, <1>5 DEF Claiming

LEMMA RaiseMoves ==
    ASSUME Types, NEW w \in Workers, NEW o \in {"lost", "error"}, Raise(w, o), UNCHANGED job
    PROVE  /\ mem'[w].outcome = o /\ Everyone(w)' = Everyone(w) /\ pc'[w] = "join"
  BY TypesOf DEF Raise, Goto, Everyone, Memory

LEMMA WalkingMoves ==
    ASSUME Types, NEW w \in Workers, Walking(w)
    PROVE  Moves(w)
<1> USE TypesOf DEF Moves, saves, files, owner, data, Goto, At
<1>1. CASE AnnounceCheck(w)
  <2>1. CASE Lost(w)
    BY <1>1, <2>1, RaiseMoves DEF AnnounceCheck
  <2>2. CASE ~Lost(w)
    <3>1. mem'[w].merged = mem[w].merged /\ mem'[w].outcome = mem[w].outcome
      BY SMTT(20), <1>1, <2>2 DEF AnnounceCheck, Memory
    <3> QED
      BY <1>1, <2>2, <3>1 DEF AnnounceCheck, Everyone
  <2> QED
    BY <2>1, <2>2
<1>2. CASE AnnounceWrite(w)
  <2>1. mem'[w].merged = mem[w].merged /\ mem'[w].outcome = mem[w].outcome
    <3> DEFINE left == mem[w].todo \ {mem[w].target}
               next == [mem[w] EXCEPT !.todo = {}, !.progress = 1, !.target = NoRequest]
    <3>1. CASE left # {}
      BY SMTT(20), <1>2, <3>1 DEF AnnounceWrite, Memory
    <3>2. CASE left = {}
      <4>1. mem' = [mem EXCEPT ![w] = next]
        BY <1>2, <3>2 DEF AnnounceWrite
      <4>2. next.merged = mem[w].merged /\ next.outcome = mem[w].outcome
        BY Announced
      <4> QED
        BY <4>1, <4>2
    <3> QED
      BY <3>1, <3>2
  <2>2. beat'[w].todo \subseteq beat[w].todo
    BY <1>2 DEF AnnounceWrite, Waiting, NoBeat
  <2>3. pc'[w] \in {"announce", "tick"}
    BY <1>2 DEF AnnounceWrite
  <2>4. mem[w].target \in Everyone(w)
    BY <1>2 DEF AnnounceWrite, Follows
  <2>5. Everyone(w)' = Everyone(w)
    BY <1>2, <2>1 DEF AnnounceWrite, Everyone
  <2>6. \A r \in Requests : status'[r] # status[r] =>
          status'[r] = "processing" /\ r = mem[w].target
    BY <1>2 DEF AnnounceWrite
  <2> QED
    BY <1>2, <2>1, <2>2, <2>3, <2>4, <2>5, <2>6 DEF AnnounceWrite
<1>3. CASE TickCheck(w)
  <2>1. CASE Lost(w)
    BY <1>3, <2>1, RaiseMoves DEF TickCheck
  <2>2. CASE ~Lost(w)
    BY <1>3, <2>2 DEF TickCheck, Everyone
  <2> QED
    BY <2>1, <2>2
<1>4. CASE TickWrite(w)
  <2>1. mem'[w].merged = mem[w].merged /\ mem'[w].outcome = mem[w].outcome
    BY <1>4 DEF TickWrite, Memory
  <2>2. pc'[w] \in {"read", "join"}
    BY <1>4 DEF TickWrite
  <2>3. \A r \in Requests : status'[r] # status[r] => status'[r] = "processing" /\ r = job[w]
    BY <1>4 DEF TickWrite
  <2> QED
    BY <1>4, <2>1, <2>2, <2>3 DEF TickWrite, Everyone
<1>5. CASE WalkRead(w)
  <2>1. mem'[w].merged = mem[w].merged /\ mem'[w].outcome = mem[w].outcome
    BY <1>5 DEF WalkRead, Memory
  <2>2. Everyone(w)' = Everyone(w)
    BY <1>5, <2>1 DEF WalkRead, Everyone
  <2>3. UNCHANGED <<version, client, change, derived, status, beat>>
    BY <1>5 DEF WalkRead
  <2>4. \A r \in Requests : queued'[r] => queued[r]
    BY <1>5 DEF WalkRead
  <2>5. \A r \in Requests : r \in Everyone(w)' => r \in Everyone(w)
    BY <2>2
  <2> QED
    BY <1>5, <2>1, <2>2, <2>3, <2>4, <2>5
<1>6. CASE WalkWrite(w)
  <2>1. mem'[w] = Finished(mem[w], "success")
    BY <1>6 DEF WalkWrite, Finished
  <2>2. mem'[w].merged = mem[w].merged
    BY <2>1, WalkedMemory
  <2> QED
    BY <1>6, <2>2 DEF WalkWrite, Everyone
<1>7. CASE WalkFails(w)
  <2>1. mem'[w] = Finished(mem[w], "error")
    BY <1>7 DEF WalkFails, Finished
  <2>2. mem'[w].merged = mem[w].merged /\ mem'[w].outcome = "error"
    BY <2>1, WalkedMemory
  <2> QED
    BY <1>7, <2>2 DEF WalkFails, Everyone
<1>8. CASE Join(w)
  <2>1. mem'[w].merged = mem[w].merged /\ mem'[w].outcome = mem[w].outcome
    BY <1>8 DEF Join, Memory
  <2>2. beat'[w].todo \subseteq beat[w].todo
    BY <1>8 DEF Join, NoBeat
  <2>3. pc'[w] \in {"release", "answer"}
    BY <1>8 DEF Join
  <2> QED
    BY <1>8, <2>1, <2>2, <2>3 DEF Join, Everyone
<1> QED
  BY <1>1, <1>2, <1>3, <1>4, <1>5, <1>6, <1>7, <1>8 DEF Walking

LEMMA AnsweredMoves ==
    ASSUME Types, NEW w \in Workers, NEW r, Answered(w, r) \/ Unanswered(w, r), UNCHANGED job
    PROVE  /\ mem'[w].outcome = mem[w].outcome /\ Everyone(w)' = Everyone(w)
           /\ pc'[w] \in {"answer", "release"}
<1> USE TypesOf DEF Goto
<1>1. CASE Answered(w, r)
  <2>1. mem'[w] = Settled(mem[w], mem[w].todo \ {r})
    BY <1>1 DEF Answered, Settled
  <2>2. mem[w].todo \ {r} \in SUBSET Requests
    BY DEF Memory
  <2>3. mem'[w].merged = mem[w].merged /\ mem'[w].outcome = mem[w].outcome
    BY <2>1, <2>2, SettledMemory
  <2> QED
    BY <1>1, <2>3 DEF Answered, Everyone
<1>2. CASE Goto(w, "release") /\ UNCHANGED mem
  BY <1>2 DEF Everyone
<1> QED
  BY <1>1, <1>2 DEF Unanswered

LEMMA ReplyingMoves ==
    ASSUME Types, NEW w \in Workers, Replying(w)
    PROVE  Moves(w)
<1> USE TypesOf DEF Moves, saves, files, owner, data, At
<1>1. CASE AnswerCheck(w)
  <2>1. PICK r \in Upcoming(w, mem[w].todo) :
          IF Lost(w) THEN Unanswered(w, r)
          ELSE Goto(w, "answer_write") /\ mem' = [mem EXCEPT ![w].target = r]
    BY <1>1 DEF AnswerCheck
  <2>2. CASE Unanswered(w, r)
    BY <1>1, <2>2, AnsweredMoves DEF AnswerCheck
  <2>3. CASE Goto(w, "answer_write") /\ mem' = [mem EXCEPT ![w].target = r]
    <3>1. /\ mem'[w].merged = mem[w].merged /\ mem'[w].outcome = mem[w].outcome
          /\ pc'[w] = "answer_write"
      BY <2>3 DEF Memory, Goto
    <3> QED
      BY <1>1, <3>1 DEF AnswerCheck, Everyone
  <2> QED
    BY <2>1, <2>2, <2>3
<1>2. CASE AnswerWrite(w)
  <2>1. mem[w].target \in Everyone(w)
    BY <1>2 DEF AnswerWrite, Follows
  <2>2. \A r \in Requests : status'[r] # status[r] =>
          status'[r] = mem[w].outcome /\ r = mem[w].target
    BY <1>2 DEF AnswerWrite
  <2> QED
    BY <1>2, <2>1, <2>2 DEF AnswerWrite, Everyone, Goto
<1>3. CASE Confirm(w)
  <2>1. CASE Goto(w, "unlink") /\ UNCHANGED mem
    BY <1>3, <2>1 DEF Confirm, Goto, Everyone
  <2>2. CASE Answered(w, mem[w].target)
    BY <1>3, <2>2, AnsweredMoves DEF Confirm
  <2> QED
    BY <1>3, <2>1, <2>2 DEF Confirm
<1>4. CASE Unlink(w)
  <2>1. \A r \in Requests : queued'[r] => queued[r]
    BY <1>4 DEF Unlink
  <2> QED
    BY <1>4, <2>1, AnsweredMoves DEF Unlink
<1>5. CASE Release(w)
  BY <1>5, NamesAssumption DEF Release, Everyone, FreshMemory, Goto
<1>6. CASE WriteFails(w)
  <2>1. CASE pc[w] \in {"announce_write", "tick_write"} /\ Raise(w, "error")
    BY <1>6, <2>1, RaiseMoves DEF WriteFails
  <2>2. CASE At(w, "answer_write") /\ Unanswered(w, mem[w].target)
    BY <1>6, <2>2, AnsweredMoves DEF WriteFails
  <2> QED
    BY <1>6, <2>1, <2>2 DEF WriteFails
<1> QED
  BY <1>1, <1>2, <1>3, <1>4, <1>5, <1>6 DEF Replying

LEMMA OtherMoves ==
    ASSUME Types, NEW w \in Workers, BeatWake(w) \/ Beating(w) \/ Displace(w) \/ Crash(w)
    PROVE  Moves(w)
<1> USE TypesOf DEF Moves, saves, files, owner, data
<1>1. CASE BeatWake(w)
  BY <1>1 DEF BeatWake, Everyone
<1>2. CASE BeatWrite(w)
  <2>1. PICK r \in Upcoming(w, beat[w].todo) :
          /\ status' = [status EXCEPT ![r] = "processing"]
          /\ beat' = [beat EXCEPT ![w] =
                        IF beat[w].todo \ {r} = {} THEN Waiting
                        ELSE [@ EXCEPT !.phase = "check", !.todo = beat[w].todo \ {r}]]
    BY <1>2 DEF BeatWrite
  <2>2. r \in beat[w].todo
    BY <2>1 DEF Upcoming
  <2>3. beat'[w].todo \subseteq beat[w].todo
    BY <2>1 DEF Beat, Waiting, NoBeat
  <2> QED
    BY <1>2, <2>1, <2>2, <2>3 DEF BeatWrite, Everyone
<1>3. CASE BeatCheck(w) \/ BeatFails(w) \/ BeatStops(w)
  <2>1. beat'[w].todo \subseteq beat[w].todo
    BY SMTT(20), <1>3 DEF BeatCheck, BeatFails, BeatStops, Beat, NoBeat
  <2> QED
    BY <1>3, <2>1 DEF BeatCheck, BeatFails, BeatStops, Everyone
<1>4. CASE Displace(w)
  BY <1>4 DEF Displace, Everyone
<1>5. CASE Crash(w)
  BY <1>5, NamesAssumption DEF Crash, Everyone, FreshMemory, NoBeat, Goto
<1> QED
  BY <1>1, <1>2, <1>3, <1>4, <1>5 DEF Beating

LEMMA StepMoves ==
    ASSUME Types, NEW w \in Workers, Steps(w)
    PROVE  Moves(w)
  BY ClaimingMoves, WalkingMoves, ReplyingMoves, OtherMoves DEF Steps, Job

-----------------------------------------------------------------------------
(* The lease, the versions and the answers                                 *)

\* The phases of a worker that has acquired the lease.
Working == Phases \ {"idle", "discard", "acquire"}

\* Only requests that were sent are queued, answered, walked or announced.
Known ==
    \A r \in Requests :
        /\ queued[r] \/ status[r] # "none" => client[r] = "sent"
        /\ \A w \in Workers : r \in Everyone(w) \cup beat[w].todo => client[r] = "sent"

\* One worker at a time has the lease; it has it while it works, unless displaced.
Held ==
    /\ \A v, w \in Workers : claim[v] = "valid" /\ claim[w] = "valid" => v = w
    /\ \A w \in Workers : pc[w] \in Working => claim[w] # "none"
    /\ LeasesHeld => \A w \in Workers : claim[w] # "lost"

\* Nobody is ahead of the saved versions.
Behind ==
    /\ \A x \in Roots : derived[x] <= version[x]
    /\ \A r \in Requests : \A x \in Roots : change[r][x] <= version[x]
    /\ \A w \in Workers : pc[w] = "write" => \A x \in Roots : mem[w].seen[x] <= version[x]

\* What a walk has read is not older than what the dependents reflect, nor than the
\* changes of the requests it is for.
Reads(w) ==
    /\ \A x \in Roots : x \in Walked(w) => derived[x] <= mem[w].seen[x]
    /\ \A r \in Requests : r \in Everyone(w) =>
           \A x \in RootsOf[r] : change[r][x] <= mem[w].seen[x]

\* The dependents reflect the changes of the requests of a walk that succeeded.
Covers(w) ==
    \A r \in Requests : r \in Everyone(w) => \A x \in RootsOf[r] : change[r][x] <= derived[x]

Truth ==
    LeasesHeld =>
        /\ \A w \in Workers : pc[w] = "write" => Reads(w)
        /\ \A w \in Workers : mem[w].outcome = "success" => Covers(w)
        /\ SuccessCoversChange

Inv == Types /\ Known /\ Held /\ Behind /\ Truth

LEMMA InitInv == Init => Inv
<1> SUFFICES ASSUME Init PROVE Inv
  OBVIOUS
<1>1. Known
  BY NamesAssumption DEF Init, Known, Everyone, FreshMemory, NoBeat
<1>2. Held
  BY DEF Init, Held, Working
<1>3. Behind
  BY DEF Init, Behind
<1>4. Truth
  BY DEF Init, Truth, SuccessCoversChange, FreshMemory
<1> QED
  BY <1>1, <1>2, <1>3, <1>4, InitTypes DEF Inv

LEMMA StepKnown ==
    ASSUME Types, Known, NEW w \in Workers, Steps(w)
    PROVE  Known'
<1>1. Moves(w)
  BY StepMoves
<1>2. UNCHANGED client
  BY <1>1 DEF Moves
<1>3. ASSUME NEW r \in Requests, queued'[r] \/ status'[r] # "none"
      PROVE  client[r] = "sent"
  BY <1>1, <1>3 DEF Known, Moves
<1>4. ASSUME NEW r \in Requests, NEW v \in Workers, r \in Everyone(v)' \cup beat'[v].todo
      PROVE  client[r] = "sent"
  <2>1. CASE v = w
    BY <1>1, <1>4, <2>1 DEF Known, Moves
  <2>2. CASE v # w
    BY <1>4, <2>2, OthersKeep DEF Known, Everyone
  <2> QED
    BY <2>1, <2>2
<1> QED
  BY <1>2, <1>3, <1>4 DEF Known

LEMMA StepHeld ==
    ASSUME Types, Held, NEW w \in Workers, Steps(w)
    PROVE  Held' /\ (LeasesHeld' => LeasesHeld)
<1> USE TypesOf DEF Goto, At, owner, Working, Phases
<1>1. /\ claim'[w] = "valid" => claim[w] = "valid" \/ \A v \in Workers : claim[v] # "valid"
      /\ pc'[w] \in Working => claim'[w] # "none"
      /\ claim'[w] = "lost" => claim[w] = "lost" \/ Displace(w)
  <2>1. CASE Claiming(w)
    BY <2>1 DEF Claiming, Pick, Discard, Acquire, AcquireMiss, Drain, Held
  <2>2. CASE Walking(w)
    BY <2>2 DEF Walking, AnnounceCheck, AnnounceWrite, TickCheck, TickWrite, WalkRead,
       WalkWrite, WalkFails, Join, Held
  <2>3. CASE Replying(w)
    BY <2>3 DEF Replying, AnswerCheck, AnswerWrite, Confirm, Unlink, Release, WriteFails, Held
  <2>4. CASE BeatWake(w) \/ Beating(w)
    BY <2>4 DEF BeatWake, Beating, BeatCheck, BeatWrite, BeatFails, BeatStops, Held
  <2>5. CASE Displace(w) \/ Crash(w)
    BY <2>5 DEF Displace, Crash
  <2> QED
    BY <2>1, <2>2, <2>3, <2>4, <2>5 DEF Steps, Job
<1>2. /\ faults["displace"] \in Nat
      /\ UNCHANGED faults \/ \E kind \in FaultKinds : Spend(kind)
  BY DEF Steps, Job, Claiming, Walking, Replying, Beating, Pick, Discard, Acquire, AcquireMiss,
     Drain, AnnounceCheck, AnnounceWrite, TickCheck, TickWrite, WalkRead, WalkWrite, WalkFails,
     Join, AnswerCheck, AnswerWrite, Confirm, Unlink, Release, WriteFails, BeatWake, BeatCheck,
     BeatWrite, BeatFails, BeatStops, Displace, Crash, FaultKinds
<1>3. LeasesHeld' => LeasesHeld /\ ~Displace(w)
  BY <1>2, SpendTypes DEF LeasesHeld, Displace, Types, FaultKinds
<1>4. ASSUME NEW v \in Workers, v # w
      PROVE  claim'[v] = claim[v] /\ pc'[v] = pc[v]
  BY <1>4, OthersKeep
<1>5. \A u, v \in Workers : claim'[u] = "valid" /\ claim'[v] = "valid" => u = v
  BY <1>1, <1>4 DEF Held
<1>6. \A v \in Workers : pc'[v] \in Working => claim'[v] # "none"
  BY <1>1, <1>4 DEF Held
<1>7. LeasesHeld' => \A v \in Workers : claim'[v] # "lost"
  BY <1>1, <1>3, <1>4 DEF Held
<1> QED
  BY <1>3, <1>5, <1>6, <1>7 DEF Held

\* Two workers that work are the same one, until a lease is lost.
LEMMA Alone ==
    ASSUME Types, Held, LeasesHeld, NEW v \in Workers, NEW w \in Workers,
           pc[v] \in Working, pc[w] \in Working
    PROVE  v = w
  BY TypesOf DEF Held

LEMMA Numbers ==
    ASSUME Types, NEW x \in Roots
    PROVE  /\ derived[x] \in Nat /\ version[x] \in Nat
           /\ \A r \in Requests : change[r][x] \in Nat /\ RootsOf[r] \subseteq Roots
           /\ \A w \in Workers : mem[w].seen[x] \in Nat
  BY RootsAssumption DEF Types, TypeOK, Memory

LEMMA ReadFacts ==
    ASSUME Types, NEW w \in Workers, WalkRead(w)
    PROVE  /\ mem'[w].seen = [x \in Roots |-> IF x \in Walked(w) THEN version[x] ELSE 0]
           /\ Everyone(w)' = Everyone(w) /\ UNCHANGED derived
<1>1. mem'[w].merged = mem[w].merged
  BY TypesOf DEF WalkRead, Memory
<1>2. mem'[w].seen = [x \in Roots |-> IF x \in Walked(w) THEN version[x] ELSE 0]
  BY TypesOf DEF WalkRead, Memory
<1>3. UNCHANGED <<job, derived>>
  BY DEF WalkRead, owner, data
<1> QED
  BY <1>1, <1>2, <1>3 DEF Everyone

LEMMA WriteFacts ==
    ASSUME Types, NEW w \in Workers, WalkWrite(w)
    PROVE  /\ pc[w] = "write" /\ pc'[w] = "tick" /\ Everyone(w)' = Everyone(w)
           /\ \A x \in Roots :
                derived'[x] = IF x \in Walked(w) THEN mem[w].seen[x] ELSE derived[x]
<1>1. mem'[w] = Finished(mem[w], "success")
  BY TypesOf DEF WalkWrite, Finished
<1>2. mem'[w].merged = mem[w].merged
  BY <1>1, TypesOf, WalkedMemory
<1>3. Everyone(w)' = Everyone(w)
  BY <1>2 DEF WalkWrite, owner, Everyone
<1> QED
  BY <1>3, TypesOf DEF WalkWrite, At, Goto

LEMMA StepBehind ==
    ASSUME Types, Behind, NEW w \in Workers, Steps(w)
    PROVE  Behind'
<1>1. Moves(w) /\ UNCHANGED <<version, change>>
  BY StepMoves DEF Moves
<1>2. ASSUME NEW x \in Roots PROVE derived'[x] <= version[x]
  <2>1. CASE UNCHANGED derived
    BY <2>1 DEF Behind
  <2>2. CASE WalkWrite(w)
    BY <2>2, WriteFacts DEF Behind
  <2> QED
    BY <1>1, <2>1, <2>2 DEF Moves
<1>3. ASSUME NEW v \in Workers, pc'[v] = "write", NEW x \in Roots
      PROVE  mem'[v].seen[x] <= version[x]
  <2>1. CASE v # w
    BY <1>3, <2>1, OthersKeep DEF Behind
  <2>2. CASE v = w /\ WalkRead(w)
    <3>1. mem'[v].seen[x] = IF x \in Walked(w) THEN version[x] ELSE 0
      BY <2>2, ReadFacts
    <3>2. version[x] \in Nat
      BY Numbers
    <3> QED
      BY <3>1, <3>2
  <2>3. CASE v = w /\ pc[w] = "write" /\ mem'[w] = mem[w]
    BY <2>3 DEF Behind
  <2> QED
    BY <1>1, <1>3, <2>1, <2>2, <2>3 DEF Moves
<1> QED
  BY <1>1, <1>2, <1>3 DEF Behind

\* While no lease is lost, no step of a worker puts dependents back.
LEMMA StepForward ==
    ASSUME Types, Truth, LeasesHeld, NEW w \in Workers, Steps(w), NEW x \in Roots
    PROVE  derived[x] <= derived'[x]
<1>1. CASE UNCHANGED derived
  BY <1>1, Numbers
<1>2. CASE WalkWrite(w)
  <2>1. Reads(w)
    BY <1>2, WriteFacts DEF Truth
  <2> QED
    BY <1>2, <2>1, WriteFacts, Numbers DEF Reads
<1> QED
  BY <1>1, <1>2, StepMoves DEF Moves

LEMMA StepReads ==
    ASSUME Inv, LeasesHeld, NEW w \in Workers, Steps(w), NEW v \in Workers, pc'[v] = "write"
    PROVE  Reads(v)'
<1> USE DEF Inv
<1>1. Moves(w) /\ UNCHANGED change
  BY StepMoves DEF Moves
<1>2. CASE WalkRead(w) /\ v = w
  <2>1. ASSUME NEW x \in Roots, x \in Walked(w)
        PROVE  /\ derived'[x] <= mem'[w].seen[x]
               /\ \A r \in Requests : change[r][x] <= mem'[w].seen[x]
    BY <1>2, <2>1, ReadFacts, Numbers DEF Behind
  <2>2. Walked(w)' = Walked(w) /\ Everyone(w)' = Everyone(w)
    BY <1>2, ReadFacts DEF Walked
  <2>3. ASSUME NEW r \in Requests, r \in Everyone(w), NEW x \in RootsOf[r]
        PROVE  x \in Walked(w) /\ x \in Roots
    BY <2>3, RootsAssumption DEF Walked
  <2> QED
    BY <1>1, <1>2, <2>1, <2>2, <2>3 DEF Reads
<1>3. CASE ~(WalkRead(w) /\ v = w)
  <2>1. pc[v] = "write" /\ mem'[v] = mem[v] /\ job'[v] = job[v]
    BY <1>1, <1>3, OthersKeep DEF Moves
  <2>2. ~WalkWrite(w)
    <3>1. CASE v = w
      BY <3>1, WriteFacts
    <3>2. CASE v # w
      BY <2>1, <3>2, WriteFacts, Alone DEF Working, Phases
    <3> QED
      BY <3>1, <3>2
  <2>3. UNCHANGED derived
    BY <1>1, <2>2 DEF Moves
  <2>4. Reads(v)
    BY <2>1 DEF Truth
  <2>5. Walked(v)' = Walked(v) /\ Everyone(v)' = Everyone(v)
    BY <2>1 DEF Walked, Everyone
  <2> QED
    BY <1>1, <2>1, <2>3, <2>4, <2>5 DEF Reads
<1> QED
  BY <1>2, <1>3

LEMMA StepCovers ==
    ASSUME Inv, LeasesHeld, NEW w \in Workers, Steps(w), NEW v \in Workers,
           mem'[v].outcome = "success"
    PROVE  Covers(v)'
<1> USE DEF Inv
<1>1. Moves(w) /\ UNCHANGED change
  BY StepMoves DEF Moves
<1>2. CASE v = w /\ WalkWrite(w)
  <2>1. Reads(w) /\ Everyone(w)' = Everyone(w)
    BY <1>2, WriteFacts DEF Truth
  <2>2. ASSUME NEW r \in Requests, r \in Everyone(w), NEW x \in RootsOf[r]
        PROVE  change[r][x] <= derived'[x]
    <3>1. x \in Roots /\ x \in Walked(w)
      BY <2>2, RootsAssumption DEF Walked
    <3> QED
      BY <1>2, <2>1, <2>2, <3>1, WriteFacts DEF Reads
  <2> QED
    BY <1>1, <1>2, <2>1, <2>2 DEF Covers
<1>3. CASE ~(v = w /\ WalkWrite(w))
  <2>1. mem[v].outcome = "success" /\ Everyone(v)' = Everyone(v)
    BY <1>1, <1>3, OthersKeep DEF Moves, Everyone
  <2>2. Covers(v)
    BY <2>1 DEF Truth
  <2>3. ASSUME NEW r \in Requests, r \in Everyone(v), NEW x \in RootsOf[r]
        PROVE  change[r][x] <= derived'[x]
    <3>1. x \in Roots
      BY RootsAssumption
    <3>2. derived[x] \in Nat /\ derived'[x] \in Nat /\ change[r][x] \in Nat
      BY <3>1, Numbers, StepTypes DEF Types, TypeOK
    <3> QED
      BY <2>2, <2>3, <3>1, <3>2, StepForward DEF Covers
  <2> QED
    BY <1>1, <2>1, <2>3 DEF Covers
<1> QED
  BY <1>2, <1>3

LEMMA StepSuccess ==
    ASSUME Inv, LeasesHeld, NEW w \in Workers, Steps(w), NEW r \in Requests,
           status'[r] = "success", NEW x \in RootsOf[r]
    PROVE  derived'[x] >= change'[r][x]
<1> USE DEF Inv
<1>1. Moves(w) /\ UNCHANGED change
  BY StepMoves DEF Moves
<1>2. x \in Roots
  BY RootsAssumption
<1>3. change[r][x] <= derived[x]
  <2>1. derived[x] \in Nat /\ change[r][x] \in Nat
    BY <1>2, Numbers
  <2>2. CASE status[r] = "success"
    BY <2>1, <2>2 DEF Truth, SuccessCoversChange
  <2>3. CASE status[r] # "success"
    <3>1. mem[w].outcome = "success" /\ r \in Everyone(w)
      BY <1>1, <2>3 DEF Moves
    <3> QED
      BY <3>1 DEF Truth, Covers
  <2> QED
    BY <2>2, <2>3
<1>4. derived[x] <= derived'[x] /\ derived'[x] \in Nat
  BY <1>2, StepForward, StepTypes DEF Types, TypeOK
<1>5. derived[x] \in Nat /\ change[r][x] \in Nat
  BY <1>2, Numbers
<1> QED
  BY <1>1, <1>3, <1>4, <1>5

LEMMA StepInv ==
    ASSUME Inv, NEW w \in Workers, Steps(w)
    PROVE  Inv'
<1> USE DEF Inv
<1>1. Types' /\ Known' /\ Held' /\ Behind' /\ (LeasesHeld' => LeasesHeld)
  BY StepTypes, StepKnown, StepHeld, StepBehind
<1>2. Truth'
  BY <1>1, StepReads, StepCovers, StepSuccess DEF Truth, SuccessCoversChange
<1> QED
  BY <1>1, <1>2

LEMMA ClientInv ==
    ASSUME Inv, NEW r \in Requests, Client(r)
    PROVE  Inv'
<1> USE DEF Inv
<1>1. Types'
  BY ClientTypes
<1>2. /\ UNCHANGED <<derived, faults, pc, job, claim, mem, beat>>
      /\ UNCHANGED change \/ Save(r)
  BY DEF Client, Save, Submit, data, owner
<1>3. \A w \in Workers : Everyone(w)' = Everyone(w) /\ Walked(w)' = Walked(w)
  BY <1>2 DEF Everyone, Walked
<1>4. Held' /\ LeasesHeld' = LeasesHeld
  BY <1>2 DEF Held, LeasesHeld
<1>5. CASE Save(r)
  <2>1. /\ client[r] = "new" /\ client' = [client EXCEPT ![r] = "saved"]
        /\ UNCHANGED <<queued, status>>
        /\ \A x \in Roots : version'[x] = version[x] + IF x \in RootsOf[r] THEN 1 ELSE 0
    BY <1>5 DEF Save, files
  <2>2. /\ \A q \in Requests : q # r => change'[q] = change[q] /\ client'[q] = client[q]
        /\ \A x \in Roots : change'[r][x] = IF x \in RootsOf[r] THEN version'[x] ELSE 0
    BY <1>5 DEF Save, Types, TypeOK
  <2>3. Known'
    <3>1. client'[r] # "new" /\ \A q \in Requests : q # r => client'[q] = client[q]
      BY <2>1, <2>2 DEF Types, TypeOK
    <3>2. \A q \in Requests : client[q] = "sent" => client'[q] = "sent"
      BY <2>1, <3>1
    <3>3. ASSUME NEW q \in Requests, queued'[q] \/ status'[q] # "none"
          PROVE  client'[q] = "sent"
      <4>1. queued[q] \/ status[q] # "none"
        BY <2>1, <3>3
      <4> QED
        BY <3>2, <4>1 DEF Known
    <3>4. ASSUME NEW q \in Requests, NEW w \in Workers, q \in Everyone(w)' \cup beat'[w].todo
          PROVE  client'[q] = "sent"
      BY <1>2, <1>3, <3>2, <3>4 DEF Known
    <3> QED
      BY <3>3, <3>4 DEF Known
  <2>4. ASSUME NEW x \in Roots
        PROVE  /\ version[x] \in Nat /\ version'[x] \in Nat /\ version[x] <= version'[x]
               /\ derived[x] \in Nat
               /\ \A q \in Requests : change[q][x] \in Nat
               /\ \A w \in Workers : mem[w].seen[x] \in Nat
    <3>1. version[x] \in Nat
      BY Numbers
    <3> QED
      BY <2>1, <3>1, Numbers
  <2>5. Behind'
    <3>1. \A x \in Roots : derived[x] <= version'[x]
      BY <2>4 DEF Behind
    <3>2. ASSUME NEW q \in Requests, NEW x \in Roots PROVE change'[q][x] <= version'[x]
      BY <2>2, <2>4 DEF Behind
    <3>3. ASSUME NEW w \in Workers, pc[w] = "write", NEW x \in Roots
          PROVE  mem[w].seen[x] <= version'[x]
      BY <2>4, <3>3 DEF Behind
    <3> QED
      BY <1>2, <3>1, <3>2, <3>3 DEF Behind
  <2>6. status[r] # "success" /\ \A w \in Workers : r \notin Everyone(w)
    BY <2>1 DEF Known
  <2>7. Truth'
    <3>1. SUFFICES ASSUME LeasesHeld
                   PROVE  /\ \A w \in Workers : pc[w] = "write" => Reads(w)'
                          /\ \A w \in Workers : mem[w].outcome = "success" => Covers(w)'
                          /\ SuccessCoversChange'
      BY <1>2, <1>4 DEF Truth
    <3>2. ASSUME NEW w \in Workers, pc[w] = "write" PROVE Reads(w)'
      <4>1. Reads(w)
        BY <3>1, <3>2 DEF Truth
      <4> QED
        BY <1>2, <1>3, <2>2, <2>6, <4>1 DEF Reads
    <3>3. ASSUME NEW w \in Workers, mem[w].outcome = "success" PROVE Covers(w)'
      <4>1. Covers(w)
        BY <3>1, <3>3 DEF Truth
      <4> QED
        BY <1>2, <1>3, <2>2, <2>6, <4>1 DEF Covers
    <3>4. SuccessCoversChange'
      <4>1. SuccessCoversChange
        BY <3>1 DEF Truth
      <4>2. \A q \in Requests : status'[q] = "success" => q # r /\ status[q] = "success"
        BY <2>1, <2>6
      <4> QED
        BY <1>2, <1>4, <2>2, <3>1, <4>1, <4>2 DEF SuccessCoversChange
    <3> QED
      BY <3>2, <3>3, <3>4
  <2> QED
    BY <1>1, <1>4, <2>3, <2>5, <2>7
<1>6. CASE Submit(r)
  <2>1. /\ client' = [client EXCEPT ![r] = "sent"] /\ status' = [status EXCEPT ![r] = "queued"]
        /\ queued' = [queued EXCEPT ![r] = TRUE] /\ UNCHANGED <<version, change>>
    BY <1>6 DEF Submit, data
  <2>2. client'[r] = "sent" /\ \A q \in Requests : q # r => client'[q] = client[q]
    BY <2>1 DEF Types, TypeOK
  <2>3. \A q \in Requests : q # r => status'[q] = status[q] /\ (queued'[q] => queued[q])
    BY <2>1 DEF Types, TypeOK
  <2>4. Known'
    BY <1>2, <1>3, <2>2, <2>3 DEF Known
  <2>5. Behind'
    BY <1>2, <2>1 DEF Behind
  <2>6. \A q \in Requests : status'[q] = "success" => status[q] = "success"
    BY <2>1 DEF Types, TypeOK
  <2>7. Truth'
    BY <1>2, <1>3, <1>4, <2>1, <2>6 DEF Truth, Reads, Covers, SuccessCoversChange
  <2> QED
    BY <1>1, <1>4, <2>4, <2>5, <2>7
<1> QED
  BY <1>5, <1>6 DEF Client

LEMMA NextInv == Inv /\ [Next]_vars => Inv'
<1> SUFFICES ASSUME Inv, [Next]_vars PROVE Inv'
  OBVIOUS
<1>1. CASE \E r \in Requests : Client(r)
  BY <1>1, ClientInv
<1>2. CASE \E w \in Workers : Steps(w)
  BY <1>2, StepInv
<1>3. CASE UNCHANGED vars
  BY <1>3, NextTypes DEF vars, data, saves, files, owner, Inv, Known, Held, Behind, Truth,
     Reads, Covers, Everyone, Walked, LeasesHeld, SuccessCoversChange
<1> QED
  BY <1>1, <1>2, <1>3 DEF Next, Steps, Terminated

LEMMA AlwaysInv == Spec => []Inv
  BY InitInv, NextInv, PTL DEF Spec

\* A save that was answered with success is in its dependents: the walk that answers it
\* has read its roots after the save, also when it was merged into the walk of another
\* request, run again after a crash, or overtaken by later saves.
THEOREM SuccessIsTrue == Spec => []SuccessCoversChange
<1>1. Inv => SuccessCoversChange
  BY DEF Inv, Truth, SuccessCoversChange
<1> QED
  BY <1>1, AlwaysInv, PTL

\* No walk puts dependents back to an older version of their root: between what a walk
\* reads and what it writes nobody else with the lease writes.
THEOREM WalksGoForward == Spec => DerivedNeverRegresses
<1>1. Inv /\ [Next]_vars => [LeasesHeld => \A x \in Roots : derived'[x] >= derived[x]]_vars
  <2> SUFFICES ASSUME Inv, Next, LeasesHeld, NEW x \in Roots
               PROVE  derived'[x] >= derived[x]
    OBVIOUS
  <2>1. Types' /\ derived[x] \in Nat
    BY NextTypes, Numbers DEF Inv
  <2>2. derived'[x] \in Nat
    BY <2>1 DEF Types, TypeOK
  <2>3. CASE \E w \in Workers : Steps(w)
    BY <2>1, <2>2, <2>3, StepForward DEF Inv
  <2>4. CASE (\E r \in Requests : Client(r)) \/ UNCHANGED vars
    BY <2>1, <2>4 DEF Client, Save, Submit, vars, data
  <2> QED
    BY <2>3, <2>4 DEF Next, Steps, Terminated
<1> QED
  BY <1>1, AlwaysInv, PTL DEF Spec, DerivedNeverRegresses

-----------------------------------------------------------------------------
(* No save is dropped                                                      *)

\* The dependents reflect the save of a request.
Covered(r) == \A x \in RootsOf[r] : change[r][x] <= derived[x]

\* No lease was lost, no dependent declined and no file could not be written so far;
\* workers may have died and status threads may have been late.
NothingFailed == LeasesHeld /\ faults["walk"] = 0 /\ faults["io"] = 0

\* A request file goes only when the dependents reflect its save.
NoSaveIsDropped ==
    NothingFailed => \A r \in Requests : client[r] = "sent" /\ ~queued[r] => Covered(r)

\* Where a request file is about to go the dependents reflect its save: an answer that
\* was found before the claim was a success.
Kept ==
    NothingFailed =>
        /\ \A w \in Workers : mem[w].outcome # "error"
        /\ \A r \in Requests : status[r] # "error"
        /\ \A w \in Workers : pc[w] = "discard" => Covered(job[w])
        /\ NoSaveIsDropped

LEMMA SpendCounts ==
    ASSUME Types, NEW kind \in FaultKinds, Spend(kind)
    PROVE  faults'[kind] > 0 /\ \A k \in FaultKinds : faults[k] <= faults'[k]
<1>1. faults \in [FaultKinds -> Nat]
  BY DEF Types, TypeOK
<1>2. faults' = [faults EXCEPT ![kind] = faults[kind] + 1]
  BY DEF Spend
<1> QED
  BY <1>1, <1>2

LEMMA StepFailed ==
    ASSUME Types, NEW w \in Workers, Steps(w), NothingFailed'
    PROVE  NothingFailed /\ ~Displace(w) /\ ~WalkFails(w) /\ ~WriteFails(w)
<1>1. UNCHANGED faults \/ \E kind \in FaultKinds : Spend(kind)
  BY DEF Steps, Job, Claiming, Walking, Replying, Beating, Pick, Discard, Acquire, AcquireMiss,
     Drain, AnnounceCheck, AnnounceWrite, TickCheck, TickWrite, WalkRead, WalkWrite, WalkFails,
     Join, AnswerCheck, AnswerWrite, Confirm, Unlink, Release, WriteFails, BeatWake, BeatCheck,
     BeatWrite, BeatFails, BeatStops, Displace, Crash, FaultKinds
<1>2. \A k \in FaultKinds : faults[k] \in Nat /\ faults[k] <= faults'[k]
  BY <1>1, SpendCounts DEF Types, TypeOK
<1>3. NothingFailed
  BY <1>2 DEF NothingFailed, LeasesHeld, FaultKinds
<1>4. /\ ~(Spend("displace") /\ faults'["displace"] = 0)
      /\ ~(Spend("walk") /\ faults'["walk"] = 0) /\ ~(Spend("io") /\ faults'["io"] = 0)
  BY SpendCounts DEF FaultKinds
<1> QED
  BY <1>3, <1>4 DEF NothingFailed, LeasesHeld, Displace, WalkFails, WriteFails

\* How an outcome, a discarded answer and a request file come to be and go.
Blames(w) ==
    /\ mem'[w].outcome = "error" => mem[w].outcome = "error"
    /\ pc'[w] = "discard" =>
           \/ pc[w] = "discard" /\ job'[w] = job[w]
           \/ job'[w] \in Requests /\ status[job'[w]] \in Terminal
    /\ \A r \in Requests : queued[r] /\ ~queued'[r] =>
           \/ pc[w] = "discard" /\ r = job[w]
           \/ pc[w] = "unlink" /\ r \in Everyone(w)

LEMMA ClaimingBlames ==
    ASSUME Types, NEW w \in Workers, Claiming(w)
    PROVE  Blames(w)
<1> USE TypesOf DEF Blames, files, owner, Goto, At
<1>1. CASE \E r \in Requests : Pick(w, r)
  BY <1>1 DEF Pick
<1>2. CASE Discard(w)
  BY <1>2 DEF Discard
<1>3. CASE Acquire(w) \/ AcquireMiss(w)
  BY <1>3 DEF Acquire, AcquireMiss
<1>4. CASE Drain(w)
  <2> DEFINE siblings == {q \in Requests \ {job[w]} : queued[q] /\ status[q] \notin Terminal}
             next == [mem[w] EXCEPT !.merged = siblings, !.todo = siblings \cup {job[w]}]
  <2>1. mem' = [mem EXCEPT ![w] = next]
    BY <1>4 DEF Drain
  <2>2. mem'[w].outcome = mem[w].outcome
    BY <2>1 DEF Memory
  <2> QED
    BY <1>4, <2>2 DEF Drain
<1> QED
  BY <1>1, <1>2, <1>3, <1>4 DEF Claiming

LEMMA WalkingBlames ==
    ASSUME Types, NEW w \in Workers, Walking(w), ~WalkFails(w)
    PROVE  Blames(w)
<1>1. UNCHANGED queued /\ pc'[w] # "discard"
  BY TypesOf DEF Walking, AnnounceCheck, AnnounceWrite, TickCheck, TickWrite, WalkRead, WalkWrite,
     WalkFails, Join, Raise, files, Goto
<1>2. mem'[w].outcome = "error" => mem[w].outcome = "error"
  <2> USE TypesOf
  <2>1. CASE AnnounceCheck(w)
    <3>1. CASE Lost(w)
      BY <2>1, <3>1 DEF AnnounceCheck, Raise, Memory
    <3>2. CASE ~Lost(w)
      <4>1. PICK r : mem' = [mem EXCEPT ![w].target = r]
        BY <2>1, <3>2 DEF AnnounceCheck
      <4>2. mem'[w] = [mem[w] EXCEPT !.target = r]
        BY <4>1
      <4> QED
        BY <4>2 DEF Memory
    <3> QED
      BY <3>1, <3>2
  <2>2. CASE AnnounceWrite(w)
    <3> DEFINE next == [mem[w] EXCEPT !.todo = {}, !.progress = 1, !.target = NoRequest]
               left == mem[w].todo \ {mem[w].target}
    <3>1. CASE left # {}
      <4>1. mem' = [mem EXCEPT ![w].todo = left]
        BY <2>2, <3>1 DEF AnnounceWrite
      <4>2. mem'[w] = [mem[w] EXCEPT !.todo = left]
        BY <4>1
      <4> HIDE DEF left
      <4> QED
        BY <4>2 DEF Memory
    <3>2. CASE left = {}
      <4>1. mem' = [mem EXCEPT ![w] = next]
        BY <2>2, <3>2 DEF AnnounceWrite
      <4> QED
        BY <4>1, Announced
    <3> QED
      BY <3>1, <3>2
  <2>3. CASE TickCheck(w)
    BY <2>3 DEF TickCheck, Raise, Memory
  <2>4. CASE TickWrite(w)
    BY <2>4 DEF TickWrite, Memory
  <2>5. CASE WalkRead(w)
    BY <2>5 DEF WalkRead, Memory
  <2>6. CASE WalkWrite(w)
    <3>1. mem'[w] = Finished(mem[w], "success")
      BY <2>6 DEF WalkWrite, Finished
    <3> QED
      BY <3>1, WalkedMemory
  <2>7. CASE Join(w)
    BY <2>7 DEF Join, Memory
  <2> QED
    BY <2>1, <2>2, <2>3, <2>4, <2>5, <2>6, <2>7 DEF Walking
<1> QED
  BY <1>1, <1>2 DEF Blames

LEMMA ReplyingBlames ==
    ASSUME Types, NEW w \in Workers, Replying(w), ~WriteFails(w)
    PROVE  Blames(w)
<1> USE TypesOf DEF Blames, files, owner, At
<1>1. CASE AnswerCheck(w)
  <2>1. PICK r \in Upcoming(w, mem[w].todo) :
          IF Lost(w) THEN Unanswered(w, r)
          ELSE Goto(w, "answer_write") /\ mem' = [mem EXCEPT ![w].target = r]
    BY <1>1 DEF AnswerCheck
  <2>2. CASE Unanswered(w, r)
    BY <1>1, <2>2, AnsweredMoves DEF AnswerCheck
  <2>3. CASE Goto(w, "answer_write") /\ mem' = [mem EXCEPT ![w].target = r]
    <3>1. mem'[w].outcome = mem[w].outcome /\ pc'[w] = "answer_write"
      BY <2>3 DEF Memory, Goto
    <3> QED
      BY <1>1, <3>1 DEF AnswerCheck
  <2> QED
    BY <2>1, <2>2, <2>3
<1>2. CASE AnswerWrite(w)
  BY <1>2 DEF AnswerWrite, Goto
<1>3. CASE Confirm(w)
  <2>1. CASE Goto(w, "unlink") /\ UNCHANGED mem
    BY <1>3, <2>1 DEF Confirm, Goto
  <2>2. CASE Answered(w, mem[w].target)
    BY <1>3, <2>2, AnsweredMoves DEF Confirm
  <2> QED
    BY <1>3, <2>1, <2>2 DEF Confirm
<1>4. CASE Unlink(w)
  <2>1. /\ pc[w] = "unlink" /\ mem[w].target \in Everyone(w)
        /\ \A r \in Requests : queued[r] /\ ~queued'[r] => r = mem[w].target
    BY <1>4 DEF Unlink, Follows
  <2> QED
    BY <1>4, <2>1, AnsweredMoves DEF Unlink
<1>5. CASE Release(w)
  BY <1>5 DEF Release, FreshMemory, Goto
<1> QED
  BY <1>1, <1>2, <1>3, <1>4, <1>5 DEF Replying

LEMMA StepBlames ==
    ASSUME Types, NEW w \in Workers, Steps(w), ~WalkFails(w), ~WriteFails(w)
    PROVE  Blames(w)
<1>1. CASE BeatWake(w) \/ Beating(w) \/ Displace(w)
  BY <1>1, TypesOf DEF Blames, BeatWake, Beating, BeatCheck, BeatWrite, BeatFails, BeatStops,
     Displace, files, owner
<1>2. CASE Crash(w)
  BY <1>2, TypesOf DEF Blames, Crash, FreshMemory, files, Goto
<1> QED
  BY <1>1, <1>2, ClaimingBlames, WalkingBlames, ReplyingBlames DEF Steps, Job

\* While no lease is lost, what the dependents reflect they reflect after every step.
LEMMA StaysCovered ==
    ASSUME Inv, LeasesHeld, NEW w \in Workers, Steps(w), NEW r \in Requests, Covered(r)
    PROVE  Covered(r)'
<1> SUFFICES ASSUME NEW x \in RootsOf[r] PROVE change'[r][x] <= derived'[x]
  BY StepMoves DEF Covered, Inv, Moves
<1>1. x \in Roots
  BY RootsAssumption
<1>2. change'[r][x] = change[r][x] /\ change[r][x] \in Nat /\ change[r][x] <= derived[x]
  BY <1>1, StepMoves, Numbers DEF Covered, Inv, Moves
<1>3. derived[x] \in Nat /\ derived'[x] \in Nat /\ derived[x] <= derived'[x]
  BY <1>1, StepForward, Numbers, StepTypes DEF Inv, Types, TypeOK
<1> QED
  BY <1>2, <1>3

\* A terminal status and a worker that unlinks speak for the dependents.
LEMMA AnswersCover ==
    ASSUME Inv, Kept, NothingFailed
    PROVE  /\ \A r \in Requests : status[r] \in Terminal => Covered(r)
           /\ \A w \in Workers : pc[w] = "unlink" =>
                  \A r \in Requests : r \in Everyone(w) => Covered(r)
<1> USE DEF Inv
<1>1. LeasesHeld
  BY DEF NothingFailed
<1>2. ASSUME NEW r \in Requests, status[r] \in Terminal PROVE Covered(r)
  <2>1. status[r] = "success"
    BY <1>2 DEF Kept, Terminal
  <2>2. ASSUME NEW x \in RootsOf[r] PROVE change[r][x] <= derived[x]
    <3>1. x \in Roots
      BY RootsAssumption
    <3> QED
      BY <1>1, <2>1, <3>1, Numbers DEF Truth, SuccessCoversChange
  <2> QED
    BY <2>2 DEF Covered
<1>3. ASSUME NEW w \in Workers, pc[w] = "unlink", NEW r \in Requests, r \in Everyone(w)
      PROVE  Covered(r)
  <2>1. mem[w].outcome = "success"
    BY <1>3, TypesOf DEF Kept, Follows, Terminal
  <2> QED
    BY <1>1, <1>3, <2>1 DEF Truth, Covers, Covered
<1> QED
  BY <1>2, <1>3

LEMMA StepKept ==
    ASSUME Inv, Kept, NEW w \in Workers, Steps(w)
    PROVE  Kept'
<1> SUFFICES ASSUME NothingFailed' PROVE Kept'
  BY DEF Kept, NoSaveIsDropped
<1> USE DEF Inv
<1>1. NothingFailed /\ LeasesHeld /\ Blames(w) /\ Moves(w)
  BY StepFailed, StepBlames, StepMoves DEF NothingFailed
<1>2. \A v \in Workers : mem'[v].outcome # "error"
  BY <1>1, OthersKeep DEF Kept, Blames
<1>3. \A r \in Requests : status'[r] # "error"
  BY <1>1 DEF Kept, Moves
<1>4. ASSUME NEW v \in Workers, pc'[v] = "discard" PROVE Covered(job[v])'
  <2>1. job'[v] \in Requests /\ Covered(job'[v])
    <3>1. CASE pc[v] = "discard" /\ job'[v] = job[v]
      BY <1>1, <3>1, TypesOf DEF Kept, Follows
    <3>2. CASE job'[v] \in Requests /\ status[job'[v]] \in Terminal
      BY <1>1, <3>2, AnswersCover
    <3> QED
      BY <1>1, <1>4, <3>1, <3>2, OthersKeep DEF Blames
  <2>2. ASSUME NEW r \in Requests, Covered(r) PROVE Covered(r)'
    BY <1>1, <2>2, StaysCovered
  <2> QED
    BY <2>1, <2>2 DEF Covered
<1>5. ASSUME NEW r \in Requests, client'[r] = "sent", ~queued'[r] PROVE Covered(r)'
  <2>1. Covered(r)
    <3>1. CASE ~queued[r]
      BY <1>1, <1>5, <3>1 DEF Kept, NoSaveIsDropped, Moves
    <3>2. CASE queued[r]
      BY <1>1, <1>5, <3>2, AnswersCover DEF Kept, Blames
    <3> QED
      BY <3>1, <3>2
  <2> QED
    BY <1>1, <2>1, StaysCovered
<1> QED
  BY <1>2, <1>3, <1>4, <1>5 DEF Kept, NoSaveIsDropped, Covered

LEMMA ClientKept ==
    ASSUME Inv, Kept, NEW r \in Requests, Client(r)
    PROVE  Kept'
<1> SUFFICES ASSUME NothingFailed' PROVE Kept'
  BY DEF Kept, NoSaveIsDropped
<1> USE DEF Inv
<1>1. UNCHANGED <<derived, faults, pc, job, mem>>
  BY DEF Client, Save, Submit, data, owner
<1>2. NothingFailed
  BY <1>1 DEF NothingFailed, LeasesHeld
<1>3. CASE Save(r)
  <2>1. /\ client[r] = "new" /\ client'[r] # "sent" /\ UNCHANGED <<queued, status>>
        /\ \A q \in Requests : q # r => change'[q] = change[q] /\ client'[q] = client[q]
    BY <1>3 DEF Save, files, Types, TypeOK
  <2>2. ASSUME NEW w \in Workers, pc[w] = "discard"
        PROVE  job[w] \in Requests /\ job[w] # r
    BY <2>1, <2>2, TypesOf DEF Known, Everyone, Follows
  <2>3. \A q \in Requests : q # r /\ Covered(q) => Covered(q)'
    BY <1>1, <2>1 DEF Covered
  <2>4. ASSUME NEW w \in Workers, pc[w] = "discard" PROVE Covered(job[w])'
    <3>1. job[w] \in Requests /\ job[w] # r /\ Covered(job[w])
      BY <1>2, <2>2, <2>4 DEF Kept
    <3> QED
      BY <1>1, <2>3, <3>1 DEF Covered
  <2> QED
    BY <1>1, <1>2, <2>1, <2>3, <2>4 DEF Kept, NoSaveIsDropped, Covered
<1>4. CASE Submit(r)
  <2>1. /\ UNCHANGED change /\ queued'[r] /\ status'[r] = "queued"
        /\ \A q \in Requests : q # r => /\ queued'[q] = queued[q] /\ status'[q] = status[q]
                                        /\ client'[q] = client[q]
    BY <1>4 DEF Submit, Types, TypeOK
  <2>2. \A q \in Requests : Covered(q)' = Covered(q)
    BY <1>1, <2>1 DEF Covered
  <2>3. \A q \in Requests : status'[q] # "error"
    BY <1>2, <2>1 DEF Kept
  <2>4. ASSUME NEW q \in Requests, client'[q] = "sent", ~queued'[q] PROVE Covered(q)'
    BY <1>2, <2>1, <2>2, <2>4 DEF Kept, NoSaveIsDropped
  <2> QED
    BY <1>1, <1>2, <2>1, <2>3, <2>4 DEF Kept, NoSaveIsDropped, Covered
<1> QED
  BY <1>3, <1>4 DEF Client

\* A save whose request file is gone is in its dependents, however the workers claim,
\* merge, die and are late: as long as no lease is lost, every dependent recalculates and
\* every file can be written, a request leaves the queue only through a walk that has
\* read its roots after the save.
THEOREM SavesReachTheirDependents == Spec => []NoSaveIsDropped
<1>1. Init => Kept
  BY DEF Init, Kept, NoSaveIsDropped, FreshMemory
<1>2. Inv /\ Kept /\ [Next]_vars => Kept'
  <2> SUFFICES ASSUME Inv, Kept, [Next]_vars PROVE Kept'
    OBVIOUS
  <2>1. CASE \E r \in Requests : Client(r)
    BY <2>1, ClientKept
  <2>2. CASE \E w \in Workers : Steps(w)
    BY <2>2, StepKept
  <2>3. CASE UNCHANGED vars
    BY <2>3 DEF vars, data, saves, files, owner, Kept, NoSaveIsDropped, NothingFailed,
       LeasesHeld, Covered
  <2> QED
    BY <2>1, <2>2, <2>3 DEF Next, Steps, Terminated
<1>3. Kept => NoSaveIsDropped
  BY DEF Kept, NoSaveIsDropped
<1> QED
  BY <1>1, <1>2, <1>3, AlwaysInv, PTL DEF Spec

-----------------------------------------------------------------------------
(* The lease, as it is promised                                            *)

Claims == INSTANCE FencedClaim

\* A worker without the lease is idle or about to look for it.
AtRest == \A w \in Workers : pc[w] \notin Working => claim[w] = "none"

LEMMA StepAtRest ==
    ASSUME Types, AtRest, NEW w \in Workers, Steps(w)
    PROVE  AtRest'
<1>1. pc'[w] \notin Working => claim'[w] = "none"
  <2> USE TypesOf DEF Goto, At, owner, AtRest, Working, Phases
  <2>1. CASE Claiming(w)
    BY <2>1 DEF Claiming, Pick, Discard, Acquire, AcquireMiss, Drain
  <2>2. CASE Walking(w)
    BY <2>2 DEF Walking, AnnounceCheck, AnnounceWrite, TickCheck, TickWrite, WalkRead,
       WalkWrite, WalkFails, Join, Raise
  <2>3. CASE Replying(w)
    BY <2>3 DEF Replying, AnswerCheck, AnswerWrite, Confirm, Unlink, Release, WriteFails,
       Raise, Answered, Unanswered
  <2>4. CASE BeatWake(w) \/ Beating(w)
    BY <2>4 DEF BeatWake, Beating, BeatCheck, BeatWrite, BeatFails, BeatStops
  <2>5. CASE Displace(w) \/ Crash(w)
    BY <2>5 DEF Displace, Crash
  <2> QED
    BY <2>1, <2>2, <2>3, <2>4, <2>5 DEF Steps, Job
<1>2. \A v \in Workers : v # w => pc'[v] = pc[v] /\ claim'[v] = claim[v]
  BY OthersKeep
<1> QED
  BY <1>1, <1>2 DEF AtRest

\* What a step of a worker does to the claims.
LEMMA StepClaims ==
    ASSUME Types, Held, AtRest, NEW w \in Workers, Steps(w)
    PROVE  [Claims!Next]_claim
<1>1. claim \in [Workers -> {"none", "valid", "lost"}]
  BY TypesOf
<1>2. CASE Acquire(w)
  <2>1. claim[w] = "none"
    BY <1>2 DEF Acquire, At, AtRest, Working
  <2> QED
    BY <1>2, <2>1 DEF Acquire, Claims!Next, Claims!Enter
<1>3. CASE Displace(w)
  BY <1>3 DEF Displace, Claims!Next, Claims!Displace
<1>4. CASE Release(w)
  <2>1. claim[w] # "none"
    BY <1>4 DEF Release, At, Held, Working, Phases
  <2> QED
    BY <1>4, <2>1 DEF Release, Claims!Next, Claims!Leave
<1>5. CASE Crash(w)
  BY <1>1, <1>5 DEF Crash, Claims!Next, Claims!Leave
<1>6. CASE UNCHANGED claim
  BY <1>6
<1>7. UNCHANGED claim \/ Acquire(w) \/ Displace(w) \/ Release(w) \/ Crash(w)
  BY DEF Steps, Job, Claiming, Walking, Replying, Beating, Pick, Discard, AcquireMiss, Drain,
     AnnounceCheck, AnnounceWrite, TickCheck, TickWrite, WalkRead, WalkWrite, WalkFails, Join,
     AnswerCheck, AnswerWrite, Confirm, Unlink, WriteFails, BeatWake, BeatCheck, BeatWrite,
     BeatFails, BeatStops, owner
<1> QED
  BY <1>2, <1>3, <1>4, <1>5, <1>6, <1>7

\* The job uses the lease of its class as FencedClaim promises it and EngineJobLease
\* implements it: it asks for a claim only when it has none, gives up what it took, and
\* never counts on a claim that was lost.
THEOREM PropagationUsesFencedClaim == Spec => Claims!Spec
<1>1. Init => Claims!Init /\ AtRest
  BY DEF Init, AtRest, Claims!Init
<1>2. Inv /\ AtRest /\ [Next]_vars => AtRest' /\ [Claims!Next]_claim
  <2> SUFFICES ASSUME Inv, AtRest, [Next]_vars PROVE AtRest' /\ [Claims!Next]_claim
    OBVIOUS
  <2>1. CASE \E w \in Workers : Steps(w)
    BY <2>1, StepAtRest, StepClaims DEF Inv
  <2>2. CASE (\E r \in Requests : Client(r)) \/ UNCHANGED vars
    BY <2>2 DEF Client, Save, Submit, vars, owner, AtRest
  <2> QED
    BY <2>1, <2>2 DEF Next, Steps, Terminated
<1> QED
  BY <1>1, <1>2, AlwaysInv, PTL DEF Spec, Claims!Spec
=============================================================================
