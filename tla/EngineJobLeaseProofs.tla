------------------------ MODULE EngineJobLeaseProofs ------------------------
(***************************************************************************)
(* Safety of the lease for any number of workers.                          *)
(*                                                                         *)
(* DisplacementExplained is not inductive: what a worker displaced by a    *)
(* rename or an unlink can say about its token depends on what the         *)
(* remover saw when it looked at the path.  RenameWindow and UnlinkWindow  *)
(* keep that knowledge while the remover is between its look and its call. *)
(***************************************************************************)
EXTENDS EngineJobLease, TLAPS

\* The phases in which a worker refers to the token of a lease it created.
Engaged(w) == pc[w] \in {"write", "held", "unlink"}

TokenHeld == \A w \in Workers : Engaged(w) <=> token[w] # NoToken

TokensDistinct ==
    \A v, w \in Workers : v # w /\ token[v] = token[w] => token[v] = NoToken

StaleIsRecorded == fileToken # NoToken /\ fileStale => fileToken \in slow

LossExplained ==
    \A w \in Workers :
        Engaged(w) /\ fileToken # token[w] => token[w] \in slow \cup raced

\* A worker about to rename judged a stale file: the file at the path is that
\* one, or was created since.
RenameWindow ==
    \A w \in Workers :
        pc[w] = "rename" /\ fileToken # NoToken => fileToken \in slow \cup raced

\* A worker about to unlink saw its own file at the path.
UnlinkWindow ==
    \A w \in Workers :
        pc[w] = "unlink" /\ fileToken # NoToken
            => fileToken = token[w] \/ fileToken \in raced

LeaseInv ==
    /\ TypeOK
    /\ TokenHeld
    /\ TokensDistinct
    /\ StaleIsRecorded
    /\ LossExplained
    /\ RenameWindow
    /\ UnlinkWindow

\* The initial state satisfies the invariant: nobody holds or looks at anything.
LEMMA InitLeaseInv == Init => LeaseInv
  BY TokensAssumption
  DEF Init, LeaseInv, TypeOK, TokenHeld, TokensDistinct, StaleIsRecorded,
      LossExplained, RenameWindow, UnlinkWindow, Engaged, Phases

\* Every step of the lease protocol preserves types.
LEMMA TypeStep == TypeOK /\ [Next]_vars => TypeOK'
<1> SUFFICES ASSUME TypeOK, [Next]_vars PROVE TypeOK'
  OBVIOUS
<1> USE DEF TypeOK, Phases, fileVars, beatVars, history, Goto, NextAttempt
<1>1. CASE Age
  BY <1>1 DEF Age, FileExists
<1>2. ASSUME NEW w \in Workers, AcquireStep(w) PROVE TypeOK'
  <2>1. CASE StartAcquire(w)  BY <2>1 DEF StartAcquire
  <2>2. CASE Create(w)        BY ZenonT(40), <2>2 DEF Create
  <2>3. CASE OpenExists(w)    BY <2>3 DEF OpenExists
  <2>4. CASE Write(w)         BY <2>4 DEF Write
  <2>5. CASE WriteFails(w)    BY <2>5 DEF WriteFails
  <2>6. CASE StatGone(w)      BY <2>6 DEF StatGone
  <2>7. CASE StatLive(w)      BY <2>7 DEF StatLive
  <2>8. CASE StatStale(w)     BY <2>8 DEF StatStale
  <2>9. CASE Rename(w)        BY <2>9 DEF Rename
  <2>10. CASE RenameFails(w)  BY <2>10 DEF RenameFails
  <2>11. QED
    BY <1>2, <2>1, <2>2, <2>3, <2>4, <2>5, <2>6, <2>7, <2>8, <2>9, <2>10
    DEF AcquireStep
<1>3. ASSUME NEW w \in Workers, BeatStep(w) PROVE TypeOK'
  <2>1. CASE BeatOwned(w)  BY <2>1 DEF BeatOwned
  <2>2. CASE BeatTouch(w)  BY <2>2 DEF BeatTouch
  <2>3. CASE BeatMiss(w)   BY <2>3 DEF BeatMiss
  <2>4. QED  BY <1>3, <2>1, <2>2, <2>3 DEF BeatStep
<1>4. ASSUME NEW w \in Workers, ReleaseStep(w) PROVE TypeOK'
  <2>1. CASE ReleaseCheck(w)        BY <2>1 DEF ReleaseCheck
  <2>2. CASE ReleaseSkip(w)         BY <2>2 DEF ReleaseSkip
  <2>3. CASE ReleaseUnlink(w)       BY <2>3 DEF ReleaseUnlink
  <2>4. CASE ReleaseUnlinkFails(w)  BY <2>4 DEF ReleaseUnlinkFails
  <2>5. QED  BY <1>4, <2>1, <2>2, <2>3, <2>4 DEF ReleaseStep
<1>5. ASSUME NEW w \in Workers, Crash(w) PROVE TypeOK'
  BY <1>5 DEF Crash
<1>6. CASE UNCHANGED vars
  BY <1>6 DEF vars
<1>7. QED
  BY <1>1, <1>2, <1>3, <1>4, <1>5, <1>6 DEF Next

\* Every step of the lease protocol preserves the invariant.
LEMMA LeaseInvStep == LeaseInv /\ [Next]_vars => LeaseInv'
<1> SUFFICES ASSUME LeaseInv, [Next]_vars PROVE LeaseInv'
  OBVIOUS
<1>t. TypeOK'
  BY TypeStep DEF LeaseInv
<1> USE TokensAssumption DEF LeaseInv, TypeOK, Phases, TokenHeld, TokensDistinct,
        StaleIsRecorded, LossExplained, RenameWindow, UnlinkWindow, Engaged,
        fileVars, beatVars, history, Goto, NextAttempt, FileExists
<1>1. CASE Age
  BY <1>1, <1>t DEF Age
<1>2. ASSUME NEW w \in Workers, AcquireStep(w) PROVE LeaseInv'
  <2>1. CASE StartAcquire(w)
    BY <1>t, <2>1 DEF StartAcquire
  <2>2. CASE Create(w)
    BY <1>t, <2>2 DEF Create, LiveTokens, Removing
  <2>3. CASE OpenExists(w)
    BY <1>t, <2>3 DEF OpenExists
  <2>4. CASE Write(w)
    BY <1>t, <2>4 DEF Write
  <2>5. CASE WriteFails(w)
    BY <1>t, <2>5 DEF WriteFails
  <2>6. CASE StatGone(w)
    BY <1>t, <2>6 DEF StatGone
  <2>7. CASE StatLive(w)
    BY <1>t, <2>7 DEF StatLive
  <2>8. CASE StatStale(w)
    BY <1>t, <2>8 DEF StatStale
  <2>9. CASE Rename(w)
    BY <1>t, <2>9 DEF Rename
  <2>10. CASE RenameFails(w)
    BY <1>t, <2>10 DEF RenameFails
  <2>11. QED
    BY <1>2, <2>1, <2>2, <2>3, <2>4, <2>5, <2>6, <2>7, <2>8, <2>9, <2>10 DEF AcquireStep
<1>3. ASSUME NEW w \in Workers, BeatStep(w) PROVE LeaseInv'
  <2>1. CASE BeatOwned(w)
    BY <1>t, <2>1 DEF BeatOwned
  <2>2. CASE BeatTouch(w)
    BY <1>t, <2>2 DEF BeatTouch
  <2>3. CASE BeatMiss(w)
    BY <1>t, <2>3 DEF BeatMiss
  <2>4. QED
    BY <1>3, <2>1, <2>2, <2>3 DEF BeatStep
<1>4. ASSUME NEW w \in Workers, ReleaseStep(w) PROVE LeaseInv'
  <2>1. CASE ReleaseCheck(w)
    BY <1>t, <2>1 DEF ReleaseCheck, Owned
  <2>2. CASE ReleaseSkip(w)
    BY <1>t, <2>2 DEF ReleaseSkip
  <2>3. CASE ReleaseUnlink(w)
    BY <1>t, <2>3 DEF ReleaseUnlink
  <2>4. CASE ReleaseUnlinkFails(w)
    BY <1>t, <2>4 DEF ReleaseUnlinkFails
  <2>5. QED
    BY <1>4, <2>1, <2>2, <2>3, <2>4 DEF ReleaseStep
<1>5. ASSUME NEW w \in Workers, Crash(w) PROVE LeaseInv'
  BY <1>t, <1>5 DEF Crash
<1>6. CASE UNCHANGED vars
  BY <1>t, <1>6 DEF vars
<1>7. QED
  BY <1>1, <1>2, <1>3, <1>4, <1>5, <1>6 DEF Next

\* The invariant explains every displaced holder.
LEMMA InvExplains == LeaseInv => DisplacementExplained
  BY DEF LeaseInv, LossExplained, DisplacementExplained, Engaged, Holding

\* The lease keeps its types in every reachable state.
THEOREM LeaseTypeCorrect == Spec => []TypeOK
<1>1. LeaseInv => TypeOK
  BY DEF LeaseInv
<1>2. QED
  BY InitLeaseInv, LeaseInvStep, <1>1, PTL DEF Spec

\* A holder is displaced only after its own file was stale, or when its file
\* was created inside another worker's look-then-remove gap.
THEOREM DisplacementIsExplained == Spec => []DisplacementExplained
  BY InitLeaseInv, LeaseInvStep, InvExplains, PTL DEF Spec

\* Two workers hold the lease together only if one of their leases has been
\* stale or was created in such a gap.
THEOREM FreshLeasesExclude == Spec => []ExclusionWhileFresh
<1>1. LeaseInv => ExclusionWhileFresh
  <2> SUFFICES ASSUME LeaseInv, NEW v \in Workers, NEW w \in Workers,
                      Holding(v), Holding(w), v # w
               PROVE  \E u \in {v, w} : token[u] \in slow \cup raced
    BY DEF ExclusionWhileFresh
  <2>1. token[v] # token[w]
    BY DEF LeaseInv, TokenHeld, TokensDistinct, Engaged, Holding
  <2>2. \E u \in {v, w} : fileToken # token[u]
    BY <2>1
  <2>3. QED
    BY <2>2, InvExplains DEF DisplacementExplained
<1>2. QED
  BY InitLeaseInv, LeaseInvStep, <1>1, PTL DEF Spec

\* Releasing a lease never removes the file of a successor that was created
\* before the releaser looked.
THEOREM ReleaseIsSafe == Spec => ReleaseRemovesOwn
<1>1. LeaseInv => [\A w \in Workers :
                     /\ pc[w] = "unlink" /\ pc'[w] = "idle"
                     /\ FileExists /\ ~FileExists'
                     => fileToken = token[w] \/ fileToken \in raced]_vars
  BY DEF LeaseInv, UnlinkWindow, FileExists
<1>2. QED
  BY InitLeaseInv, LeaseInvStep, <1>1, PTL DEF Spec, ReleaseRemovesOwn

-----------------------------------------------------------------------------
(* Refinement: the files behave as fenced claims.                          *)

\* Two valid claims would be two owners of one file.
LEMMA OneValidClaim ==
    ASSUME LeaseInv, NEW v \in Workers, NEW w \in Workers,
           Claim[v] = "valid", Claim[w] = "valid"
    PROVE  v = w
  BY TokensAssumption
  DEF LeaseInv, TypeOK, TokensDistinct, Claim, Holding, Owned, FileExists

\* Removing the file displaces its owner, if it has one, and nobody else.
LEMMA RemovalDisplaces ==
    ASSUME LeaseInv, fileToken' = NoToken,
           \A v \in Workers : Holding(v)' <=> Holding(v)
    PROVE  [Claims!Next]_Claim
<1>1. CASE \E v \in Workers : Claim[v] = "valid"
  <2>1. PICK v \in Workers : Claim[v] = "valid"
    BY <1>1
  <2>2. Claim' = [Claim EXCEPT ![v] = "lost"]
    <3>1. \A u \in Workers : u # v => Claim[u] # "valid"
      BY <2>1, OneValidClaim
    <3>2. \A u \in Workers : Claim'[u] = IF u = v THEN "lost" ELSE Claim[u]
      BY <2>1, <3>1 DEF Claim, Owned, FileExists
    <3>3. QED
      BY <3>2 DEF Claim
  <2>3. QED
    BY <2>1, <2>2 DEF Claims!Next, Claims!Displace
<1>2. CASE \A v \in Workers : Claim[v] # "valid"
  <2>1. \A v \in Workers : Claim'[v] = Claim[v]
    BY <1>2 DEF Claim, Owned, FileExists
  <2>2. QED
    BY <2>1 DEF Claim
<1>3. QED
  BY <1>1, <1>2

\* Nobody else's claim moves when one worker stops holding.
LEMMA LeavingLeaves ==
    ASSUME LeaseInv, NEW w \in Workers, NEW phase \in Phases \ {"held"},
           Goto(w, phase), fileToken' = fileToken, fileWritten' = fileWritten,
           \A v \in Workers : v # w => token'[v] = token[v]
    PROVE  [Claims!Next]_Claim
<1>1. \A v \in Workers : Claim'[v] = IF v = w THEN "none" ELSE Claim[v]
  BY DEF LeaseInv, TypeOK, Claim, Goto, Holding, Owned, FileExists
<1>2. CASE Holding(w)
  <2>1. Claim[w] # "none"
    BY <1>2 DEF Claim
  <2>2. Claim' = [Claim EXCEPT ![w] = "none"]
    BY <1>1 DEF Claim
  <2>3. QED
    BY <2>1, <2>2 DEF Claims!Next, Claims!Leave
<1>3. CASE ~Holding(w)
  <2>1. Claim' = Claim
    BY <1>1, <1>3 DEF Claim
  <2>2. QED
    BY <2>1
<1>4. QED
  BY <1>2, <1>3

\* Going on to another phase of an acquire call is invisible to the claims.
LEMMA MovingStutters ==
    ASSUME LeaseInv, NEW w \in Workers, ~Holding(w), ~Holding(w)',
           \A v \in Workers : v # w => pc'[v] = pc[v] /\ token'[v] = token[v],
           \/ fileToken' = fileToken /\ fileWritten' = fileWritten
           \/ fileToken = NoToken /\ fileWritten' = FALSE
    PROVE  Claim' = Claim
  BY DEF Claim, Holding, Owned, FileExists

\* Writing the payload makes the worker's claim valid, or lost if the file was
\* taken away meanwhile.
LEMMA WriteEnters ==
    ASSUME LeaseInv, NEW w \in Workers, Write(w)
    PROVE  [Claims!Next]_Claim
<1> USE TokensAssumption DEF LeaseInv, TypeOK, Holding, Owned, FileExists
<1>0. token[w] # NoToken /\ ~Holding(w)
  BY DEF TokenHeld, Engaged, Write
<1>1. Claim[w] = "none"
  BY <1>0 DEF Claim
<1>2. \A v \in Workers : v # w => token[v] # token[w]
  BY <1>0 DEF TokensDistinct
<1>3. CASE fileToken = token[w]
  <2>1. \A v \in Workers : Claim[v] # "valid"
    BY <1>0, <1>2, <1>3 DEF Claim
  <2>2. \A v \in Workers : Claim'[v] = IF v = w THEN "valid" ELSE Claim[v]
    BY <1>0, <1>2, <1>3 DEF Claim, Write, Goto
  <2>3. Claim' = [Claim EXCEPT ![w] = "valid"]
    BY <2>2 DEF Claim
  <2>4. QED
    BY <1>1, <2>1, <2>3 DEF Claims!Next, Claims!Enter
<1>4. CASE fileToken # token[w]
  <2>1. \A v \in Workers : Claim'[v] = IF v = w THEN "lost" ELSE Claim[v]
    BY <1>0, <1>4 DEF Claim, Write, Goto
  <2>2. Claim' = [Claim EXCEPT ![w] = "lost"]
    BY <2>1 DEF Claim
  <2>3. QED
    BY <1>1, <2>2 DEF Claims!Next, Claims!EnterLate
<1>5. QED
  BY <1>3, <1>4

\* Steps of the heartbeat and of the clock leave every claim alone.
LEMMA ClaimUnchanged ==
    ASSUME pc' = pc, token' = token,
           fileToken' = fileToken, fileWritten' = fileWritten
    PROVE  Claim' = Claim
  BY DEF Claim, Holding, Owned, FileExists

\* Every step of the files is a step of the claims or a stutter.
LEMMA ClaimStep == LeaseInv /\ [Next]_vars => [Claims!Next]_Claim
<1> SUFFICES ASSUME LeaseInv, [Next]_vars PROVE [Claims!Next]_Claim
  OBVIOUS
<1> USE DEF fileVars, beatVars, history
<1>1. CASE Age
  BY <1>1, ClaimUnchanged DEF Age
<1>2. ASSUME NEW w \in Workers, AcquireStep(w) PROVE [Claims!Next]_Claim
  <2> USE DEF LeaseInv, TypeOK, Phases, Goto, NextAttempt, Holding, FileExists
  <2>1. CASE StartAcquire(w)
    BY <2>1, MovingStutters DEF StartAcquire
  <2>2. CASE Create(w)
    BY <2>2, MovingStutters DEF Create
  <2>3. CASE OpenExists(w)
    BY <2>3, MovingStutters DEF OpenExists
  <2>4. CASE Write(w)
    BY <2>4, WriteEnters
  <2>5. CASE WriteFails(w)
    BY <2>5, MovingStutters DEF WriteFails
  <2>6. CASE StatGone(w)
    BY <2>6, MovingStutters DEF StatGone
  <2>7. CASE StatLive(w)
    BY <2>7, MovingStutters DEF StatLive
  <2>8. CASE StatStale(w)
    BY <2>8, MovingStutters DEF StatStale
  <2>9. CASE Rename(w)
    BY <2>9, RemovalDisplaces DEF Rename
  <2>10. CASE RenameFails(w)
    BY <2>10, MovingStutters DEF RenameFails
  <2>11. QED
    BY <1>2, <2>1, <2>2, <2>3, <2>4, <2>5, <2>6, <2>7, <2>8, <2>9, <2>10
    DEF AcquireStep
<1>3. ASSUME NEW w \in Workers, BeatStep(w) PROVE [Claims!Next]_Claim
  BY <1>3, ClaimUnchanged DEF BeatStep, BeatOwned, BeatTouch, BeatMiss
<1>4. ASSUME NEW w \in Workers, ReleaseStep(w) PROVE [Claims!Next]_Claim
  <2> USE DEF LeaseInv, TypeOK, Phases
  <2>1. CASE ReleaseCheck(w)
    BY <2>1, LeavingLeaves DEF ReleaseCheck
  <2>2. CASE ReleaseSkip(w)
    BY <2>2, LeavingLeaves DEF ReleaseSkip
  <2>3. CASE ReleaseUnlink(w)
    BY <2>3, RemovalDisplaces DEF ReleaseUnlink, Goto, Holding
  <2>4. CASE ReleaseUnlinkFails(w)
    BY <2>4, LeavingLeaves DEF ReleaseUnlinkFails
  <2>5. QED
    BY <1>4, <2>1, <2>2, <2>3, <2>4 DEF ReleaseStep
<1>5. ASSUME NEW w \in Workers, Crash(w) PROVE [Claims!Next]_Claim
  BY <1>5, LeavingLeaves DEF Crash, LeaseInv, TypeOK, Phases
<1>6. CASE UNCHANGED vars
  BY <1>6, ClaimUnchanged DEF vars
<1>7. QED
  BY <1>1, <1>2, <1>3, <1>4, <1>5, <1>6 DEF Next

\* The lease file implements the fenced claim the durable jobs are built on:
\* at most one valid claim, and no lost claim ever becomes valid again.
THEOREM LeaseImplementsFencedClaim == Spec => ImplementsFencedClaim
<1>1. Init => Claims!Init
  BY DEF Init, Claims!Init, Claim, Holding
<1>2. QED
  BY InitLeaseInv, LeaseInvStep, ClaimStep, <1>1, PTL
  DEF Spec, ImplementsFencedClaim, Claims!Spec

=============================================================================
