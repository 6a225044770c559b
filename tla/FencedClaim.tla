----------------------------- MODULE FencedClaim -----------------------------
(***************************************************************************)
(* What a lease promises to the durable jobs that take it, without any     *)
(* file: every worker has a claim that is absent, valid or lost.  A claim  *)
(* becomes valid only when no other claim is, and a claim that was lost is *)
(* never valid again: its holder can only give it up.                      *)
(*                                                                         *)
(* The lease does NOT promise that a holder knows that it lost its claim,  *)
(* which is why every consumer re-reads the owner token before it writes.  *)
(* EngineJobLease implements this specification, and ProjectDuplication,   *)
(* DependentPropagation and HostedSave are proved to use no more than it.  *)
(***************************************************************************)

CONSTANT Workers

VARIABLE claim

ClaimState == {"none", "valid", "lost"}

Init == claim = [w \in Workers |-> "none"]

Enter(w) ==
    /\ claim[w] = "none"
    /\ \A v \in Workers : claim[v] # "valid"
    /\ claim' = [claim EXCEPT ![w] = "valid"]

\* The file disappeared between its creation and the end of the acquire call.
EnterLate(w) ==
    /\ claim[w] = "none"
    /\ claim' = [claim EXCEPT ![w] = "lost"]

Displace(w) ==
    /\ claim[w] = "valid"
    /\ claim' = [claim EXCEPT ![w] = "lost"]

Leave(w) ==
    /\ claim[w] # "none"
    /\ claim' = [claim EXCEPT ![w] = "none"]

Next == \E w \in Workers : Enter(w) \/ EnterLate(w) \/ Displace(w) \/ Leave(w)

Spec == Init /\ [][Next]_claim
=============================================================================
