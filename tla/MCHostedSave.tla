---------------------------- MODULE MCHostedSave ----------------------------
(* Small instances of HostedSave for TLC. *)
EXTENDS HostedSave, TLC

CONSTANTS e1, e2, p1, r1, r2

\* One event of each of some kinds.
Mix(kinds) == [k \in FaultKinds |-> IF k \in kinds THEN 1 ELSE 0]
Events ==
    {Mix({"crash", "io"}), Mix({"crash", "displace"}), Mix({"delay"}),
     Mix({"rival", "crash"})}
NoEvent == {Mix({})}

\* A plan and its commit, beside a commit that nobody reviewed.
Reviewing == [r \in Requests |-> IF r = r1 THEN p1 ELSE NoRequest]
Unreviewed == [r \in Requests |-> NoRequest]

Symmetry == Permutations(Engines)
=============================================================================
