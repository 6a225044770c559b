----------------------- MODULE MCDependentPropagation -----------------------
(* Small instances of DependentPropagation for TLC. *)
EXTENDS DependentPropagation, TLC

CONSTANTS w1, w2, r1, r2, x1, x2

Bound(crash, displace, io, walk, slow) ==
    [crash |-> crash, displace |-> displace, io |-> io, walk |-> walk, slow |-> slow]

\* Faults of every kind, within MaxTotal.
AnyFault == Bound(2, 1, 1, 1, 1)
NoFault == Bound(0, 0, 0, 0, 0)

\* Both saves change x1, one of them also x2.
OverlappingRoots == (r1 :> {x1}) @@ (r2 :> {x1, x2})

Symmetry == Permutations(Workers)
=============================================================================
