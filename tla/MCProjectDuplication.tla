------------------------ MODULE MCProjectDuplication ------------------------
(* Small instances of ProjectDuplication for TLC. *)
EXTENDS ProjectDuplication, TLC

CONSTANTS w1, w2, r1, r2, f1, f2

Bound(crash, displace, io, cancels, sourceEdit, targetEdit) ==
    [crash |-> crash, displace |-> displace, io |-> io, cancel |-> cancels,
     sourceEdit |-> sourceEdit, targetEdit |-> targetEdit]

\* Two requests for one target: workers die, calls fail, the source changes twice (a
\* copy that mixes two versions needs an edit of each file), users cancel and edit.
RivalFaults == Bound(2, 0, 2, 1, 2, 1)
\* One request: a worker dies, a live one loses its lease, a call fails, a user
\* edits the new project.
MixedFaults == Bound(1, 1, 1, 0, 0, 1)
\* Only the lease is lost.
DisplaceFaults == Bound(0, 1, 0, 0, 0, 0)

Symmetry == Permutations(Workers) \cup Permutations(Files) \cup Permutations(Requests)
=============================================================================
