-------------------------- MODULE MCSnapshotIndexing --------------------------
(* Values of the constants of SnapshotIndexing for TLC. *)
EXTENDS SnapshotIndexing, TLC

CONSTANTS p1, p2, r1, r2, c1, c2

\* Which process answers which request.
OneEach     == (r1 :> p1) @@ (r2 :> p2)
OneEachP1   == (r1 :> p1)

\* Versions of the rules: one build, or an older one beside newer ones.
SameRules   == [p \in Process |-> 1]
OldAndNew   == (p1 :> 1) @@ (p2 :> 2)

\* The lowest versions they can serve.
FloorOne    == [p \in Process |-> 1]

\* The commit a ref was at before.
NoPrevious  == [c \in Commit |-> None]
Moved       == (c1 :> None) @@ (c2 :> c1)

Symmetry == Permutations(Owner) \union Permutations(Snapshot)
=============================================================================
