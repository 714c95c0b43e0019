----------------------------- MODULE MCSubSync -----------------------------
(* SubSync for TLC: names, node names and refreshes are interchangeable. *)
EXTENDS SubSync, TLC

Symmetry ==
    Permutations(Names) \cup Permutations(NodeNames) \cup Permutations(Refreshers)

\* What the steps and the properties of this run depend on: all but the cached nodes, which
\* nothing reads, and the histories of other properties.
Seen == <<subs, nodeSets, ruleSets, groupSets, profiles, unchecked, pc, id, copy, nodes>>
=============================================================================
