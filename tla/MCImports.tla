----------------------------- MODULE MCImports -----------------------------
(* Imports for TLC. *)
EXTENDS Imports, Naturals, FiniteSets, TLC

Symmetry == Permutations(NodeNames) \cup Permutations(Refreshers)

\* All but the history of node names, of which there is no property here.
Seen == <<subs, nodeSets, ruleSets, groupSets, profiles, cached, refreshVars, importVars>>

Busy == {r \in Refreshers : pc[r] # "idle"}

\* Two refreshes at once, or an import and a refresh.  After an import or a manual edit
\* has cached its nodes, which nothing reads or takes away, no refresh runs.
TwoAtOnce ==
    LET quiet == \A n \in Names : imported[n] = {}
    IN  Cardinality(Busy) <= IF ~quiet THEN 0 ELSE IF \A i \in Importers : at[i] = "idle" THEN 2 ELSE 1
=============================================================================
