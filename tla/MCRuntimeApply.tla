--------------------------- MODULE MCRuntimeApply ---------------------------
(* RuntimeApply for TLC: requests, cores and processes are interchangeable. *)
EXTENDS RuntimeApply, FiniteSets, TLC

VARIABLE overlap     \* history: two requests have been under way at once

Busy == {c \in Clients : stage[c] # "none"}
MCInit == ApplyInit /\ overlap = FALSE
MCNext == ApplyNext /\ overlap' = (overlap \/ Cardinality(Busy') > 1)
MCSpec == MCInit /\ [][MCNext]_<<allVars, overlap>>

Symmetry == Permutations(Clients) \cup Permutations(Cores) \cup Permutations(Procs)

\* Edits of the configuration, ends of the server and requests beside a request are explored
\* one at a time; the latter for one core, and not two in the supervisor.
OneOfAll ==
    /\ boots + edits <= 1
    /\ boots = 1 => \A e \in Editors : draft[e] = NoPlan
    /\ overlap =>
         /\ boots = 0
         /\ \A e \in Editors : draft[e] = NoPlan
         /\ \A k \in Cores \ {selected} : file[k] = Absent
         /\ Cardinality({c \in Clients : pc[c] # "idle"}) <= 1
         /\ Cardinality({p \in Procs : proc[p] # "unused"}) + edits <= 2
=============================================================================
