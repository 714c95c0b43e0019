---------------------------- MODULE MCSupervisor ----------------------------
(* Supervisor for TLC: clients, cores and processes are interchangeable. *)
EXTENDS Supervisor, TLC

Symmetry ==
    Permutations(Clients) \cup Permutations(Cores) \cup Permutations(Procs)
=============================================================================
