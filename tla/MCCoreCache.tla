---------------------------- MODULE MCCoreCache ----------------------------
(* CoreCache for TLC: two releases, the second of which sorts before the first. *)
EXTENDS CoreCache, TLC

Symmetry == Permutations(Clients)

MCByName == <<"embedded", "local", "v1.10", "v1.9">>
MCReleases == <<"v1.9", "v1.10">>
=============================================================================
