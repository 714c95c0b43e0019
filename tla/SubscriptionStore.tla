-------------------------- MODULE SubscriptionStore --------------------------
(***************************************************************************)
(* Subscriptions and what is derived from them, as the repository store    *)
(* keeps them (internal/repository/store.go, node_cache.go).  Every action *)
(* is one critical section of Store.mu.                                    *)
(*                                                                         *)
(* A resource is a row keyed by kind and name: the ID of a subscription    *)
(* and of a node, rule or group set is its name, and the sets derived from *)
(* a subscription have the name of the subscription.  A node set is        *)
(* abstracted to the names of its nodes; rule and group sets to the fact   *)
(* that they exist.  LastSyncedAt is abstracted to whether it is set: a    *)
(* new time differs from every stored one.                                 *)
(***************************************************************************)
CONSTANTS
    Names,        \* names of subscriptions and of sets
    NodeNames,    \* names (tags) of nodes
    Sources,      \* subscription URLs
    Profiles,     \* identities of profiles
    None          \* no row, no URL

VARIABLES
    subs,         \* the subscription rows
    nodeSets,     \* the node set rows, managed or not: they share one table
    ruleSets,     \* names of the routing rule sets
    groupSets,    \* names of the group sets
    profiles,     \* SubscriptionIDs of each profile
    cached,       \* node_cache_sources rows of subscriptions
    unchecked     \* history: node sets that were last saved without the check of names

storeVars == <<subs, nodeSets, ruleSets, groupSets, profiles, cached, unchecked>>

Subscription == [source : Sources \cup {None}, synced : BOOLEAN, failed : BOOLEAN]

ASSUME NoneIsNoRow == None \notin Subscription

StoreTypeOK ==
    /\ subs \in [Names -> {None} \cup Subscription]
    /\ nodeSets \in [Names -> {None} \cup SUBSET NodeNames]
    /\ ruleSets \in SUBSET Names
    /\ groupSets \in SUBSET Names
    /\ profiles \in [Profiles -> SUBSET Names]
    /\ cached \in [Names -> SUBSET NodeNames]
    /\ unchecked \in SUBSET Names

StoreInit ==
    /\ subs = [n \in Names |-> None]
    /\ nodeSets = [n \in Names |-> None]
    /\ ruleSets = {}
    /\ groupSets = {}
    /\ profiles = [p \in Profiles |-> {}]
    /\ cached = [n \in Names |-> {}]
    /\ unchecked = {}

Stored == {n \in Names : subs[n] # None}

\* chooseString: an empty input keeps the current value.
Choose(input, current) == IF input # None THEN input ELSE current

-----------------------------------------------------------------------------
(* Node sets *)

\* validateManagedNodeSetNames: no other node set uses a name of this one.
NamesFree(rows, n, nodes) ==
    \A m \in Names \ {n} : rows[m] # None => rows[m] \cap nodes = {}

\* UpsertManagedNodeSet, also used for manual nodes.
UpsertManagedNodeSet(n, nodes) ==
    /\ NamesFree(nodeSets, n, nodes)
    /\ nodeSets' = [nodeSets EXCEPT ![n] = nodes]
    /\ unchecked' = unchecked \ {n}
    /\ UNCHANGED <<subs, ruleSets, groupSets, profiles, cached>>

\* CreateNodeSet (also the import of node links) and UpdateNodeSet check no names.
SaveNodeSet(old, new, nodes) ==
    /\ nodeSets' = [nodeSets EXCEPT ![old] = None, ![new] = nodes]
    /\ unchecked' = (unchecked \ {old}) \cup {new}
    /\ UNCHANGED <<subs, ruleSets, groupSets, profiles, cached>>

DeleteNodeSet(n) ==
    /\ nodeSets[n] # None
    /\ nodeSets' = [nodeSets EXCEPT ![n] = None]
    /\ unchecked' = unchecked \ {n}
    /\ UNCHANGED <<subs, ruleSets, groupSets, profiles, cached>>

\* renameManagedNodeSetLocked: a missing row is no error for its caller, a name
\* used by a third node set is.
RenameFails(old, new) ==
    /\ nodeSets[old] # None
    /\ ~NamesFree([nodeSets EXCEPT ![old] = None], new, nodeSets[old])

RenamedNodeSets(old, new) ==
    IF nodeSets[old] = None
       THEN nodeSets
       ELSE [nodeSets EXCEPT ![old] = None, ![new] = nodeSets[old]]

-----------------------------------------------------------------------------
(* Rule sets and group sets, created, renamed or deleted by hand *)

SaveRuleSet(n) ==
    /\ ruleSets' = ruleSets \cup {n}
    /\ UNCHANGED <<subs, nodeSets, groupSets, profiles, cached, unchecked>>

DeleteRuleSet(n) ==
    /\ n \in ruleSets
    /\ ruleSets' = ruleSets \ {n}
    /\ UNCHANGED <<subs, nodeSets, groupSets, profiles, cached, unchecked>>

SaveGroupSet(n) ==
    /\ groupSets' = groupSets \cup {n}
    /\ UNCHANGED <<subs, nodeSets, ruleSets, profiles, cached, unchecked>>

DeleteGroupSet(n) ==
    /\ n \in groupSets
    /\ groupSets' = groupSets \ {n}
    /\ UNCHANGED <<subs, nodeSets, ruleSets, profiles, cached, unchecked>>

-----------------------------------------------------------------------------
(* Profiles *)

\* CreateProfile and UpdateProfile store whatever names they are given.
SaveProfile(p, names) ==
    /\ profiles' = [profiles EXCEPT ![p] = names]
    /\ UNCHANGED <<subs, nodeSets, ruleSets, groupSets, cached, unchecked>>

-----------------------------------------------------------------------------
(* Subscriptions *)

\* An upsert: a subscription that has the name is replaced.
CreateSubscription(n, source) ==
    /\ subs' = [subs EXCEPT ![n] = [source |-> source, synced |-> FALSE, failed |-> FALSE]]
    /\ UNCHANGED <<nodeSets, ruleSets, groupSets, profiles, cached, unchecked>>

\* The row is written under its new name and the old row deleted; then the node
\* set and the references of the profiles are renamed.  These are statements of
\* their own: if the node set cannot be renamed, the subscription already is.
\* Rule set, group set and cached nodes keep the old name.
UpdateSubscription(old, new, item) ==
    /\ subs[old] # None
    /\ subs' = [subs EXCEPT ![old] = None, ![new] = item]
    /\ IF old = new \/ RenameFails(old, new)
          THEN UNCHANGED <<nodeSets, profiles, unchecked>>
          ELSE /\ nodeSets' = RenamedNodeSets(old, new)
               /\ unchecked' = IF nodeSets[old] = None THEN unchecked ELSE unchecked \ {old, new}
               /\ profiles' = [p \in Profiles |->
                      {IF n = old THEN new ELSE n : n \in profiles[p]}]
    /\ UNCHANGED <<ruleSets, groupSets, cached>>

\* Mutant: an empty sync status is stored as it is.
EditedMutant(n, source) ==
    [subs[n] EXCEPT !.source = Choose(source, subs[n].source), !.failed = FALSE]

\* What a PUT makes of the row: an empty URL and an empty sync status keep what is
\* stored (normalizeSubscription).  A PUT that carries a sync status is left out.
Edited(n, source) == [subs[n] EXCEPT !.source = Choose(source, subs[n].source)]

\* Mutant: the profiles are left as they are.
DeleteSubscriptionMutant(n) ==
    /\ subs[n] # None
    /\ subs' = [subs EXCEPT ![n] = None]
    /\ nodeSets' = [nodeSets EXCEPT ![n] = None]
    /\ unchecked' = unchecked \ {n}
    /\ ruleSets' = ruleSets \ {n}
    /\ groupSets' = groupSets \ {n}
    /\ UNCHANGED <<profiles, cached>>

DeleteSubscription(n) ==
    /\ subs[n] # None
    /\ subs' = [subs EXCEPT ![n] = None]
    /\ nodeSets' = [nodeSets EXCEPT ![n] = None]
    /\ unchecked' = unchecked \ {n}
    /\ ruleSets' = ruleSets \ {n}
    /\ groupSets' = groupSets \ {n}
    /\ profiles' = [p \in Profiles |-> profiles[p] \ {n}]
    /\ UNCHANGED cached

\* UpsertNodeCache for a subscription: its rows are replaced in one transaction.
UpsertNodeCache(n, nodes) ==
    /\ cached' = [cached EXCEPT ![n] = nodes]
    /\ UNCHANGED <<subs, nodeSets, ruleSets, groupSets, profiles, unchecked>>
=============================================================================
