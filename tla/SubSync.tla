------------------------------ MODULE SubSync ------------------------------
(***************************************************************************)
(* Refreshing subscriptions (internal/subsync/service.go) while handlers   *)
(* edit the repository.  A refresh reads the subscription, downloads it    *)
(* without a lock, and applies the result in up to seven critical sections *)
(* of the store, the last of which writes the row it has read at the start.*)
(* Refreshes run in handlers and in the auto updater, several at once, also*)
(* for one subscription.  Handlers that do a single critical section are   *)
(* actions of the store; POST and PUT of a subscription go on with a       *)
(* refresh by name, which is a refresh like any other.                     *)
(*                                                                         *)
(* What a provider answers is not modelled: any set of node names.         *)
(***************************************************************************)
EXTENDS SubscriptionStore

CONSTANT Refreshers  \* goroutines inside RefreshSubscription

VARIABLES
    pc, id,       \* where a refresh is, and the subscription it is for
    copy,         \* the subscription as it has read and filled it in
    nodes,        \* the nodes it has downloaded
    alone,        \* history: refreshes nothing else has written beside
    parts         \* history: what a refresh has stored of its download

refreshVars == <<pc, id, copy, nodes, alone, parts>>
vars == <<storeVars, refreshVars>>

Points == {"idle", "read", "fetch", "nodes", "cache", "groups", "groupsUpdate",
           "groupsCreate", "rules", "rulesUpdate", "rulesCreate", "finish", "fail"}
Parts == {"nodes", "cache", "groups", "rules"}

TypeOK ==
    /\ StoreTypeOK
    /\ pc \in [Refreshers -> Points]
    /\ id \in [Refreshers -> {None} \cup Names]
    /\ copy \in [Refreshers -> {None} \cup Subscription]
    /\ nodes \in [Refreshers -> SUBSET NodeNames]
    /\ alone \in SUBSET Refreshers
    /\ parts \in [Refreshers -> SUBSET Parts]

Init ==
    /\ StoreInit
    /\ pc = [r \in Refreshers |-> "idle"]
    /\ id = [r \in Refreshers |-> None]
    /\ copy = [r \in Refreshers |-> None]
    /\ nodes = [r \in Refreshers |-> {}]
    /\ alone = {}
    /\ parts = [r \in Refreshers |-> {}]

At(r, point) == pc[r] = point
Goto(r, point) ==
    /\ pc' = [pc EXCEPT ![r] = point]
    /\ UNCHANGED <<id, copy, nodes>>
Return(r) ==
    /\ pc' = [pc EXCEPT ![r] = "idle"]
    /\ id' = [id EXCEPT ![r] = None]
    /\ copy' = [copy EXCEPT ![r] = None]
    /\ nodes' = [nodes EXCEPT ![r] = {}]

\* A step that only reads or writes the store for r; the others are not alone then.
Reads(r) == UNCHANGED <<storeVars, alone>>
Writes(r) == alone' = alone \cap {r}

-----------------------------------------------------------------------------
(* RefreshSubscription *)

Refresh(r, n) ==
    /\ At(r, "idle")
    /\ pc' = [pc EXCEPT ![r] = "read"]
    /\ id' = [id EXCEPT ![r] = n]
    /\ alone' = alone \cup {r}
    /\ UNCHANGED <<storeVars, copy, nodes>>

Read(r) ==
    /\ At(r, "read")
    /\ IF subs[id[r]] = None
          THEN Return(r)
          ELSE /\ pc' = [pc EXCEPT ![r] = "fetch"]
               /\ copy' = [copy EXCEPT ![r] = subs[id[r]]]
               /\ UNCHANGED <<id, nodes>>
    /\ Reads(r)

\* The download and the parser succeed; the copy says so before anything is saved.
Fetched(r) ==
    /\ At(r, "fetch")
    /\ copy[r].source # None
    /\ pc' = [pc EXCEPT ![r] = "nodes"]
    /\ copy' = [copy EXCEPT ![r].synced = TRUE, ![r].failed = FALSE]
    /\ \E content \in SUBSET NodeNames : nodes' = [nodes EXCEPT ![r] = content]
    /\ UNCHANGED id
    /\ Reads(r)

FetchFails(r) ==
    /\ At(r, "fetch")
    /\ Goto(r, "fail")
    /\ Reads(r)

\* Mutant: the names are not checked.
SaveNodesMutant(r) ==
    /\ At(r, "nodes")
    /\ nodeSets' = [nodeSets EXCEPT ![id[r]] = nodes[r]]
    /\ unchecked' = unchecked \ {id[r]}
    /\ UNCHANGED <<subs, ruleSets, groupSets, profiles, cached>>
    /\ Goto(r, "cache")
    /\ Writes(r)

SaveNodes(r) ==
    /\ At(r, "nodes")
    /\ UpsertManagedNodeSet(id[r], nodes[r])
    /\ Goto(r, "cache")
    /\ Writes(r)

SaveCache(r) ==
    /\ At(r, "cache")
    /\ UpsertNodeCache(id[r], nodes[r])
    /\ Goto(r, "groups")
    /\ Writes(r)

\* upsertGroupSet reads, then updates or creates, without a lock in between.
GroupsRead(r) ==
    /\ At(r, "groups")
    /\ Goto(r, IF id[r] \in groupSets THEN "groupsUpdate" ELSE "groupsCreate")
    /\ Reads(r)

\* Mutant: it does not matter whether the row is still there.
GroupsUpdateMutant(r) ==
    /\ At(r, "groupsUpdate")
    /\ UNCHANGED storeVars
    /\ Goto(r, "rules")
    /\ Writes(r)

GroupsUpdate(r) ==
    /\ At(r, "groupsUpdate")
    /\ id[r] \in groupSets
    /\ UNCHANGED storeVars
    /\ Goto(r, "rules")
    /\ Writes(r)

\* Mutant: a group set is only ever updated.
GroupsCreateMutant(r) ==
    /\ At(r, "groupsCreate")
    /\ Goto(r, "rules")
    /\ Reads(r)

GroupsCreate(r) ==
    /\ At(r, "groupsCreate")
    /\ SaveGroupSet(id[r])
    /\ Goto(r, "rules")
    /\ Writes(r)

RulesRead(r) ==
    /\ At(r, "rules")
    /\ Goto(r, IF id[r] \in ruleSets THEN "rulesUpdate" ELSE "rulesCreate")
    /\ Reads(r)

RulesUpdate(r) ==
    /\ At(r, "rulesUpdate")
    /\ id[r] \in ruleSets
    /\ UNCHANGED storeVars
    /\ Goto(r, "finish")
    /\ Writes(r)

RulesCreate(r) ==
    /\ At(r, "rulesCreate")
    /\ SaveRuleSet(id[r])
    /\ Goto(r, "finish")
    /\ Writes(r)

\* Each of the saves may fail: the nodes because another node set uses one of the names,
\* or the download one twice, which a set of names does not show; an update because the
\* row was deleted since it was read; and any because of the database.
SaveFails(r) ==
    /\ pc[r] \in {"nodes", "cache", "groupsUpdate", "groupsCreate", "rulesUpdate", "rulesCreate"}
    /\ Goto(r, "fail")
    /\ Reads(r)

\* The last step of a refresh writes the copy (UpdateSubscription with the name it
\* has): the URL as it was read, the status it reached.  It fails only if the row is gone;
\* that the database fails there, too, when there is nowhere to record it, is left out.
Saved(r, failed) ==
    [source |-> Choose(copy[r].source, subs[id[r]].source),
     synced |-> copy[r].synced \/ subs[id[r]].synced,
     failed |-> failed]

\* Mutant: the row is written whether it is still there or not.
FinishMutant(r) ==
    /\ At(r, "finish")
    /\ subs' = [subs EXCEPT ![id[r]] = [copy[r] EXCEPT !.failed = FALSE]]
    /\ UNCHANGED <<nodeSets, ruleSets, groupSets, profiles, cached, unchecked>>
    /\ Return(r)
    /\ Writes(r)

Finish(r) ==
    /\ At(r, "finish")
    /\ \/ UpdateSubscription(id[r], id[r], Saved(r, FALSE))
       \/ subs[id[r]] = None /\ UNCHANGED storeVars
    /\ Return(r)
    /\ Writes(r)

\* markSyncFailure: after the download the copy already counts as synced.
MarkSyncFailure(r) ==
    /\ At(r, "fail")
    /\ \/ UpdateSubscription(id[r], id[r], Saved(r, TRUE))
       \/ subs[id[r]] = None /\ UNCHANGED storeVars
    /\ Return(r)
    /\ Writes(r)

RefreshStep(r) ==
    \/ Read(r) \/ Fetched(r) \/ FetchFails(r) \/ SaveNodes(r) \/ SaveCache(r)
    \/ GroupsRead(r) \/ GroupsUpdate(r) \/ GroupsCreate(r)
    \/ RulesRead(r) \/ RulesUpdate(r) \/ RulesCreate(r)
    \/ SaveFails(r) \/ Finish(r) \/ MarkSyncFailure(r)

-----------------------------------------------------------------------------
(* Handlers of one critical section *)

Edit ==
    \/ \E n \in Names, s \in Sources \cup {None} : CreateSubscription(n, s)
    \/ \E old, new \in Names, s \in Sources \cup {None} :
           UpdateSubscription(old, new, Edited(old, s))
    \/ \E n \in Names : DeleteSubscription(n)
    \/ \E n \in Names, content \in SUBSET NodeNames : UpsertManagedNodeSet(n, content)
    \/ \E old, new \in Names, content \in SUBSET NodeNames : SaveNodeSet(old, new, content)
    \/ \E n \in Names :
           DeleteNodeSet(n) \/ SaveRuleSet(n) \/ DeleteRuleSet(n)
           \/ SaveGroupSet(n) \/ DeleteGroupSet(n)
    \/ \E p \in Profiles, names \in SUBSET Names : SaveProfile(p, names)

Handler ==
    /\ Edit
    /\ alone' = {}
    /\ UNCHANGED <<pc, id, copy, nodes>>

Step ==
    \/ \E r \in Refreshers : (\E n \in Names : Refresh(r, n)) \/ RefreshStep(r)
    \/ Handler

\* The part that is in the store after the step of r that is to store it, whatever r takes
\* the outcome for.
StoredBy(r) ==
    {part \in Parts :
       LET n == id[r] IN
       \/ part = "nodes" /\ pc[r] = "nodes" /\ nodeSets'[n] = nodes[r]
       \/ part = "cache" /\ pc[r] = "cache" /\ cached'[n] = nodes[r]
       \/ part = "groups" /\ pc[r] \in {"groupsUpdate", "groupsCreate"} /\ n \in groupSets'
       \/ part = "rules" /\ pc[r] \in {"rulesUpdate", "rulesCreate"} /\ n \in ruleSets'}
Noted ==
    parts' = [r \in Refreshers |-> IF pc'[r] = pc[r] THEN parts[r]
                                  ELSE IF pc'[r] = "idle" THEN {}
                                  ELSE parts[r] \cup StoredBy(r)]

Next == Step /\ Noted

Spec == Init /\ [][Next]_vars

-----------------------------------------------------------------------------
(* Properties *)

\* A refresh under way has a name, and from the download on a copy.
RefreshHolds ==
    \A r \in Refreshers :
        /\ pc[r] # "idle" => id[r] \in Names
        /\ pc[r] \notin {"idle", "read"} => copy[r] \in Subscription

\* A subscription that leaves the repository, deleted or renamed, leaves every profile in
\* the same step: no reference to it becomes dangling, unless it was renamed and its node
\* set stays behind as well, because another set uses a name of one of its nodes.
DeletedIsDereferenced ==
    [][\A n \in Stored \ Stored' : \A p \in Profiles : n \in profiles'[p] =>
         /\ nodeSets'[n] # None
         /\ \E m \in Names \ {n} : nodeSets'[m] # None /\ nodeSets'[m] \cap nodeSets'[n] # {}]_vars

\* A node name belongs to one node set, so that a reference to it is unambiguous, but for
\* the names of sets that were last saved without the check of names.
NodeNamesUnique ==
    \A m, n \in Names \ unchecked :
        m # n /\ nodeSets[m] # None /\ nodeSets[n] # None =>
            nodeSets[m] \cap nodeSets[n] = {}

\* A refresh brings no subscription back that was deleted or renamed while it ran,
\* and removes none: whatever else it writes, the set of subscriptions is the user's.
RefreshKeepsSubscriptions ==
    [][(\E r \in Refreshers : RefreshStep(r)) => Stored' = Stored]_vars

\* A refresh that ran alone and succeeded leaves the whole of what it downloaded.
RefreshIsComplete ==
    [][\A r \in alone \cap Refreshers :
        pc[r] = "finish" /\ pc'[r] = "idle" =>
            LET n == id[r] IN
            /\ nodeSets[n] = nodes[r]
            /\ cached[n] = nodes[r]
            /\ n \in ruleSets \cap groupSets
            /\ subs'[n] = [copy[r] EXCEPT !.failed = FALSE]]_vars

\* A subscription whose refresh has returned has everything it downloaded stored, or says
\* that it failed: no error of a step is passed over, whatever deletes and saves happen
\* beside it (unless the subscription is gone).
FailureRecorded ==
    [][\A r \in Refreshers :
        pc[r] # "idle" /\ pc'[r] = "idle" /\ subs'[id[r]] # None =>
            parts[r] = Parts \/ subs'[id[r]].failed]_vars

\* A failure stays on record, whatever else of the subscription the user edits, until
\* a refresh succeeds or the row is replaced by a new or a renamed subscription.
FailureStays ==
    [][\A n \in Stored \cap Stored' :
        subs[n].failed /\ ~subs'[n].failed =>
            \/ \E r \in Refreshers : id[r] = n /\ pc[r] = "finish" /\ pc'[r] = "idle"
            \/ ~subs'[n].synced
            \/ Stored' # Stored]_vars
=============================================================================
