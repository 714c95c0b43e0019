--------------------------- MODULE SubSyncProofs ---------------------------
(***************************************************************************)
(* Proofs about SubSync for every number of subscriptions, nodes, profiles *)
(* and refreshes at once.  IInv is inductive; NodeNamesUnique is inductive *)
(* with it, as unchecked tells which node sets it is not about.            *)
(* DeletedIsDereferenced and FailureStays need the types only.             *)
(***************************************************************************)
EXTENDS SubSync, TLAPS

IInv == TypeOK /\ RefreshHolds

\* The part of it that says nothing of the histories; it holds beside imports, too, which
\* can also be alone.
Holds ==
    /\ StoreTypeOK
    /\ pc \in [Refreshers -> Points]
    /\ id \in [Refreshers -> {None} \cup Names]
    /\ copy \in [Refreshers -> {None} \cup Subscription]
    /\ nodes \in [Refreshers -> SUBSET NodeNames]
    /\ RefreshHolds

\* The invariant in two parts.
LEMMA IInvHolds ==
  IInv <=> Holds /\ alone \in SUBSET Refreshers /\ parts \in [Refreshers -> SUBSET Parts]
  BY DEF IInv, TypeOK, Holds

\* What the store does for a handler keeps the types of the store.
LEMMA EditType == StoreTypeOK /\ Edit => StoreTypeOK'
<1> SUFFICES ASSUME StoreTypeOK, Edit PROVE StoreTypeOK'
  OBVIOUS
<1> USE DEF StoreTypeOK, Subscription
<1>1. ASSUME NEW n \in Names, NEW s \in Sources \cup {None}, CreateSubscription(n, s)
      PROVE StoreTypeOK'
  BY <1>1 DEF CreateSubscription
<1>2. ASSUME NEW old \in Names, NEW new \in Names, NEW s \in Sources \cup {None},
             UpdateSubscription(old, new, Edited(old, s))
      PROVE StoreTypeOK'
  <2>1. subs[old] \in Subscription
    BY <1>2 DEF UpdateSubscription
  <2>2. Edited(old, s) \in Subscription
    BY <2>1 DEF Edited, Choose
  <2>3. RenamedNodeSets(old, new) \in [Names -> {None} \cup SUBSET NodeNames]
    BY DEF RenamedNodeSets
  <2> QED
    BY <1>2, <2>2, <2>3 DEF UpdateSubscription
<1>3. ASSUME NEW n \in Names, DeleteSubscription(n) PROVE StoreTypeOK'
  BY <1>3 DEF DeleteSubscription
<1>4. ASSUME NEW n \in Names, NEW content \in SUBSET NodeNames,
             UpsertManagedNodeSet(n, content)
      PROVE StoreTypeOK'
  BY <1>4 DEF UpsertManagedNodeSet
<1>5. ASSUME NEW old \in Names, NEW new \in Names, NEW content \in SUBSET NodeNames,
             SaveNodeSet(old, new, content)
      PROVE StoreTypeOK'
  BY <1>5 DEF SaveNodeSet
<1>6. ASSUME NEW n \in Names,
             \/ DeleteNodeSet(n) \/ SaveRuleSet(n) \/ DeleteRuleSet(n)
             \/ SaveGroupSet(n) \/ DeleteGroupSet(n)
      PROVE StoreTypeOK'
  BY <1>6 DEF DeleteNodeSet, SaveRuleSet, DeleteRuleSet, SaveGroupSet, DeleteGroupSet
<1>7. ASSUME NEW p \in Profiles, NEW names \in SUBSET Names, SaveProfile(p, names)
      PROVE StoreTypeOK'
  BY <1>7 DEF SaveProfile
<1> QED
  BY <1>1, <1>2, <1>3, <1>4, <1>5, <1>6, <1>7 DEF Edit

\* What a refresh writes back is a subscription.
LEMMA SavedType ==
  ASSUME Holds, NEW r \in Refreshers, pc[r] \in {"finish", "fail"},
         subs[id[r]] # None, NEW failed \in BOOLEAN
  PROVE  Saved(r, failed) \in Subscription
BY DEF Holds, StoreTypeOK, RefreshHolds, Subscription, Saved, Choose

\* Each step of a refresh, and each handler, keeps the types, and a refresh keeps
\* hold of what it has read.
LEMMA HoldsNext == Holds /\ [Next]_vars => Holds'
<1> SUFFICES ASSUME Holds, [Next]_vars PROVE Holds'
  OBVIOUS
<1> USE DEF Holds, RefreshHolds, Points, At, Goto, Return, Reads, Writes
<1>1. ASSUME NEW r \in Refreshers, NEW n \in Names, Refresh(r, n) PROVE Holds'
  BY <1>1 DEF Refresh, storeVars, StoreTypeOK
<1>2. ASSUME NEW r \in Refreshers, Read(r) PROVE Holds'
  BY <1>2 DEF Read, storeVars, StoreTypeOK
<1>3. ASSUME NEW r \in Refreshers, Fetched(r) PROVE Holds'
  <2>1. StoreTypeOK'
    BY <1>3 DEF Fetched, storeVars, StoreTypeOK
  <2>2. copy[r] \in Subscription
    BY <1>3 DEF Fetched
  <2>3. [copy[r] EXCEPT !.synced = TRUE, !.failed = FALSE] \in Subscription
    BY <2>2 DEF Subscription
  <2>4. copy' = [copy EXCEPT ![r] = [copy[r] EXCEPT !.synced = TRUE, !.failed = FALSE]]
    BY <1>3 DEF Fetched
  <2> QED
    BY <1>3, <2>1, <2>3, <2>4 DEF Fetched
<1>4. ASSUME NEW r \in Refreshers,
             FetchFails(r) \/ GroupsRead(r) \/ RulesRead(r) \/ SaveFails(r) PROVE Holds'
  BY <1>4 DEF FetchFails, GroupsRead, RulesRead, SaveFails, storeVars, StoreTypeOK
<1>5. ASSUME NEW r \in Refreshers, SaveNodes(r) PROVE Holds'
  BY <1>5 DEF SaveNodes, UpsertManagedNodeSet, storeVars, StoreTypeOK
<1>6. ASSUME NEW r \in Refreshers, SaveCache(r) PROVE Holds'
  BY <1>6 DEF SaveCache, UpsertNodeCache, StoreTypeOK
<1>7. ASSUME NEW r \in Refreshers, GroupsUpdate(r) \/ RulesUpdate(r) PROVE Holds'
  BY <1>7 DEF GroupsUpdate, RulesUpdate, storeVars, StoreTypeOK
<1>8. ASSUME NEW r \in Refreshers, GroupsCreate(r) \/ RulesCreate(r) PROVE Holds'
  BY <1>8 DEF GroupsCreate, RulesCreate, SaveGroupSet, SaveRuleSet, StoreTypeOK
<1>9. ASSUME NEW r \in Refreshers, Finish(r) \/ MarkSyncFailure(r) PROVE Holds'
  <2>1. pc[r] \in {"finish", "fail"} /\ id[r] \in Names
    BY <1>9 DEF Finish, MarkSyncFailure
  <2>2. StoreTypeOK'
    <3>1. CASE UNCHANGED storeVars
      BY <3>1 DEF storeVars, StoreTypeOK
    <3>2. ASSUME NEW failed \in BOOLEAN,
                 UpdateSubscription(id[r], id[r], Saved(r, failed))
          PROVE StoreTypeOK'
      <4>1. Saved(r, failed) \in Subscription
        BY <2>1, <3>2, SavedType DEF UpdateSubscription
      <4> QED
        BY <2>1, <3>2, <4>1 DEF UpdateSubscription, StoreTypeOK
    <3> QED
      BY <1>9, <3>1, <3>2 DEF Finish, MarkSyncFailure
  <2> QED
    BY <1>9, <2>2 DEF Finish, MarkSyncFailure
<1>10. CASE Handler
  <2>1. StoreTypeOK'
    BY <1>10, EditType DEF Handler
  <2> QED
    BY <1>10, <2>1 DEF Handler
<1>11. CASE UNCHANGED vars
  BY <1>11 DEF vars, storeVars, refreshVars, StoreTypeOK
<1> QED
  BY <1>1, <1>2, <1>3, <1>4, <1>5, <1>6, <1>7, <1>8, <1>9, <1>10, <1>11
  DEF Next, Step, RefreshStep

\* Of the refreshes of SubSync only refreshes are alone.
LEMMA IInvNext == IInv /\ [Next]_vars => IInv'
<1> SUFFICES ASSUME IInv, [Next]_vars PROVE IInv'
  OBVIOUS
<1>1. Holds'
  BY HoldsNext, IInvHolds
<1>2. alone' \in SUBSET Refreshers
  BY DEF IInv, TypeOK, Next, Step, vars, refreshVars, RefreshStep, Handler, Refresh, Read, Fetched,
     FetchFails, SaveNodes, SaveCache, GroupsRead, GroupsUpdate, GroupsCreate, RulesRead,
     RulesUpdate, RulesCreate, SaveFails, Finish, MarkSyncFailure, Reads, Writes
<1>3. parts' \in [Refreshers -> SUBSET Parts]
  <2>1. \A r \in Refreshers : StoredBy(r) \in SUBSET Parts
    BY DEF StoredBy
  <2> QED
    BY <2>1 DEF IInv, TypeOK, Next, Noted, vars, refreshVars
<1> QED
  BY <1>1, <1>2, <1>3 DEF IInv, TypeOK, Holds, RefreshHolds

\* What a refresh under way holds is there, in every state.
THEOREM IInvCorrect == Spec => []IInv
<1>1. Init => IInv
  BY DEF Init, StoreInit, IInv, TypeOK, StoreTypeOK, RefreshHolds, Points
<1> QED
  BY <1>1, IInvNext, PTL DEF Spec

\* Type correctness of SubSync.
THEOREM TypeCorrect == Spec => []TypeOK
BY IInvCorrect, PTL DEF IInv

-----------------------------------------------------------------------------

\* How a step may change the node set rows: it saves one whose names are free, removes one,
\* saves one without the check, or renames one whose names are free (under a name that may
\* have a row).
NodeSetStep ==
    \/ UNCHANGED <<nodeSets, unchecked>>
    \/ \E n \in Names, content \in SUBSET NodeNames :
           /\ NamesFree(nodeSets, n, content)
           /\ nodeSets' = [nodeSets EXCEPT ![n] = content]
           /\ unchecked' = unchecked \ {n}
    \/ \E n \in Names :
           nodeSets' = [nodeSets EXCEPT ![n] = None] /\ unchecked' = unchecked \ {n}
    \/ \E old, new \in Names, content \in SUBSET NodeNames :
           /\ nodeSets' = [nodeSets EXCEPT ![old] = None, ![new] = content]
           /\ unchecked' = (unchecked \ {old}) \cup {new}
    \/ \E old, new \in Names :
           /\ ~RenameFails(old, new)
           /\ nodeSets' = RenamedNodeSets(old, new)
           /\ unchecked' = IF nodeSets[old] = None THEN unchecked ELSE unchecked \ {old, new}

\* Such a change keeps the names unique.
LEMMA NodeSetStepUnique ==
  StoreTypeOK /\ NodeNamesUnique /\ NodeSetStep => NodeNamesUnique'
<1> SUFFICES ASSUME StoreTypeOK, NodeNamesUnique, NodeSetStep PROVE NodeNamesUnique'
  OBVIOUS
<1> USE DEF StoreTypeOK, NodeNamesUnique
<1>1. CASE UNCHANGED <<nodeSets, unchecked>>
  BY <1>1
<1>2. ASSUME NEW n \in Names, NEW content \in SUBSET NodeNames,
             NamesFree(nodeSets, n, content), nodeSets' = [nodeSets EXCEPT ![n] = content],
             unchecked' = unchecked \ {n}
      PROVE NodeNamesUnique'
  BY <1>2 DEF NamesFree
<1>3. ASSUME NEW n \in Names, nodeSets' = [nodeSets EXCEPT ![n] = None],
             unchecked' = unchecked \ {n}
      PROVE NodeNamesUnique'
  BY <1>3
<1>4. ASSUME NEW old \in Names, NEW new \in Names, NEW content \in SUBSET NodeNames,
             nodeSets' = [nodeSets EXCEPT ![old] = None, ![new] = content],
             unchecked' = (unchecked \ {old}) \cup {new}
      PROVE NodeNamesUnique'
  BY <1>4
<1>5. ASSUME NEW old \in Names, NEW new \in Names, ~RenameFails(old, new),
             nodeSets' = RenamedNodeSets(old, new),
             unchecked' = IF nodeSets[old] = None THEN unchecked ELSE unchecked \ {old, new}
      PROVE NodeNamesUnique'
  <2>1. CASE nodeSets[old] = None
    BY <1>5, <2>1 DEF RenamedNodeSets
  <2>2. CASE nodeSets[old] # None
    <3>1. \A m \in Names \ {old, new} : nodeSets[m] # None => nodeSets[m] \cap nodeSets[old] = {}
      BY <1>5, <2>2 DEF RenameFails, NamesFree
    <3>2. /\ nodeSets' = [nodeSets EXCEPT ![old] = None, ![new] = nodeSets[old]]
          /\ unchecked' = unchecked \ {old, new}
      BY <1>5, <2>2 DEF RenamedNodeSets
    <3> QED
      BY <3>1, <3>2
  <2> QED
    BY <2>1, <2>2
<1> QED
  BY <1>1, <1>2, <1>3, <1>4, <1>5 DEF NodeSetStep

\* Every step changes the node sets in one of these ways.
LEMMA NextIsNodeSetStep == IInv /\ [Next]_vars => NodeSetStep
<1> SUFFICES ASSUME IInv, [Next]_vars PROVE NodeSetStep
  OBVIOUS
<1> USE DEF NodeSetStep
<1>1. ASSUME NEW r \in Refreshers,
             \/ \E n \in Names : Refresh(r, n)
             \/ Read(r) \/ Fetched(r) \/ FetchFails(r) \/ SaveCache(r)
             \/ GroupsRead(r) \/ GroupsUpdate(r) \/ GroupsCreate(r)
             \/ RulesRead(r) \/ RulesUpdate(r) \/ RulesCreate(r)
             \/ SaveFails(r) \/ Finish(r) \/ MarkSyncFailure(r)
      PROVE UNCHANGED <<nodeSets, unchecked>>
  BY <1>1 DEF Refresh, Read, Fetched, FetchFails, SaveCache, GroupsRead, GroupsUpdate,
     GroupsCreate, RulesRead, RulesUpdate, RulesCreate, SaveFails, Finish, MarkSyncFailure, Reads,
     UpsertNodeCache, SaveGroupSet, SaveRuleSet, UpdateSubscription, storeVars
<1>2. ASSUME NEW r \in Refreshers, SaveNodes(r) PROVE NodeSetStep
  <2>1. id[r] \in Names /\ nodes[r] \in SUBSET NodeNames
    BY <1>2 DEF SaveNodes, At, IInv, TypeOK, RefreshHolds
  <2> QED
    BY <1>2, <2>1 DEF SaveNodes, UpsertManagedNodeSet
<1>3. CASE Handler
  <2>1. ASSUME NEW old \in Names, NEW new \in Names, NEW item, UpdateSubscription(old, new, item)
        PROVE NodeSetStep
    BY <2>1 DEF UpdateSubscription
  <2> QED
    BY <1>3, <2>1 DEF Handler, Edit, CreateSubscription, DeleteSubscription,
       UpsertManagedNodeSet, SaveNodeSet, DeleteNodeSet, SaveRuleSet, DeleteRuleSet,
       SaveGroupSet, DeleteGroupSet, SaveProfile
<1>4. CASE UNCHANGED vars
  BY <1>4 DEF vars, storeVars
<1> QED
  BY <1>1, <1>2, <1>3, <1>4 DEF Next, Step, RefreshStep

\* Whatever refreshes and handlers overlap, a node name that two sets use is one of a set
\* that was last saved without validateManagedNodeSetNames.
THEOREM NamesStayUnique == Spec => []NodeNamesUnique
<1>1. Init => NodeNamesUnique
  BY DEF Init, StoreInit, NodeNamesUnique
<1>2. IInv /\ NodeNamesUnique /\ [Next]_vars => NodeNamesUnique'
  BY NextIsNodeSetStep, NodeSetStepUnique DEF IInv, TypeOK
<1> QED
  BY <1>1, <1>2, IInvCorrect, PTL DEF Spec

-----------------------------------------------------------------------------

\* What keeps a node set from being renamed: another set uses one of its names.
LEMMA ClashOfNames ==
  ASSUME StoreTypeOK, NEW old \in Names, NEW new \in Names, RenameFails(old, new)
  PROVE  /\ nodeSets[old] # None
         /\ \E m \in Names \ {old} : nodeSets[m] # None /\ nodeSets[m] \cap nodeSets[old] # {}
<1>1. PICK m \in Names \ {new} :
        [nodeSets EXCEPT ![old] = None][m] # None
        /\ [nodeSets EXCEPT ![old] = None][m] \cap nodeSets[old] # {}
  BY DEF RenameFails, NamesFree
<1>2. m # old /\ [nodeSets EXCEPT ![old] = None][m] = nodeSets[m]
  BY <1>1 DEF StoreTypeOK
<1> QED
  BY <1>1, <1>2 DEF RenameFails

\* Only handlers of POST, PUT and DELETE change which subscriptions are stored; a
\* step of a refresh writes the row of a subscription that is there.
LEMMA RefreshStepKeeps ==
  ASSUME Holds, NEW r \in Refreshers, RefreshStep(r)
  PROVE  Stored' = Stored
<1>1. CASE \/ Read(r) \/ Fetched(r) \/ FetchFails(r) \/ SaveNodes(r) \/ SaveCache(r)
           \/ GroupsRead(r) \/ GroupsUpdate(r) \/ GroupsCreate(r)
           \/ RulesRead(r) \/ RulesUpdate(r) \/ RulesCreate(r) \/ SaveFails(r)
  BY <1>1 DEF Read, Fetched, FetchFails, SaveNodes, SaveCache, GroupsRead, GroupsUpdate,
     GroupsCreate, RulesRead, RulesUpdate, RulesCreate, SaveFails, Reads, UpsertManagedNodeSet,
     UpsertNodeCache, SaveGroupSet, SaveRuleSet, storeVars, Stored
<1>2. CASE Finish(r) \/ MarkSyncFailure(r)
  <2>1. pc[r] \in {"finish", "fail"} /\ id[r] \in Names
    BY <1>2 DEF Finish, MarkSyncFailure, At, Holds, RefreshHolds
  <2>2. CASE UNCHANGED storeVars
    BY <2>2 DEF storeVars, Stored
  <2>3. ASSUME NEW failed \in BOOLEAN, UpdateSubscription(id[r], id[r], Saved(r, failed))
        PROVE Stored' = Stored
    <3>1. subs[id[r]] # None /\ subs' = [subs EXCEPT ![id[r]] = Saved(r, failed)]
      BY <2>1, <2>3 DEF UpdateSubscription, Holds, StoreTypeOK
    <3>2. Saved(r, failed) # None
      BY <2>1, <3>1, SavedType, NoneIsNoRow
    <3> QED
      BY <2>1, <3>1, <3>2 DEF Stored, Holds, StoreTypeOK
  <2> QED
    BY <1>2, <2>2, <2>3 DEF Finish, MarkSyncFailure
<1> QED
  BY <1>1, <1>2 DEF RefreshStep

\* A refresh neither brings back a subscription that was deleted or renamed while it
\* ran nor removes one.
THEOREM SyncKeepsSubscriptions == Spec => RefreshKeepsSubscriptions
<1>1. IInv /\ [Next]_vars =>
        [(\E r \in Refreshers : RefreshStep(r)) => Stored' = Stored]_vars
  BY RefreshStepKeeps, IInvHolds
<1> QED
  BY <1>1, IInvCorrect, PTL DEF Spec, RefreshKeepsSubscriptions

\* No reference of a profile to a subscription becomes dangling: what is deleted or renamed
\* leaves every profile in the same step, but for a renamed one whose node set stays behind,
\* too, as another set uses one of its names.
THEOREM NoDanglingReference == Spec => DeletedIsDereferenced
<1> DEFINE Dereferenced ==
      \A n \in Stored \ Stored' : \A p \in Profiles : n \in profiles'[p] =>
         /\ nodeSets'[n] # None
         /\ \E m \in Names \ {n} : nodeSets'[m] # None /\ nodeSets'[m] \cap nodeSets'[n] # {}
<1>1. ASSUME IInv, [Next]_vars PROVE [Dereferenced]_vars
  <2>1. ASSUME NEW r \in Refreshers, RefreshStep(r) PROVE Dereferenced
    BY <1>1, <2>1, RefreshStepKeeps, IInvHolds
  <2>2. ASSUME NEW r \in Refreshers, NEW n \in Names, Refresh(r, n) PROVE Dereferenced
    BY <2>2 DEF Refresh, storeVars, Stored
  <2>3. ASSUME NEW n \in Names, NEW s \in Sources \cup {None}, CreateSubscription(n, s)
        PROVE Dereferenced
    <3>1. [source |-> s, synced |-> FALSE, failed |-> FALSE] \in Subscription
      BY DEF Subscription
    <3>2. [source |-> s, synced |-> FALSE, failed |-> FALSE] # None
      BY <3>1, NoneIsNoRow
    <3> QED
      BY <1>1, <2>3, <3>2 DEF CreateSubscription, Stored, IInv, TypeOK, StoreTypeOK
  <2>4. ASSUME NEW old \in Names, NEW new \in Names, NEW s \in Sources \cup {None},
               UpdateSubscription(old, new, Edited(old, s))
        PROVE Dereferenced
    <3>1. RenameFails(old, new) => UNCHANGED nodeSets
      BY <2>4 DEF UpdateSubscription
    <3>2. subs[old] \in Subscription /\ Edited(old, s) # None
      BY <1>1, <2>4, NoneIsNoRow
      DEF UpdateSubscription, Edited, Choose, IInv, TypeOK, StoreTypeOK, Subscription
    <3>3. Stored \ Stored' \subseteq {old} \ {new}
      BY <1>1, <2>4, <3>2 DEF UpdateSubscription, Stored, IInv, TypeOK, StoreTypeOK
    <3>4. CASE RenameFails(old, new)
      <4>1. StoreTypeOK
        BY <1>1 DEF IInv, TypeOK
      <4>2. /\ nodeSets[old] # None
            /\ \E m \in Names \ {old} : nodeSets[m] # None /\ nodeSets[m] \cap nodeSets[old] # {}
        BY <3>4, <4>1, ClashOfNames
      <4> QED
        BY <3>1, <3>3, <3>4, <4>2
    <3>5. CASE ~RenameFails(old, new)
      <4>1. old # new => \A p \in Profiles : old \notin profiles'[p]
        BY <2>4, <3>5 DEF UpdateSubscription
      <4> QED
        BY <3>3, <4>1
    <3> QED
      BY <3>4, <3>5
  <2>5. ASSUME NEW n \in Names, DeleteSubscription(n) PROVE Dereferenced
    BY <1>1, <2>5 DEF DeleteSubscription, Stored, IInv, TypeOK, StoreTypeOK
  <2>6. ASSUME UNCHANGED subs PROVE Dereferenced
    BY <2>6 DEF Stored
  <2>7. CASE Handler
    BY <2>3, <2>4, <2>5, <2>6, <2>7
    DEF Handler, Edit, UpsertManagedNodeSet, SaveNodeSet, DeleteNodeSet, SaveRuleSet,
        DeleteRuleSet, SaveGroupSet, DeleteGroupSet, SaveProfile
  <2>8. CASE UNCHANGED vars
    BY <2>8
  <2> QED
    BY <1>1, <2>1, <2>2, <2>7, <2>8 DEF Next, Step
<1> QED
  BY <1>1, IInvCorrect, PTL DEF Spec, DeletedIsDereferenced

-----------------------------------------------------------------------------

\* A stored failure disappears by a refresh that succeeds, or with the row: by a new
\* subscription of the name, or by one that is renamed.
LEMMA FailureStep ==
  ASSUME Holds, [Next]_vars, NEW n \in Stored \cap Stored', subs[n].failed, ~subs'[n].failed
  PROVE  \/ \E r \in Refreshers : id[r] = n /\ pc[r] = "finish" /\ pc'[r] = "idle"
         \/ ~subs'[n].synced
         \/ Stored' # Stored
<1> USE DEF Holds, StoreTypeOK, Stored
<1>1. ASSUME NEW r \in Refreshers, Finish(r)
      PROVE  \/ \E q \in Refreshers : id[q] = n /\ pc[q] = "finish" /\ pc'[q] = "idle"
             \/ ~subs'[n].synced
             \/ Stored' # Stored
  <2>1. pc[r] = "finish" /\ pc'[r] = "idle"
    BY <1>1 DEF Finish, At, Return
  <2>2. \A m \in Names \ {id[r]} : subs'[m] = subs[m]
    BY <1>1 DEF Finish, UpdateSubscription, storeVars
  <2> QED
    BY <2>1, <2>2
<1>2. ASSUME NEW r \in Refreshers, MarkSyncFailure(r) PROVE FALSE
  <2>1. CASE UNCHANGED storeVars
    BY <2>1 DEF storeVars
  <2>2. CASE UpdateSubscription(id[r], id[r], Saved(r, TRUE))
    <3>1. subs' = [subs EXCEPT ![id[r]] = None, ![id[r]] = Saved(r, TRUE)]
      BY <2>2 DEF UpdateSubscription
    <3>2. Saved(r, TRUE).failed = TRUE
      BY DEF Saved
    <3> HIDE DEF Saved
    <3> QED
      BY <3>1, <3>2
  <2> QED
    BY <1>2, <2>1, <2>2 DEF MarkSyncFailure
<1>3. ASSUME NEW m \in Names, NEW s, CreateSubscription(m, s) PROVE ~subs'[n].synced
  BY <1>3 DEF CreateSubscription
<1>4. ASSUME NEW old \in Names, NEW new \in Names, NEW s, UpdateSubscription(old, new, Edited(old, s))
      PROVE  Stored' # Stored
  <2>1. subs[old] \in Subscription
    BY <1>4 DEF UpdateSubscription
  <2>2. subs' = [subs EXCEPT ![old] = None, ![new] = Edited(old, s)]
    BY <1>4 DEF UpdateSubscription
  <2>3. Edited(old, s).failed = subs[old].failed
    BY <2>1 DEF Edited, Subscription
  <2> HIDE DEF Edited
  <2>4. old # new
    BY <2>2, <2>3
  <2> QED
    BY <1>4, <2>2, <2>4 DEF UpdateSubscription
<1>5. ASSUME NEW m \in Names, DeleteSubscription(m) PROVE FALSE
  BY <1>5 DEF DeleteSubscription
<1>6. ASSUME UNCHANGED subs PROVE FALSE
  BY <1>6
<1>7. ASSUME NEW r \in Refreshers,
             \/ \E m \in Names : Refresh(r, m)
             \/ Read(r) \/ Fetched(r) \/ FetchFails(r) \/ SaveNodes(r) \/ SaveCache(r)
             \/ GroupsRead(r) \/ GroupsUpdate(r) \/ GroupsCreate(r)
             \/ RulesRead(r) \/ RulesUpdate(r) \/ RulesCreate(r) \/ SaveFails(r)
      PROVE  UNCHANGED subs
  BY <1>7 DEF Refresh, Read, Fetched, FetchFails, SaveNodes, SaveCache, GroupsRead, GroupsUpdate,
     GroupsCreate, RulesRead, RulesUpdate, RulesCreate, SaveFails, Reads, UpsertManagedNodeSet,
     UpsertNodeCache, SaveGroupSet, SaveRuleSet, storeVars
<1>8. CASE Handler
  BY <1>3, <1>4, <1>5, <1>6, <1>8
  DEF Handler, Edit, UpsertManagedNodeSet, SaveNodeSet, DeleteNodeSet, SaveRuleSet,
      DeleteRuleSet, SaveGroupSet, DeleteGroupSet, SaveProfile
<1>9. CASE UNCHANGED vars
  BY <1>6, <1>9 DEF vars, storeVars
<1> QED
  BY <1>1, <1>2, <1>6, <1>7, <1>8, <1>9 DEF Next, Step, RefreshStep

\* A failure stays on record, whatever the user edits and other refreshes do, until a
\* refresh succeeds or the row is replaced.
THEOREM FailuresStay == Spec => FailureStays
<1> DEFINE Stays ==
      \A n \in Stored \cap Stored' :
        subs[n].failed /\ ~subs'[n].failed =>
            \/ \E r \in Refreshers : id[r] = n /\ pc[r] = "finish" /\ pc'[r] = "idle"
            \/ ~subs'[n].synced
            \/ Stored' # Stored
<1>1. Holds /\ [Next]_vars => [Stays]_vars
  BY FailureStep
<1>2. IInv => Holds
  BY IInvHolds
<1> QED
  BY <1>1, <1>2, IInvCorrect, PTL DEF Spec, FailureStays
=============================================================================
