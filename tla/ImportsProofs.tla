--------------------------- MODULE ImportsProofs ---------------------------
(***************************************************************************)
(* Proofs about refreshes, imports, manual edits and edits of the          *)
(* repository together, for every number of each: what is complete when a  *)
(* refresh or an import returns that nothing else has written beside.  The *)
(* invariant says what such a one has saved so far, at each of its points. *)
(***************************************************************************)
EXTENDS Imports, SubSyncProofs

ImportPoints ==
    {"idle", "subscription", "save", "read", "managed", "cache", "groups", "rules",
     "done", "failed"}

ImportTypes ==
    /\ at \in [Importers -> ImportPoints]
    /\ job \in [Importers -> Jobs]
    /\ merged \in [Importers -> SUBSET NodeNames]
    /\ imported \in [Names -> SUBSET NodeNames]
    /\ alone \in SUBSET (Refreshers \cup Importers)

Manual(i) == job[i].kind \in {"add", "remove"}

\* An import under way has a name, and is where its kind may be.
JobHolds ==
    \A i \in Importers : at[i] # "idle" =>
        /\ Name(i) \in Names
        /\ at[i] \in {"subscription", "groups", "rules"} => job[i].kind = "clash"
        /\ at[i] = "save" => job[i].kind = "plain"
        /\ at[i] = "read" => Manual(i)
        /\ at[i] = "managed" => job[i].kind # "plain"
        /\ Manual(i) => job[i].nodes # {}

\* What a refresh has downloaded it holds as synced, and it had a URL.
CopyHolds ==
    \A r \in Refreshers : pc[r] \notin {"idle", "read", "fetch", "fail"} =>
        copy[r].source # None /\ copy[r].synced

AfterGroups == {"rules", "rulesUpdate", "rulesCreate", "finish"}
AfterCache == {"groups", "groupsUpdate", "groupsCreate"} \cup AfterGroups
AfterNodes == {"cache"} \cup AfterCache

\* What a refresh has stored by the point it is at; only one that failed has stored less.
PartsAt(point) ==
    IF point \in AfterNodes
    THEN {"nodes"} \cup IF point \in AfterCache
                       THEN {"cache"} \cup IF point \in AfterGroups
                                          THEN {"groups"} \cup IF point = "finish" THEN {"rules"} ELSE {}
                                          ELSE {}
                       ELSE {}
    ELSE {}
PartsHold ==
    /\ parts \in [Refreshers -> SUBSET Parts]
    /\ \A r \in Refreshers : PartsAt(pc[r]) \subseteq parts[r]

\* What a refresh that is alone has found and saved is there.
RefreshKept(r) ==
    /\ pc[r] \notin {"idle", "read"} => subs[id[r]] # None
    /\ pc[r] \in AfterNodes => nodeSets[id[r]] = nodes[r]
    /\ pc[r] \in AfterCache => cached[id[r]] = nodes[r]
    /\ pc[r] \in AfterGroups => id[r] \in groupSets
    /\ pc[r] = "finish" => id[r] \in ruleSets

\* And so is what an import that is alone has saved, and what a manual edit has read.
ImportKept(i) ==
    /\ job[i].kind = "clash" =>
         /\ at[i] \in {"managed", "cache", "groups", "rules", "done"} =>
              subs[Name(i)] # None /\ ~subs[Name(i)].synced /\ ~subs[Name(i)].failed
         /\ at[i] \in {"groups", "rules", "done"} => cached[Name(i)] = NodesToSave(i)
         /\ at[i] \in {"rules", "done"} => Name(i) \in groupSets
         /\ at[i] = "done" => Name(i) \in ruleSets
    /\ job[i].kind # "clash" /\ at[i] = "done" => imported[Name(i)] = NodesToSave(i)
    /\ at[i] \in {"cache", "groups", "rules", "done"} => nodeSets[Name(i)] = NodesToSave(i)
    /\ at[i] = "managed" /\ Manual(i) =>
         /\ merged[i] = Merged(i)
         /\ job[i].kind = "remove" => nodeSets[Name(i)] # None /\ job[i].nodes \subseteq nodeSets[Name(i)]

Kept ==
    /\ \A r \in alone \cap Refreshers : RefreshKept(r)
    /\ \A i \in alone \cap Importers : ImportKept(i)

ImportIInv == Holds /\ ImportTypes /\ JobHolds /\ CopyHolds /\ PartsHold /\ Kept

-----------------------------------------------------------------------------
(* Types *)

\* What is to be saved is a set of node names.
LEMMA NodesToSaveType ==
  ASSUME ImportTypes, NEW i \in Importers
  PROVE  NodesToSave(i) \in SUBSET NodeNames
  BY DEF ImportTypes, Jobs, NodesToSave

\* The sets that an import makes of its nodes are sets of nodes.
LEMMA MergedType ==
  ASSUME Holds, ImportTypes, NEW i \in Importers, Name(i) \in Names
  PROVE  Merged(i) \in SUBSET NodeNames
  BY DEF Holds, StoreTypeOK, ImportTypes, Jobs, Merged, Name

\* A critical section of an import keeps the types of the store, and what refreshes hold.
LEMMA ImportHolds ==
  ASSUME Holds, ImportTypes, JobHolds, NEW i \in Importers, ImportStep(i)
  PROVE  Holds'
<1> USE DEF Holds, RefreshHolds
<1>1. ASSUME StoreTypeOK', UNCHANGED <<pc, id, copy, nodes>> PROVE Holds'
  BY <1>1
<1>2. ASSUME UNCHANGED storeVars PROVE StoreTypeOK'
  BY <1>2 DEF storeVars, StoreTypeOK
<1>3. CASE Import(i) \/ ReadNodeSet(i) \/ Respond(i)
  BY <1>1, <1>2, <1>3 DEF Import, ReadNodeSet, Respond, vars, refreshVars
<1>4. ASSUME at[i] # "idle" PROVE Name(i) \in Names
  BY <1>4 DEF JobHolds
<1>5. CASE SaveSubscription(i)
  <2>1. PICK s \in Sources \cup {None} : CreateSubscription(Name(i), s)
    BY <1>5 DEF SaveSubscription
  <2>2. [source |-> s, synced |-> FALSE, failed |-> FALSE] \in Subscription
    BY DEF Subscription
  <2>3. StoreTypeOK'
    BY <2>1, <2>2 DEF CreateSubscription, StoreTypeOK
  <2> QED
    BY <1>1, <1>5, <2>3 DEF SaveSubscription, Saves
<1>6. CASE SaveManaged(i)
  <2>1. CASE Fails(i, "managed")
    BY <1>1, <1>2, <2>1 DEF Fails, vars, refreshVars
  <2>2. CASE UpsertManagedNodeSet(Name(i), NodesToSave(i)) /\ Saves(i)
    <3>1. StoreTypeOK'
      BY <2>2, NodesToSaveType DEF UpsertManagedNodeSet, StoreTypeOK
    <3> QED
      BY <1>1, <2>2, <3>1 DEF Saves
  <2> QED
    BY <1>6, <2>1, <2>2 DEF SaveManaged
<1>7. CASE SavePlain(i)
  <2>1. job[i].nodes \in SUBSET NodeNames
    BY DEF ImportTypes, Jobs
  <2>2. Name(i) \in Names
    BY <1>4, <1>7 DEF SavePlain, Moves
  <2>3. StoreTypeOK'
    BY <1>7, <2>1, <2>2 DEF SavePlain, SaveNodeSet, StoreTypeOK
  <2> QED
    BY <1>1, <1>7, <2>3 DEF SavePlain, Saves
<1>8. CASE CacheNodes(i)
  <2>1. StoreTypeOK'
    BY <1>2, <1>8, NodesToSaveType DEF CacheNodes, UpsertNodeCache, StoreTypeOK
  <2> QED
    BY <1>1, <1>8, <2>1 DEF CacheNodes, Saves
<1>9. CASE SaveGroups(i) \/ SaveRules(i)
  <2>1. Name(i) \in Names
    BY <1>4, <1>9 DEF SaveGroups, SaveRules, Moves
  <2>2. StoreTypeOK'
    BY <1>9, <2>1 DEF SaveGroups, SaveRules, SaveGroupSet, SaveRuleSet, StoreTypeOK
  <2> QED
    BY <1>1, <1>9, <2>2 DEF SaveGroups, SaveRules, Saves
<1> QED
  BY <1>3, <1>5, <1>6, <1>7, <1>8, <1>9 DEF ImportStep

\* An import keeps its types and goes where its kind may be.
LEMMA ImportJobs ==
  ASSUME Holds, ImportTypes, JobHolds, NEW i \in Importers, ImportStep(i)
  PROVE  ImportTypes' /\ JobHolds'
<1> USE DEF ImportTypes, ImportPoints
<1>1. ASSUME UNCHANGED <<job, merged, imported>>, NEW to \in ImportPoints,
             at' = [at EXCEPT ![i] = to],
             alone' \in SUBSET (Refreshers \cup Importers), at[i] # "idle",
             to \in {"subscription", "groups", "rules"} => job[i].kind = "clash",
             to \notin {"save", "read", "managed"} \/ (to = "managed" /\ job[i].kind # "plain")
      PROVE  ImportTypes' /\ JobHolds'
  <2>1. ImportTypes'
    BY <1>1
  <2>2. JobHolds'
    BY <1>1 DEF JobHolds, Name, Manual
  <2> QED
    BY <2>1, <2>2
<1>2. CASE Import(i)
  <2>1. PICK j \in Jobs :
          /\ j.name # None
          /\ j.kind \in {"add", "remove"} => \E x \in NodeNames : j.nodes = {x}
          /\ job' = [job EXCEPT ![i] = j]
          /\ at' = [at EXCEPT ![i] =
                CASE j.kind = "clash" -> "subscription" [] j.kind = "plain" -> "save"
                  [] OTHER -> "read"]
    BY <1>2 DEF Import
  <2>2. j.name \in Names /\ j.kind \in {"clash", "plain", "add", "remove"}
    BY <2>1 DEF Jobs
  <2> DEFINE to == CASE j.kind = "clash" -> "subscription" [] j.kind = "plain" -> "save"
                     [] OTHER -> "read"
  <2>3. \/ to = "subscription" /\ j.kind = "clash"
        \/ to = "save" /\ j.kind = "plain"
        \/ to = "read" /\ j.kind \in {"add", "remove"}
    <3>1. CASE j.kind = "clash"
      BY <3>1
    <3>2. CASE j.kind = "plain"
      BY <3>2
    <3>3. CASE j.kind \in {"add", "remove"}
      BY <3>3
    <3> QED
      BY <2>2, <3>1, <3>2, <3>3
  <2>4. at' = [at EXCEPT ![i] = to]
    BY <2>1
  <2> HIDE DEF to
  <2>5. at' \in [Importers -> ImportPoints]
    BY <2>3, <2>4
  <2>6. ImportTypes'
    BY <1>2, <2>1, <2>5 DEF Import
  <2>7. JobHolds'
    BY <2>1, <2>2, <2>3, <2>4 DEF JobHolds, Name, Manual
  <2> QED
    BY <2>6, <2>7
<1>3. CASE ReadNodeSet(i)
  <2>1. Name(i) \in Names /\ Manual(i) /\ Merged(i) \in SUBSET NodeNames
    BY <1>3, MergedType DEF ReadNodeSet, JobHolds
  <2>2. PICK to \in {"failed", "managed"} : at' = [at EXCEPT ![i] = to]
    BY <1>3 DEF ReadNodeSet
  <2>3. ImportTypes'
    BY <1>3, <2>1, <2>2 DEF ReadNodeSet, vars, refreshVars
  <2>4. JobHolds'
    BY <1>3, <2>1, <2>2 DEF ReadNodeSet, JobHolds, Name, Manual
  <2> QED
    BY <2>3, <2>4
<1>4. CASE Respond(i)
  <2>1. NoJob \in Jobs
    BY DEF NoJob, Jobs
  <2>2. ImportTypes'
    BY <1>4, <2>1 DEF Respond, vars, refreshVars
  <2>3. JobHolds'
    BY <1>4 DEF Respond, JobHolds, Name, Manual
  <2> QED
    BY <2>2, <2>3
<1>5. CASE SaveSubscription(i)
  <2>1. job[i].kind = "clash"
    BY <1>5 DEF SaveSubscription, Moves, JobHolds
  <2> QED
    BY <1>1, <1>5, <2>1 DEF SaveSubscription, Moves, Saves, Writes
<1>6. CASE SaveManaged(i)
  BY <1>1, <1>6 DEF SaveManaged, Moves, Saves, Writes, Fails, vars, refreshVars
<1>7. CASE SavePlain(i)
  BY <1>1, <1>7 DEF SavePlain, Moves, Saves, Writes
<1>8. CASE CacheNodes(i)
  <2>1. Name(i) \in Names
    BY <1>8 DEF CacheNodes, Moves, JobHolds
  <2>2. imported' \in [Names -> SUBSET NodeNames]
    BY <1>8, <2>1, NodesToSaveType DEF CacheNodes
  <2>3. /\ UNCHANGED <<job, merged>> /\ alone' \in SUBSET (Refreshers \cup Importers)
        /\ at' = [at EXCEPT ![i] = IF job[i].kind = "clash" THEN "groups" ELSE "done"]
        /\ at[i] = "cache"
    BY <1>8 DEF CacheNodes, Moves, Saves, Writes
  <2>4. ImportTypes'
    BY <2>2, <2>3
  <2>5. JobHolds'
    BY <2>3 DEF JobHolds, Name, Manual
  <2> QED
    BY <2>4, <2>5
<1>9. CASE SaveGroups(i)
  <2>1. job[i].kind = "clash"
    BY <1>9 DEF SaveGroups, Moves, JobHolds
  <2> QED
    BY <1>1, <1>9, <2>1 DEF SaveGroups, Moves, Saves, Writes
<1>10. CASE SaveRules(i)
  BY <1>1, <1>10 DEF SaveRules, Moves, Saves, Writes
<1> QED
  BY <1>2, <1>3, <1>4, <1>5, <1>6, <1>7, <1>8, <1>9, <1>10 DEF ImportStep

-----------------------------------------------------------------------------
(* What is saved stays saved while nothing else writes *)

\* A step of one refresh leaves the others where they are, and either changes nothing in
\* the store or leaves nobody else alone.
LEMMA RefreshFrame ==
  ASSUME Holds, NEW r \in Refreshers, RefreshStep(r) \/ \E n \in Names : Refresh(r, n)
  PROVE  /\ \A q \in Refreshers \ {r} : pc'[q] = pc[q] /\ id'[q] = id[q] /\ nodes'[q] = nodes[q]
         /\ UNCHANGED storeVars \/ alone' \subseteq {r}
         /\ alone' \subseteq alone \cup {r}
  BY DEF Holds, RefreshStep, Refresh, Read, Fetched, FetchFails, SaveNodes, SaveCache, GroupsRead,
     GroupsUpdate, GroupsCreate, RulesRead, RulesUpdate, RulesCreate, SaveFails, Finish, MarkSyncFailure,
     Goto, Return, Reads, Writes

\* From the download on a copy has a URL and counts as synced.
LEMMA CopyNext == Holds /\ CopyHolds /\ [Next]_vars => CopyHolds'
<1> SUFFICES ASSUME Holds, CopyHolds, [Next]_vars PROVE CopyHolds'
  OBVIOUS
<1> USE DEF Holds, CopyHolds, At
<1>1. ASSUME NEW r \in Refreshers, Fetched(r) PROVE CopyHolds'
  <2>1. copy[r] \in Subscription
    BY <1>1 DEF Fetched, RefreshHolds
  <2> DEFINE c == [copy[r] EXCEPT !.synced = TRUE, !.failed = FALSE]
  <2>2. c.source = copy[r].source /\ c.synced
    BY <2>1 DEF Subscription
  <2>3. copy' = [copy EXCEPT ![r] = c] /\ pc' = [pc EXCEPT ![r] = "nodes"] /\ copy[r].source # None
    BY <1>1 DEF Fetched
  <2> HIDE DEF c
  <2> QED
    BY <2>2, <2>3
<1>2. ASSUME NEW r \in Refreshers,
             \/ \E n \in Names : Refresh(r, n)
             \/ Read(r) \/ FetchFails(r) \/ SaveNodes(r) \/ SaveCache(r)
             \/ GroupsRead(r) \/ GroupsUpdate(r) \/ GroupsCreate(r)
             \/ RulesRead(r) \/ RulesUpdate(r) \/ RulesCreate(r)
             \/ SaveFails(r) \/ Finish(r) \/ MarkSyncFailure(r)
      PROVE  CopyHolds'
  BY <1>2 DEF Refresh, Read, FetchFails, SaveNodes, SaveCache, GroupsRead, GroupsUpdate,
     GroupsCreate, RulesRead, RulesUpdate, RulesCreate, SaveFails, Finish, MarkSyncFailure, Goto, Return
<1>3. CASE Handler \/ UNCHANGED vars
  BY <1>3 DEF Handler, vars, refreshVars
<1> QED
  BY <1>1, <1>2, <1>3 DEF Next, Step, RefreshStep

\* A refresh goes on past a save only if what it saves is stored.
LEMMA PartsNext == Holds /\ PartsHold /\ [Next]_vars => PartsHold'
<1> SUFFICES ASSUME Holds, PartsHold, [Next]_vars PROVE PartsHold'
  OBVIOUS
<1> USE DEF PartsHold, PartsAt, AfterNodes, AfterCache, AfterGroups
<1>1. CASE UNCHANGED vars
  BY <1>1 DEF vars, refreshVars
<1>2. CASE Step /\ Noted
  <2>1. \A r \in Refreshers : StoredBy(r) \in SUBSET Parts
    BY DEF StoredBy
  <2>2. parts' \in [Refreshers -> SUBSET Parts]
    BY <1>2, <2>1 DEF Noted
  <2>3. ASSUME NEW r \in Refreshers, pc'[r] = pc[r] PROVE PartsAt(pc'[r]) \subseteq parts'[r]
    BY <1>2, <2>3 DEF Noted
  <2>4. ASSUME NEW r \in Refreshers, pc'[r] # pc[r] PROVE PartsAt(pc'[r]) \subseteq parts'[r]
    <3>1. (\E n \in Names : Refresh(r, n)) \/ RefreshStep(r)
      <4>1. ~Handler
        BY <2>4 DEF Handler
      <4>2. PICK q \in Refreshers : RefreshStep(q) \/ \E n \in Names : Refresh(q, n)
        BY <1>2, <4>1 DEF Step
      <4>3. q = r
        BY <2>4, <4>2, RefreshFrame
      <4> QED
        BY <4>2, <4>3
    <3>2. parts'[r] = IF pc'[r] = "idle" THEN {} ELSE parts[r] \cup StoredBy(r)
      BY <1>2, <2>4 DEF Noted
    <3>3. pc[r] # "idle" => id[r] \in Names
      BY DEF Holds, RefreshHolds
    <3> USE DEF At, Goto, Holds, StoreTypeOK
    <3>4. CASE \E n \in Names : Refresh(r, n)
      BY <3>4 DEF Refresh
    <3>5. CASE Read(r)
      BY <3>5 DEF Read, Return
    <3>6. CASE Fetched(r) \/ FetchFails(r) \/ SaveFails(r)
      BY <3>6 DEF Fetched, FetchFails, SaveFails
    <3>7. CASE SaveNodes(r)
      <4>1. pc'[r] = "cache" /\ "nodes" \in StoredBy(r)
        BY <3>3, <3>7 DEF SaveNodes, UpsertManagedNodeSet, StoredBy, Parts
      <4> QED
        BY <3>2, <4>1
    <3>8. CASE SaveCache(r)
      <4>1. pc[r] = "cache" /\ pc'[r] = "groups" /\ "cache" \in StoredBy(r)
        BY <3>3, <3>8 DEF SaveCache, UpsertNodeCache, StoredBy, Parts
      <4> QED
        BY <3>2, <4>1
    <3>9. CASE GroupsRead(r)
      <4>1. pc[r] = "groups" /\ pc'[r] \in {"groupsUpdate", "groupsCreate"}
        BY <3>9 DEF GroupsRead
      <4> QED
        BY <3>2, <4>1
    <3>10. CASE GroupsUpdate(r) \/ GroupsCreate(r)
      <4>1. /\ pc[r] \in {"groupsUpdate", "groupsCreate"} /\ pc'[r] = "rules"
            /\ "groups" \in StoredBy(r)
        BY <3>10 DEF GroupsUpdate, GroupsCreate, SaveGroupSet, storeVars, StoredBy, Parts
      <4> QED
        BY <3>2, <4>1
    <3>11. CASE RulesRead(r)
      <4>1. pc[r] = "rules" /\ pc'[r] \in {"rulesUpdate", "rulesCreate"}
        BY <3>11 DEF RulesRead
      <4> QED
        BY <3>2, <4>1
    <3>12. CASE RulesUpdate(r) \/ RulesCreate(r)
      <4>1. /\ pc[r] \in {"rulesUpdate", "rulesCreate"} /\ pc'[r] = "finish"
            /\ "rules" \in StoredBy(r)
        BY <3>12 DEF RulesUpdate, RulesCreate, SaveRuleSet, storeVars, StoredBy, Parts
      <4> QED
        BY <3>2, <4>1
    <3>13. CASE Finish(r) \/ MarkSyncFailure(r)
      BY <3>13 DEF Finish, MarkSyncFailure, Return
    <3> QED
      BY <3>1, <3>4, <3>5, <3>6, <3>7, <3>8, <3>9, <3>10, <3>11, <3>12, <3>13 DEF RefreshStep
  <2> QED
    BY <2>2, <2>3, <2>4
<1> QED
  BY <1>1, <1>2 DEF Next

\* A step of a refresh adds what its next point says of it.
LEMMA RefreshOwn ==
  ASSUME Holds, NEW r \in Refreshers, RefreshStep(r), RefreshKept(r)
  PROVE  RefreshKept(r)'
<1> USE DEF RefreshKept, AfterNodes, AfterCache, AfterGroups, Holds, StoreTypeOK, At, Goto, Return,
        Reads, storeVars
<1>0. pc[r] # "idle" => id[r] \in Names
  BY DEF RefreshHolds
<1>1. CASE Read(r)
  BY <1>1 DEF Read
<1>2. CASE Fetched(r)
  BY <1>2 DEF Fetched
<1>3. CASE FetchFails(r)
  BY <1>3 DEF FetchFails
<1>4. CASE SaveNodes(r)
  BY <1>0, <1>4 DEF SaveNodes, UpsertManagedNodeSet
<1>5. CASE SaveCache(r)
  BY <1>0, <1>5 DEF SaveCache, UpsertNodeCache
<1>6. CASE GroupsRead(r) \/ GroupsUpdate(r) \/ RulesRead(r) \/ RulesUpdate(r)
  BY <1>6 DEF GroupsRead, GroupsUpdate, RulesRead, RulesUpdate
<1>7. CASE GroupsCreate(r)
  BY <1>7 DEF GroupsCreate, SaveGroupSet
<1>8. CASE RulesCreate(r)
  BY <1>8 DEF RulesCreate, SaveRuleSet
<1>9. CASE SaveFails(r) \/ Finish(r) \/ MarkSyncFailure(r)
  BY <1>9 DEF SaveFails, Finish, MarkSyncFailure
<1> QED
  BY <1>1, <1>2, <1>3, <1>4, <1>5, <1>6, <1>7, <1>8, <1>9 DEF RefreshStep

\* A step of one import leaves the others where they are, and either saves nothing or
\* leaves nobody else alone.
LEMMA ImportFrame ==
  ASSUME ImportTypes, NEW i \in Importers, ImportStep(i)
  PROVE  /\ \A q \in Importers \ {i} : at'[q] = at[q] /\ job'[q] = job[q] /\ merged'[q] = merged[q]
         /\ UNCHANGED <<pc, id, copy, nodes, parts>>
         /\ UNCHANGED <<storeVars, imported>> \/ alone' \subseteq {i}
         /\ alone' \subseteq alone \cup {i}
<1>1. CASE Import(i) \/ ReadNodeSet(i) \/ Respond(i)
  BY <1>1 DEF ImportTypes, Import, ReadNodeSet, Respond, vars, refreshVars
<1>2. CASE SaveSubscription(i) \/ SavePlain(i) \/ CacheNodes(i) \/ SaveGroups(i) \/ SaveRules(i)
  BY <1>2 DEF ImportTypes, SaveSubscription, SavePlain, CacheNodes, SaveGroups, SaveRules, Moves,
     Saves, Writes
<1>3. CASE SaveManaged(i)
  BY <1>3 DEF ImportTypes, SaveManaged, Moves, Saves, Writes, Fails, vars, refreshVars
<1> QED
  BY <1>1, <1>2, <1>3 DEF ImportStep

\* A step of an import adds what its next point says of it.
LEMMA ImportOwn ==
  ASSUME Holds, ImportTypes, JobHolds, NEW i \in Importers, ImportStep(i),
         Import(i) \/ ImportKept(i)
  PROVE  ImportKept(i)'
<1> USE DEF Holds, StoreTypeOK, ImportTypes, Name, Manual
<1>0. at[i] # "idle" => job[i].name \in Names
  BY DEF JobHolds
<1>1. CASE Import(i)
  <2>1. at'[i] \in {"subscription", "save", "read"}
    <3>1. PICK j \in Jobs :
            at' = [at EXCEPT ![i] =
                CASE j.kind = "clash" -> "subscription" [] j.kind = "plain" -> "save"
                  [] OTHER -> "read"]
      BY <1>1 DEF Import
    <3>2. j.kind \in {"clash", "plain", "add", "remove"}
      BY DEF Jobs
    <3>3. CASE j.kind = "clash"
      BY <3>1, <3>3
    <3>4. CASE j.kind = "plain"
      BY <3>1, <3>4
    <3>5. CASE j.kind \in {"add", "remove"}
      BY <3>1, <3>5
    <3> QED
      BY <3>2, <3>3, <3>4, <3>5
  <2> QED
    BY <2>1 DEF ImportKept
<1>2. CASE SaveSubscription(i) /\ ImportKept(i)
  <2>1. PICK s \in Sources \cup {None} : CreateSubscription(Name(i), s)
    BY <1>2 DEF SaveSubscription
  <2>2. [source |-> s, synced |-> FALSE, failed |-> FALSE] \in Subscription
    BY DEF Subscription
  <2>3. [source |-> s, synced |-> FALSE, failed |-> FALSE] # None
    BY <2>2, NoneIsNoRow
  <2>4. at[i] = "subscription" /\ at'[i] = "managed" /\ UNCHANGED job /\ job[i].kind = "clash"
    BY <1>2 DEF SaveSubscription, Moves, JobHolds
  <2>5. subs'[Name(i)] = [source |-> s, synced |-> FALSE, failed |-> FALSE]
    BY <1>0, <2>1, <2>4 DEF CreateSubscription
  <2> QED
    BY <2>3, <2>4, <2>5 DEF ImportKept
<1>3. CASE ReadNodeSet(i) /\ ImportKept(i)
  <2>1. /\ at[i] = "read" /\ job[i].kind \in {"add", "remove"}
        /\ UNCHANGED <<subs, nodeSets, cached, groupSets, ruleSets, imported, job>>
        /\ merged'[i] = Merged(i)
    BY <1>3 DEF ReadNodeSet, vars, storeVars, JobHolds
  <2>2. Merged(i)' = Merged(i)
    BY <2>1 DEF Merged
  <2>3. \/ at'[i] = "failed"
        \/ /\ at'[i] = "managed"
           /\ job[i].kind = "remove" =>
                nodeSets[Name(i)] # None /\ job[i].nodes \subseteq nodeSets[Name(i)]
    BY <1>3 DEF ReadNodeSet
  <2> QED
    BY <2>1, <2>2, <2>3 DEF ImportKept
<1>4. CASE SaveManaged(i) /\ ImportKept(i)
  <2>1. CASE Fails(i, "managed")
    BY <2>1 DEF Fails, Moves, ImportKept
  <2>2. CASE /\ Moves(i, "managed", "cache")
             /\ UpsertManagedNodeSet(Name(i), NodesToSave(i))
    <3>1. UNCHANGED <<subs, job, merged>> /\ at[i] = "managed" /\ at'[i] = "cache"
      BY <2>2 DEF Moves, UpsertManagedNodeSet
    <3>2. nodeSets'[Name(i)] = NodesToSave(i)
      BY <1>0, <2>2, <3>1 DEF UpsertManagedNodeSet
    <3> QED
      BY <1>4, <3>1, <3>2 DEF ImportKept, NodesToSave
  <2> QED
    BY <1>4, <2>1, <2>2 DEF SaveManaged
<1>5. CASE SavePlain(i) /\ ImportKept(i)
  <2>1. UNCHANGED <<job, merged>> /\ at[i] = "save" /\ at'[i] = "cache" /\ job[i].kind = "plain"
    BY <1>5 DEF SavePlain, Moves, JobHolds
  <2>2. nodeSets'[Name(i)] = job[i].nodes
    BY <1>0, <1>5, <2>1 DEF SavePlain, SaveNodeSet
  <2> QED
    BY <2>1, <2>2 DEF ImportKept, NodesToSave
<1>6. CASE CacheNodes(i) /\ ImportKept(i)
  <2>1. /\ UNCHANGED <<job, merged, subs, nodeSets>> /\ at[i] = "cache"
        /\ at'[i] = IF job[i].kind = "clash" THEN "groups" ELSE "done"
    BY <1>6 DEF CacheNodes, Moves, UpsertNodeCache, storeVars
  <2>2. CASE job[i].kind = "clash"
    <3>1. cached'[Name(i)] = NodesToSave(i)
      BY <1>0, <1>6, <2>1, <2>2 DEF CacheNodes, UpsertNodeCache
    <3> QED
      BY <1>6, <2>1, <2>2, <3>1 DEF ImportKept, NodesToSave
  <2>3. CASE job[i].kind # "clash"
    <3>1. imported'[Name(i)] = NodesToSave(i)
      BY <1>0, <1>6, <2>1, <2>3 DEF CacheNodes
    <3> QED
      BY <1>6, <2>1, <2>3, <3>1 DEF ImportKept, NodesToSave
  <2> QED
    BY <2>2, <2>3
<1>7. CASE SaveGroups(i) /\ ImportKept(i)
  BY <1>7 DEF SaveGroups, Moves, SaveGroupSet, JobHolds, ImportKept, NodesToSave
<1>8. CASE SaveRules(i) /\ ImportKept(i)
  BY <1>8 DEF SaveRules, Moves, SaveRuleSet, JobHolds, ImportKept, NodesToSave
<1>9. CASE Respond(i)
  BY <1>9 DEF Respond, ImportKept
<1> QED
  BY <1>1, <1>2, <1>3, <1>4, <1>5, <1>6, <1>7, <1>8, <1>9 DEF ImportStep

\* A refresh or an import that does not move keeps what it has while the store does.
LEMMA RefreshStill ==
  ASSUME NEW r \in Refreshers, RefreshKept(r), UNCHANGED storeVars,
         pc'[r] = pc[r], id'[r] = id[r], nodes'[r] = nodes[r]
  PROVE  RefreshKept(r)'
  BY DEF RefreshKept, storeVars

\* An import in progress keeps its input and what it has saved by a step of another one.
LEMMA ImportStill ==
  ASSUME NEW i \in Importers, ImportKept(i), UNCHANGED <<storeVars, imported>>,
         at'[i] = at[i], job'[i] = job[i], merged'[i] = merged[i]
  PROVE  ImportKept(i)'
  BY DEF ImportKept, storeVars, Name, NodesToSave, Merged, Manual

\* Every step keeps the invariant.
LEMMA ImportIInvNext == ImportIInv /\ [ImportNext]_allVars => ImportIInv'
<1> SUFFICES ASSUME ImportIInv, [ImportNext]_allVars PROVE ImportIInv'
  OBVIOUS
<1> USE DEF ImportIInv
<1>1. ASSUME [Next]_vars, UNCHANGED importVars PROVE ImportIInv'
  <2>1. Holds' /\ CopyHolds' /\ PartsHold'
    BY <1>1, HoldsNext, CopyNext, PartsNext
  <2>2. ImportTypes' /\ JobHolds' /\ Kept'
    <3>1. UNCHANGED <<at, job, merged, imported>>
      BY <1>1 DEF importVars
    <3>2. JobHolds'
      BY <3>1 DEF JobHolds, Name, Manual
    <3>3. ASSUME alone' \in SUBSET (Refreshers \cup Importers) PROVE ImportTypes'
      BY <3>1, <3>3 DEF ImportTypes
    <3>4. ASSUME NEW r \in Refreshers, RefreshStep(r) \/ \E n \in Names : Refresh(r, n)
          PROVE  ImportTypes' /\ Kept'
      <4>1. ImportTypes'
        BY <3>3, <3>4, RefreshFrame DEF ImportTypes
      <4>2. ASSUME NEW q \in alone' \cap Refreshers PROVE RefreshKept(q)'
        <5>1. CASE q # r
          <6>1. q \in alone /\ UNCHANGED storeVars
            BY <3>4, <4>2, <5>1, RefreshFrame
          <6> QED
            BY <3>4, <5>1, <6>1, RefreshFrame, RefreshStill DEF Kept
        <5>2. ASSUME q = r, NEW n \in Names, Refresh(r, n) PROVE RefreshKept(q)'
          BY <5>2 DEF Refresh, RefreshKept, AfterNodes, AfterCache, AfterGroups, Holds
        <5>3. CASE q = r /\ RefreshStep(r)
          <6>1. r \in alone
            BY <4>2, <5>3 DEF RefreshStep, Read, Fetched, FetchFails, SaveNodes, SaveCache,
               GroupsRead, GroupsUpdate, GroupsCreate, RulesRead, RulesUpdate, RulesCreate,
               SaveFails, Finish, MarkSyncFailure, Reads, Writes
          <6> QED
            BY <5>3, <6>1, RefreshOwn DEF Kept
        <5> QED
          BY <3>4, <5>1, <5>2, <5>3
      <4>3. ASSUME NEW i \in alone' \cap Importers PROVE ImportKept(i)'
        <5>1. i # r
          BY ImportersAreOthers
        <5>2. i \in alone /\ UNCHANGED storeVars
          BY <3>4, <4>3, <5>1, RefreshFrame
        <5> QED
          BY <3>1, <5>2, ImportStill DEF Kept
      <4> QED
        BY <4>1, <4>2, <4>3 DEF Kept
    <3>5. CASE Handler
      <4>1. alone' = {}
        BY <3>5 DEF Handler
      <4>2. Kept'
        BY <4>1 DEF Kept
      <4> QED
        BY <3>2, <3>3, <4>1, <4>2
    <3>6. CASE UNCHANGED vars
      <4>1. UNCHANGED <<storeVars, pc, id, nodes, alone>>
        BY <3>6 DEF vars, refreshVars
      <4> QED
        <5>1. ASSUME NEW r \in alone' \cap Refreshers PROVE RefreshKept(r)'
          BY <4>1, <5>1, RefreshStill DEF Kept
        <5>2. ASSUME NEW i \in alone' \cap Importers PROVE ImportKept(i)'
          BY <3>1, <4>1, <5>2, ImportStill DEF Kept
        <5>3. ImportTypes'
          BY <3>3, <4>1 DEF ImportTypes
        <5> QED
          BY <3>2, <5>1, <5>2, <5>3 DEF Kept
    <3> QED
      BY <1>1, <3>2, <3>4, <3>5, <3>6 DEF Next, Step
  <2> QED
    BY <2>1, <2>2
<1>2. ASSUME NEW i \in Importers, ImportStep(i) PROVE ImportIInv'
  <2>1. Holds' /\ ImportTypes' /\ JobHolds'
    BY <1>2, ImportHolds, ImportJobs
  <2>2. CopyHolds' /\ PartsHold'
    BY <1>2, ImportFrame DEF CopyHolds, PartsHold
  <2>3. ASSUME NEW r \in alone' \cap Refreshers PROVE RefreshKept(r)'
    <3>1. r # i
      BY ImportersAreOthers
    <3>2. r \in alone /\ UNCHANGED storeVars
      BY <1>2, <2>3, <3>1, ImportFrame
    <3> QED
      BY <1>2, <3>2, ImportFrame, RefreshStill DEF Kept
  <2>4. ASSUME NEW j \in alone' \cap Importers PROVE ImportKept(j)'
    <3>1. CASE j # i
      <4>1. j \in alone /\ UNCHANGED <<storeVars, imported>>
        BY <1>2, <2>4, <3>1, ImportFrame
      <4> QED
        BY <1>2, <3>1, <4>1, ImportFrame, ImportStill DEF Kept
    <3>2. CASE j = i
      <4>1. Import(i) \/ i \in alone
        BY <1>2, <2>4, <3>2 DEF ImportStep, SaveSubscription, ReadNodeSet, SaveManaged, SavePlain,
           CacheNodes, SaveGroups, SaveRules, Respond, Saves, Writes, Fails, vars, refreshVars
      <4> QED
        BY <1>2, <3>2, <4>1, ImportOwn DEF Kept
    <3> QED
      BY <3>1, <3>2
  <2> QED
    BY <2>1, <2>2, <2>3, <2>4 DEF Kept
<1>3. CASE UNCHANGED allVars
  BY <1>1, <1>3 DEF allVars
<1> QED
  BY <1>1, <1>2, <1>3 DEF ImportNext

\* In every state whoever is alone has saved what its point says.
LEMMA ImportIInvCorrect == ImportSpec => []ImportIInv
<1>1. ImportInit => ImportIInv
  <2>1. NoJob \in Jobs
    BY DEF NoJob, Jobs
  <2> QED
    BY <2>1 DEF ImportInit, Init, StoreInit, ImportIInv, Holds, StoreTypeOK, RefreshHolds, Points,
       ImportTypes, ImportPoints, JobHolds, CopyHolds, Kept, PartsHold, PartsAt, AfterNodes,
       AfterCache, AfterGroups
<1> QED
  BY <1>1, ImportIInvNext, PTL DEF ImportSpec

-----------------------------------------------------------------------------
(* The properties *)

\* A refresh that nothing else wrote beside, and that succeeded, leaves the whole of what it
\* downloaded, under the status it reached.
THEOREM RefreshesAreComplete == ImportSpec => RefreshIsComplete
<1> DEFINE Complete ==
      \A r \in alone \cap Refreshers :
        pc[r] = "finish" /\ pc'[r] = "idle" =>
            LET n == id[r] IN
            /\ nodeSets[n] = nodes[r]
            /\ cached[n] = nodes[r]
            /\ n \in ruleSets \cap groupSets
            /\ subs'[n] = [copy[r] EXCEPT !.failed = FALSE]
<1>1. ASSUME ImportIInv, ImportNext PROVE Complete
  <2> SUFFICES ASSUME NEW r \in alone \cap Refreshers, pc[r] = "finish", pc'[r] = "idle"
               PROVE  /\ nodeSets[id[r]] = nodes[r]
                      /\ cached[id[r]] = nodes[r]
                      /\ id[r] \in ruleSets \cap groupSets
                      /\ subs'[id[r]] = [copy[r] EXCEPT !.failed = FALSE]
    OBVIOUS
  <2>1. Finish(r)
    <3>1. \A i \in Importers : ~ImportStep(i)
      BY <1>1, ImportFrame DEF ImportIInv
    <3>2. ~Handler
      BY DEF Handler
    <3>3. PICK q \in Refreshers : RefreshStep(q) \/ \E n \in Names : Refresh(q, n)
      BY <1>1, <3>1, <3>2 DEF ImportNext, Next, Step
    <3>4. q = r
      BY <1>1, <3>3, RefreshFrame DEF ImportIInv
    <3> QED
      BY <3>3, <3>4 DEF RefreshStep, Refresh, Read, Fetched, FetchFails, SaveNodes, SaveCache,
         GroupsRead, GroupsUpdate, GroupsCreate, RulesRead, RulesUpdate, RulesCreate, SaveFails, Finish,
         MarkSyncFailure, At
  <2>2. RefreshKept(r)
    BY <1>1 DEF ImportIInv, Kept
  <2>3. id[r] \in Names /\ copy[r] \in Subscription /\ copy[r].source # None /\ copy[r].synced
    BY <1>1 DEF ImportIInv, Holds, RefreshHolds, CopyHolds
  <2>4. subs'[id[r]] = Saved(r, FALSE)
    BY <1>1, <2>1, <2>2, <2>3 DEF Finish, UpdateSubscription, RefreshKept, ImportIInv, Holds, StoreTypeOK
  <2>5. Saved(r, FALSE) = [copy[r] EXCEPT !.failed = FALSE]
    <3>1. Saved(r, FALSE).source = copy[r].source /\ Saved(r, FALSE).failed = FALSE
      BY <2>3 DEF Saved, Choose
    <3>2. Saved(r, FALSE).synced = TRUE
      BY <2>3 DEF Saved
    <3>3. copy[r].synced = TRUE
      BY <2>3 DEF Subscription
    <3>4. Saved(r, FALSE) = [source |-> copy[r].source, synced |-> TRUE, failed |-> FALSE]
      BY <3>1, <3>2 DEF Saved
    <3>5. [copy[r] EXCEPT !.failed = FALSE]
            = [source |-> copy[r].source, synced |-> TRUE, failed |-> FALSE]
      <4>1. \A c \in Subscription :
              c = [source |-> c.source, synced |-> c.synced, failed |-> c.failed]
        BY DEF Subscription
      <4> DEFINE c == [copy[r] EXCEPT !.failed = FALSE]
      <4>2. c \in Subscription /\ c.source = copy[r].source /\ c.failed = FALSE
        BY <2>3 DEF Subscription
      <4>3. c.synced = TRUE
        BY <2>3, <3>3 DEF Subscription
      <4> HIDE DEF c
      <4>4. c = [source |-> copy[r].source, synced |-> TRUE, failed |-> FALSE]
        BY <4>1, <4>2, <4>3
      <4> QED
        BY <4>4 DEF c
    <3> QED
      BY <3>4, <3>5
  <2> QED
    BY <2>2, <2>4, <2>5 DEF RefreshKept, AfterNodes, AfterCache, AfterGroups
<1>2. ASSUME UNCHANGED vars PROVE [Complete]_vars
  BY <1>2
<1>3. ImportIInv /\ [ImportNext]_allVars => [Complete]_vars
  BY <1>1, <1>2 DEF allVars
<1> QED
  BY <1>3, ImportIInvCorrect, PTL DEF ImportSpec, RefreshIsComplete

\* A refresh returns with all of its download stored, or with the failure on record, unless
\* the subscription is gone, whatever runs beside it.
THEOREM FailuresAreRecorded == ImportSpec => FailureRecorded
<1> DEFINE Recorded ==
      \A r \in Refreshers :
        pc[r] # "idle" /\ pc'[r] = "idle" /\ subs'[id[r]] # None =>
            parts[r] = Parts \/ subs'[id[r]].failed
<1>1. ASSUME ImportIInv, ImportNext PROVE Recorded
  <2> SUFFICES ASSUME NEW r \in Refreshers, pc[r] # "idle", pc'[r] = "idle", subs'[id[r]] # None
               PROVE  parts[r] = Parts \/ subs'[id[r]].failed
    OBVIOUS
  <2>1. Read(r) \/ Finish(r) \/ MarkSyncFailure(r)
    <3>1. \A i \in Importers : ~ImportStep(i)
      BY <1>1, ImportFrame DEF ImportIInv
    <3>2. ~Handler
      BY DEF Handler
    <3>3. PICK q \in Refreshers : RefreshStep(q) \/ \E n \in Names : Refresh(q, n)
      BY <1>1, <3>1, <3>2 DEF ImportNext, Next, Step
    <3>4. q = r
      BY <1>1, <3>3, RefreshFrame DEF ImportIInv
    <3> QED
      BY <1>1, <3>3, <3>4 DEF RefreshStep, Refresh, Fetched, FetchFails, SaveNodes, SaveCache,
         GroupsRead, GroupsUpdate, GroupsCreate, RulesRead, RulesUpdate, RulesCreate, SaveFails,
         At, Goto, ImportIInv, Holds
  <2>2. id[r] \in Names
    BY <1>1 DEF ImportIInv, Holds, RefreshHolds
  <2>3. CASE Read(r)
    <3>1. pc'[r] # "fetch" /\ pc \in [Refreshers -> Points]
      BY <1>1 DEF ImportIInv, Holds
    <3>2. subs[id[r]] = None
      BY <2>3, <3>1 DEF Read, Points
    <3> QED
      BY <2>3, <3>2 DEF Read, Reads, storeVars
  <2>4. CASE Finish(r)
    <3>1. pc[r] = "finish"
      BY <2>4 DEF Finish, At
    <3>2. Parts \subseteq parts[r] /\ parts[r] \subseteq Parts
      BY <1>1, <3>1 DEF ImportIInv, PartsHold, PartsAt, AfterNodes, AfterCache, AfterGroups, Parts
    <3> QED
      BY <3>2
  <2>5. CASE MarkSyncFailure(r)
    <3>1. UpdateSubscription(id[r], id[r], Saved(r, TRUE))
      BY <2>5 DEF MarkSyncFailure, storeVars
    <3>2. subs'[id[r]] = Saved(r, TRUE)
      BY <1>1, <2>2, <3>1 DEF UpdateSubscription, ImportIInv, Holds, StoreTypeOK
    <3> QED
      BY <3>2 DEF Saved
  <2> QED
    BY <2>1, <2>3, <2>4, <2>5
<1>2. ASSUME UNCHANGED vars PROVE [Recorded]_vars
  BY <1>2
<1>3. ImportIInv /\ [ImportNext]_allVars => [Recorded]_vars
  BY <1>1, <1>2 DEF allVars
<1> QED
  BY <1>3, ImportIInvCorrect, PTL DEF ImportSpec, FailureRecorded

\* An import that nothing else wrote beside, and that succeeded, is whole, although it is
\* up to five critical sections without a transaction.
THEOREM ImportsAreComplete == ImportSpec => ImportIsComplete
<1>1. ASSUME ImportIInv, NEW i \in alone \cap Importers, at[i] = "done"
      PROVE  /\ nodeSets[Name(i)] = NodesToSave(i)
             /\ IF job[i].kind = "clash"
                   THEN /\ cached[Name(i)] = job[i].nodes
                        /\ Name(i) \in Stored \cap groupSets \cap ruleSets
                        /\ ~subs[Name(i)].synced /\ ~subs[Name(i)].failed
                   ELSE imported[Name(i)] = NodesToSave(i)
  <2>1. ImportKept(i) /\ Name(i) \in Names
    BY <1>1 DEF ImportIInv, Kept, JobHolds
  <2>2. job[i].kind = "clash" => NodesToSave(i) = job[i].nodes
    BY DEF NodesToSave
  <2> QED
    BY <1>1, <2>1, <2>2 DEF ImportKept, Stored
<1> DEFINE Complete ==
      \A i \in alone \cap Importers : at[i] = "done" /\ at'[i] = "idle" =>
        LET n == Name(i) IN
        /\ nodeSets[n] = NodesToSave(i)
        /\ IF job[i].kind = "clash"
              THEN /\ cached[n] = job[i].nodes
                   /\ n \in Stored \cap groupSets \cap ruleSets
                   /\ ~subs[n].synced /\ ~subs[n].failed
              ELSE imported[n] = NodesToSave(i)
<1>2. ImportIInv => [Complete]_allVars
  BY <1>1
<1> QED
  BY <1>2, ImportIInvCorrect, PTL DEF ImportIsComplete

\* A manual edit of one node neither takes another one away nor brings one back, as long
\* as nothing else is saved between reading the set and saving it.
THEOREM ManualEditsKeepOthers == ImportSpec => ManualEditKeepsOthers
<1> DEFINE KeepsOthers ==
      \A i \in alone \cap Importers :
        at[i] = "managed" /\ at'[i] = "cache" /\ job[i].kind \in {"add", "remove"} =>
        LET n == Name(i)
            before == IF nodeSets[n] = None THEN {} ELSE nodeSets[n]
        IN  /\ nodeSets'[n] \ job[i].nodes = before \ job[i].nodes
            /\ job[i].nodes \subseteq nodeSets'[n] <=> job[i].kind = "add"
<1>1. ASSUME ImportIInv, ImportNext, NEW i \in alone \cap Importers,
             at[i] = "managed", at'[i] = "cache", job[i].kind \in {"add", "remove"}
      PROVE  LET n == Name(i)
                 before == IF nodeSets[n] = None THEN {} ELSE nodeSets[n]
             IN  /\ nodeSets'[n] \ job[i].nodes = before \ job[i].nodes
                 /\ job[i].nodes \subseteq nodeSets'[n] <=> job[i].kind = "add"
  <2> DEFINE n == Name(i)
             before == IF nodeSets[n] = None THEN {} ELSE nodeSets[n]
  <2>1. UpsertManagedNodeSet(n, NodesToSave(i))
    <3>1. PICK j \in Importers : ImportStep(j)
      BY <1>1 DEF ImportNext, importVars
    <3>2. j = i
      BY <1>1, <3>1, ImportFrame DEF ImportIInv
    <3> QED
      BY <1>1, <3>1, <3>2 DEF ImportStep, Import, SaveSubscription, ReadNodeSet, SaveManaged,
         SavePlain, CacheNodes, SaveGroups, SaveRules, Respond, Moves, Fails, ImportIInv, ImportTypes
  <2>2. n \in Names /\ job[i].nodes # {} /\ ImportKept(i)
    BY <1>1 DEF ImportIInv, JobHolds, Kept, Manual
  <2>3. nodeSets'[n] = Merged(i)
    <3>1. NodesToSave(i) = Merged(i)
      BY <1>1, <2>2 DEF NodesToSave, ImportKept, Manual
    <3> QED
      BY <1>1, <2>1, <2>2, <3>1 DEF UpsertManagedNodeSet, ImportIInv, Holds, StoreTypeOK
  <2>4. Merged(i) = IF job[i].kind = "add" THEN before \cup job[i].nodes ELSE before \ job[i].nodes
    BY DEF Merged
  <2> HIDE DEF n, before
  <2> DEFINE after == nodeSets'[n]
  <2> HIDE DEF after
  <2>5. after = IF job[i].kind = "add" THEN before \cup job[i].nodes ELSE before \ job[i].nodes
    BY <2>3, <2>4 DEF after
  <2>6. after \ job[i].nodes = before \ job[i].nodes
    BY <2>5
  <2>7. job[i].kind = "add" => job[i].nodes \subseteq after
    BY <2>5
  <2>8. job[i].kind # "add" => ~(job[i].nodes \subseteq after)
    BY <2>2, <2>5
  <2> QED
    BY <2>6, <2>7, <2>8 DEF n, before, after
<1>2. ASSUME ImportIInv, [ImportNext]_allVars PROVE [KeepsOthers]_allVars
  BY <1>1, <1>2
<1> QED
  BY <1>2, ImportIInvCorrect, PTL DEF ImportSpec, ManualEditKeepsOthers
=============================================================================
