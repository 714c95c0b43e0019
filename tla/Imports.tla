------------------------------- MODULE Imports -------------------------------
(***************************************************************************)
(* Imports and manual nodes (internal/importer/service.go) beside the      *)
(* refreshes and edits of SubSync.  What is imported comes with the request*)
(* and is parsed before anything is saved; then the import does one        *)
(* critical section of the store after another, and an error ends it where *)
(* it is.  A manual edit reads the node set, changes the copy and saves it,*)
(* without a lock in between.                                              *)
(*                                                                         *)
(* The formats are left out: an import holds any set of node names.        *)
(***************************************************************************)
EXTENDS SubSync

CONSTANT Importers   \* goroutines inside an import; alone tells of them, too

ASSUME ImportersAreOthers == Importers \cap Refreshers = {}

VARIABLES
    at,         \* where an import is
    job,        \* its kind, the name it saves under and its nodes
    merged,     \* the nodes a manual edit is to save
    imported    \* node_cache_sources rows of imported and of manual node sets

importVars == <<at, job, merged, imported>>
allVars == <<vars, importVars>>

Jobs == [kind : {"clash", "plain", "add", "remove"}, name : Names \cup {None}, nodes : SUBSET NodeNames]
NoJob == [kind |-> "clash", name |-> None, nodes |-> {}]

ImportInit ==
    /\ Init
    /\ at = [i \in Importers |-> "idle"]
    /\ job = [i \in Importers |-> NoJob]
    /\ merged = [i \in Importers |-> {}]
    /\ imported = [n \in Names |-> {}]

Name(i) == job[i].name

Moves(i, from, to) ==
    /\ at[i] = from
    /\ at' = [at EXCEPT ![i] = to]
    /\ UNCHANGED <<job, merged>>

\* A critical section that saves something; nobody else is alone then.
Saves(i) == Writes(i) /\ UNCHANGED <<pc, id, copy, nodes, parts>>

\* The request was refused, or a step failed: what was saved stays.
Fails(i, from) == Moves(i, from, "failed") /\ UNCHANGED <<vars, imported>>

-----------------------------------------------------------------------------
(* The parts of the four operations *)

\* A manual edit is of one node; an import of links has at least one.
Import(i) ==
    /\ at[i] = "idle"
    /\ \E j \in Jobs :
          /\ j.name # None
          /\ j.kind \in {"add", "remove"} => \E x \in NodeNames : j.nodes = {x}
          /\ j.kind = "plain" => j.nodes # {}
          /\ job' = [job EXCEPT ![i] = j]
          /\ at' = [at EXCEPT ![i] =
                CASE j.kind = "clash" -> "subscription" [] j.kind = "plain" -> "save"
                  [] OTHER -> "read"]
    /\ alone' = alone \cup {i}
    /\ UNCHANGED <<storeVars, pc, id, copy, nodes, parts, merged, imported>>

\* An upsert: a subscription that has the name starts anew, without a status.
SaveSubscription(i) ==
    /\ Moves(i, "subscription", "managed")
    /\ \E s \in Sources \cup {None} : CreateSubscription(Name(i), s)
    /\ Saves(i)
    /\ UNCHANGED imported

\* Mutant: the nodes that were there are forgotten.
MergedMutant(i) == IF job[i].kind = "add" THEN job[i].nodes ELSE {}

\* mergeManualNodes: a node of the same tag is replaced.
Merged(i) ==
    LET stored == nodeSets[Name(i)]
        current == IF stored = None THEN {} ELSE stored
    IN  IF job[i].kind = "add" THEN current \cup job[i].nodes ELSE current \ job[i].nodes

\* Removing a node that is not there is refused.
ReadNodeSet(i) ==
    /\ at[i] = "read"
    /\ LET stored == nodeSets[Name(i)]
           refused == job[i].kind = "remove"
                        /\ (stored = None \/ ~(job[i].nodes \subseteq stored))
       IN  at' = [at EXCEPT ![i] = IF refused THEN "failed" ELSE "managed"]
    /\ merged' = [merged EXCEPT ![i] = Merged(i)]
    /\ UNCHANGED <<vars, job, imported>>

NodesToSave(i) == IF job[i].kind \in {"add", "remove"} THEN merged[i] ELSE job[i].nodes

SaveManaged(i) ==
    \/ /\ Moves(i, "managed", "cache")
       /\ UpsertManagedNodeSet(Name(i), NodesToSave(i))
       /\ Saves(i)
       /\ UNCHANGED imported
    \/ Fails(i, "managed")

\* CreateNodeSet replaces a set that has the name and checks no names.
SavePlain(i) ==
    /\ Moves(i, "save", "cache")
    /\ SaveNodeSet(Name(i), Name(i), job[i].nodes)
    /\ Saves(i)
    /\ UNCHANGED imported

CacheNodes(i) ==
    /\ Moves(i, "cache", IF job[i].kind = "clash" THEN "groups" ELSE "done")
    /\ IF job[i].kind = "clash"
          THEN UpsertNodeCache(Name(i), NodesToSave(i)) /\ UNCHANGED imported
          ELSE /\ imported' = [imported EXCEPT ![Name(i)] = NodesToSave(i)]
               /\ UNCHANGED storeVars
    /\ Saves(i)

\* Mutant: a group set is left to the first refresh.
SaveGroupsMutant(i) ==
    /\ Moves(i, "groups", "rules")
    /\ UNCHANGED storeVars
    /\ Saves(i)
    /\ UNCHANGED imported

SaveGroups(i) ==
    /\ Moves(i, "groups", "rules")
    /\ SaveGroupSet(Name(i))
    /\ Saves(i)
    /\ UNCHANGED imported

SaveRules(i) ==
    /\ Moves(i, "rules", "done")
    /\ SaveRuleSet(Name(i))
    /\ Saves(i)
    /\ UNCHANGED imported

Respond(i) ==
    /\ at[i] \in {"done", "failed"}
    /\ at' = [at EXCEPT ![i] = "idle"]
    /\ job' = [job EXCEPT ![i] = NoJob]
    /\ merged' = [merged EXCEPT ![i] = {}]
    /\ UNCHANGED <<vars, imported>>

ImportStep(i) ==
    \/ Import(i) \/ SaveSubscription(i) \/ ReadNodeSet(i) \/ SaveManaged(i) \/ SavePlain(i)
    \/ CacheNodes(i) \/ SaveGroups(i) \/ SaveRules(i) \/ Respond(i)

ImportNext ==
    \/ Next /\ UNCHANGED importVars
    \/ \E i \in Importers : ImportStep(i)

ImportSpec == ImportInit /\ [][ImportNext]_allVars

-----------------------------------------------------------------------------
(* Properties *)

\* An import that nothing wrote beside and that succeeded is whole: its nodes are saved
\* and cached under one name, and those of a subscription have the subscription, a
\* group set and a rule set.  (Five critical sections, and no transaction around them.)
ImportIsComplete ==
    [][\A i \in alone \cap Importers : at[i] = "done" /\ at'[i] = "idle" =>
        LET n == Name(i) IN
        /\ nodeSets[n] = NodesToSave(i)
        /\ IF job[i].kind = "clash"
              THEN /\ cached[n] = job[i].nodes
                   /\ n \in Stored \cap groupSets \cap ruleSets
                   /\ ~subs[n].synced /\ ~subs[n].failed
              ELSE imported[n] = NodesToSave(i)]_allVars

\* Editing one manual node never takes another one away, nor brings one back, as long as
\* nothing else is saved between reading the set and saving it.
ManualEditKeepsOthers ==
    [][\A i \in alone \cap Importers :
        at[i] = "managed" /\ at'[i] = "cache" /\ job[i].kind \in {"add", "remove"} =>
        LET n == Name(i)
            before == IF nodeSets[n] = None THEN {} ELSE nodeSets[n]
        IN  /\ nodeSets'[n] \ job[i].nodes = before \ job[i].nodes
            /\ job[i].nodes \subseteq nodeSets'[n] <=> job[i].kind = "add"]_allVars
=============================================================================
