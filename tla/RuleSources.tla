---------------------------- MODULE RuleSources ----------------------------
(***************************************************************************)
(* Rule source repositories and the index of their files: the store        *)
(* (internal/repository/store.go) under its mutex, and the handlers that   *)
(* refresh an index (internal/api/server.go), which download trees between *)
(* two critical sections while others edit or delete the repository.       *)
(*                                                                         *)
(* The index is three tables: a row per repository, directories, entries.  *)
(* What a branch holds when it is downloaded is any of Trees[ref]; the     *)
(* requests for one tree are one step, and fail as one.  Times, names and  *)
(* descriptions are left out, and a search is by filters only.             *)
(***************************************************************************)
EXTENDS RuleSourceIndex

CONSTANTS
    Ids,                \* ids of repositories
    BuiltIn,            \* the one that is built in
    BuiltInRepository,
    RepoChoices,        \* what users may save as a repository
    Trees,              \* what each branch may hold
    Archive,            \* what the branches held when the snapshot was generated
    Clients             \* handlers that refresh

ASSUME BuiltInIsId == BuiltIn \in Ids
ASSUME BuiltInIsRepository == BuiltInRepository \in Repository
ASSUME ChoicesAreRepositories == RepoChoices \subseteq Repository
ASSUME TreesOfPaths ==
    /\ Trees \in [GitRefs -> SUBSET SUBSET Path]
    /\ \A ref \in GitRefs : \A tree \in Trees[ref] :
         IsFiniteSet(tree) /\ \A p \in tree : p.segs # <<>>
ASSUME ArchiveOfBranches ==
    /\ Archive \in [Cores -> SUBSET Path]
    /\ \A core \in Cores :
         LET mapping == BuiltInRepository.mappings[core] IN
         /\ mapping # None /\ mapping.root = <<>> /\ Archive[core] \in Trees[mapping.ref]
         /\ \A p \in Archive[core] : p.segs # <<NoName>>

Header == [owner : Owners, refs : [Cores -> {None} \cup GitRefs]]
ASSUME NoneIsNothing ==
    None \notin Ids \cup Cores \cup ExtensionSet \cup Behaviors \cup Mapping \cup Repository
                 \cup File \cup Header

VARIABLES
    repos,         \* the stored repositories
    header,        \* rule_source_index_repositories: owner and refs of an index
    directories,   \* rule_source_index_directories
    entries,       \* rule_source_index_entries: files by key and core
    pc, job        \* where a handler is, and what it has read

indexVars == <<header, directories, entries>>
vars == <<repos, indexVars, pc, job>>

NoEntries == [k \in {} |-> None]
NoJob == [id |-> None, core |-> None, repo |-> None, todo |-> {}, paths |-> [c \in Cores |-> {}]]

\* GetRuleSourceRepository: the built-in repository hides a stored one.
Found(id) == IF id = BuiltIn THEN BuiltInRepository ELSE repos[id]
CoresOf(repo) == {core \in Cores : repo.mappings[core] # None}

\* The index that is part of the program, made by cmd/rule-source-snapshot.
Snapshot == BuildIndex(BuiltInRepository, Archive)

Init ==
    /\ repos = [id \in Ids |-> None]
    /\ header = [id \in Ids |-> None]
    /\ directories = [id \in Ids |-> {}]
    /\ entries = [id \in Ids |-> NoEntries]
    /\ pc = [c \in Clients |-> "idle"]
    /\ job = [c \in Clients |-> NoJob]

-----------------------------------------------------------------------------
(* Repositories *)

\* Creating one replaces one of the same id.
CreateRepository(id) ==
    /\ id # BuiltIn
    /\ \E repo \in RepoChoices : repos' = [repos EXCEPT ![id] = repo]
    /\ UNCHANGED <<indexVars, pc, job>>

\* The input may name any new id; the row of the old one is deleted second, and may
\* stay.  The index stays where it is.
UpdateRepository(id, new) ==
    /\ id # BuiltIn
    /\ repos[id] # None
    /\ \E repo \in RepoChoices :
         \/ repos' = [[repos EXCEPT ![id] = None] EXCEPT ![new] = repo]
         \/ repos' = [repos EXCEPT ![new] = repo]
    /\ UNCHANGED <<indexVars, pc, job>>

\* Mutant: directories before entries.
DeleteRepositoryMutant(id) ==
    /\ id # BuiltIn
    /\ repos[id] # None
    /\ repos' = [repos EXCEPT ![id] = None]
    /\ \E done \in 0..3 :
         /\ directories' = IF done < 1 THEN directories ELSE [directories EXCEPT ![id] = {}]
         /\ entries' = IF done < 2 THEN entries ELSE [entries EXCEPT ![id] = NoEntries]
         /\ header' = IF done < 3 THEN header ELSE [header EXCEPT ![id] = None]
    /\ UNCHANGED <<pc, job>>

\* Four statements without a transaction, of which the first is done and the others may
\* not be; a repository whose deletion has failed halfway is not found a second time.
DeleteRepository(id) ==
    /\ id # BuiltIn
    /\ repos[id] # None
    /\ repos' = [repos EXCEPT ![id] = None]
    /\ \E done \in 0..3 :
         /\ entries' = IF done < 1 THEN entries ELSE [entries EXCEPT ![id] = NoEntries]
         /\ directories' = IF done < 2 THEN directories ELSE [directories EXCEPT ![id] = {}]
         /\ header' = IF done < 3 THEN header ELSE [header EXCEPT ![id] = None]
    /\ UNCHANGED <<pc, job>>

-----------------------------------------------------------------------------
(* Refreshing *)

StartIndexRefresh(c, id) ==
    /\ pc[c] = "idle"
    /\ Found(id) # None
    /\ pc' = [pc EXCEPT ![c] = "fetch"]
    /\ job' = [job EXCEPT ![c] = [NoJob EXCEPT !.id = id, !.repo = Found(id),
                                               !.todo = CoresOf(Found(id))]]
    /\ UNCHANGED <<repos, indexVars>>

StartSelectableRefresh(c, id, core) ==
    /\ pc[c] = "idle"
    /\ Found(id) # None
    /\ core \in CoresOf(Found(id))
    /\ pc' = [pc EXCEPT ![c] = "fetch"]
    /\ job' = [job EXCEPT ![c] = [NoJob EXCEPT !.id = id, !.core = core, !.repo = Found(id),
                                               !.todo = {core}]]
    /\ UNCHANGED <<repos, indexVars>>

\* The mappings are downloaded one after the other; their order makes no difference.
Fetch(c) ==
    /\ pc[c] = "fetch"
    /\ \E core \in job[c].todo :
         LET mapping == job[c].repo.mappings[core] IN
         \E tree \in Trees[mapping.ref] :
           job' = [job EXCEPT ![c].todo = @ \ {core},
                              ![c].paths[core] =
                                LET paths == Relative(mapping, tree) IN
                                IF job[c].core = None THEN {p \in paths : Indexable(core, p)}
                                ELSE Selectable(core, paths)]
    /\ pc' = [pc EXCEPT ![c] = IF job'[c].todo = {} THEN "store" ELSE "fetch"]
    /\ UNCHANGED <<repos, indexVars>>

Done(c) ==
    /\ pc' = [pc EXCEPT ![c] = "idle"]
    /\ job' = [job EXCEPT ![c] = NoJob]

\* A full refresh of the built-in repository goes on with the snapshot.
FetchFails(c) ==
    /\ pc[c] = "fetch"
    /\ IF job[c].core = None /\ job[c].id = BuiltIn
          THEN pc' = [pc EXCEPT ![c] = "snapshot"] /\ UNCHANGED job
          ELSE Done(c)
    /\ UNCHANGED <<repos, indexVars>>

\* One transaction over the three tables.
Write(id, index) ==
    /\ header' = [header EXCEPT ![id] = [owner |-> index.owner, refs |-> index.refs]]
    /\ directories' = [directories EXCEPT ![id] = Directories(index.entries)]
    /\ entries' = [entries EXCEPT ![id] = index.entries]

\* UpsertRuleSourceIndex: whatever has become of the repository.
StoreIndex(c) ==
    /\ \/ pc[c] = "snapshot"
       \/ pc[c] = "store" /\ job[c].core = None
    /\ Write(job[c].id, IF pc[c] = "snapshot" THEN Snapshot
                        ELSE BuildIndex(job[c].repo, job[c].paths))
    /\ Done(c)
    /\ UNCHANGED repos

\* The stored index; entries count only with their row.
Existing(id) ==
    IF header[id] = None
    THEN [owner |-> None, refs |-> [c \in Cores |-> None], entries |-> NoEntries]
    ELSE [owner |-> header[id].owner, refs |-> header[id].refs, entries |-> entries[id]]

\* UpsertRuleSourceSelectableFiles: the repository is read again, the files are those of
\* the branch that was downloaded.
StoreSelectable(c) ==
    /\ pc[c] = "store"
    /\ job[c].core # None
    /\ Found(job[c].id) # None
    /\ job[c].core \in CoresOf(Found(job[c].id))
    /\ Write(job[c].id, WithSelectable(Found(job[c].id), job[c].core, Existing(job[c].id),
                                       job[c].paths[job[c].core]))
    /\ Done(c)
    /\ UNCHANGED repos

StoreSelectableRefused(c) ==
    /\ pc[c] = "store"
    /\ job[c].core # None
    /\ Found(job[c].id) # None => job[c].core \notin CoresOf(Found(job[c].id))
    /\ Done(c)
    /\ UNCHANGED <<repos, indexVars>>

Next ==
    \/ \E id \in Ids : CreateRepository(id) \/ DeleteRepository(id)
    \/ \E id, new \in Ids : UpdateRepository(id, new)
    \/ \E c \in Clients, id \in Ids : StartIndexRefresh(c, id)
    \/ \E c \in Clients, id \in Ids, core \in Cores : StartSelectableRefresh(c, id, core)
    \/ \E c \in Clients : \/ Fetch(c) \/ FetchFails(c)
                          \/ StoreIndex(c) \/ StoreSelectable(c) \/ StoreSelectableRefused(c)

Spec == Init /\ [][Next]_vars
-----------------------------------------------------------------------------
(* Properties *)

IsEntries(es) ==
    /\ DOMAIN es \subseteq Path
    /\ \A k \in DOMAIN es : es[k] \in [Cores -> {None} \cup File]

TypeOK ==
    /\ repos \in [Ids -> {None} \cup Repository]
    /\ header \in [Ids -> {None} \cup Header]
    /\ directories \in [Ids -> SUBSET Seq(Segments)]
    /\ DOMAIN entries = Ids /\ \A id \in Ids : IsEntries(entries[id])
    /\ pc \in [Clients -> {"idle", "fetch", "store", "snapshot"}]
    /\ job \in [Clients ->
         [id : {None} \cup Ids, core : {None} \cup Cores, repo : {None} \cup Repository,
          todo : SUBSET Cores, paths : [Cores -> SUBSET Path]]]

\* The branch an index names for a core is the branch all its files of that core are
\* downloaded from, although cores are refreshed one at a time, from repositories that
\* are edited meanwhile, and entries, directories and row are deleted one by one.
RefsNameFiles ==
    \A id \in Ids : \A k \in DOMAIN entries[id] : \A core \in Cores :
      LET file == entries[id][k][core] IN
      file # None => header[id] # None /\ header[id].refs[core] = file.url.ref

\* Refreshing the files of one core changes no stored file of another.
OtherCoresKept ==
    [][\A c \in Clients : pc[c] = "store" /\ job[c].core # None /\ pc'[c] = "idle" =>
         \A other \in Cores \ {job[c].core} :
           LET files(es) == {es[k][other] : k \in DOMAIN es} \ {None}
           IN files(entries'[job[c].id]) = files(entries[job[c].id])]_vars

\* The root that a file was addressed with, and whether it and the path of the file, with
\* nothing in between, are the path b.
RootOf(file) == SubSeq(file.url.path.segs, 1, Len(file.url.path.segs) - Len(file.path.segs))
RunTogether(root, p, b) ==
    LET n == Len(root) IN
    /\ n \in 1..Len(b.segs)
    /\ SubSeq(b.segs, 1, n - 1) = SubSeq(root, 1, n - 1)
    /\ Rest[<<b.segs[n], root[n]>>] = p.segs[1]
    /\ p = [b EXCEPT !.segs = <<p.segs[1]>> \o SubSeq(b.segs, n + 1, Len(b.segs))]

\* A file that a full refresh offers was in its branch, under the address offered; or it
\* was outside the root of the mapping, or the root ended inside a name of its path, and the
\* address offered is the root with what was left wrongly put behind it.  (Files for one
\* core are stored with the address of the repository as it is then, and may be nowhere if
\* that was edited meanwhile.)
OfferedFilesExist ==
    \A id \in Ids : \A k \in DOMAIN entries[id] : \A core \in Cores :
      LET file == entries[id][k][core] IN
      k.ext = None /\ file # None =>
        \E tree \in Trees[file.url.ref] :
          \/ file.url.path \in tree
          \/ file.path \in tree
          \/ \E b \in tree : RunTogether(RootOf(file), file.path, b)

\* Whatever the index of a repository offers for a core can be saved as an asset of that
\* core, as long as the repository maps it; except that the files selectable for mihomo
\* include compiled ones of classical rules, which a full refresh leaves out.
OfferedFilesSavable ==
    \A id \in Ids : \A k \in DOMAIN entries[id] : \A core \in Cores :
      LET file == entries[id][k][core]
          asset == [mode |-> "repository-file", repository |-> id, location |-> file.path,
                    format |-> Format(core, file.path.ext), behavior |-> file.behavior]
      IN file # None /\ Found(id) # None /\ Found(id).mappings[core] # None =>
           \/ Accepted(Found(id), core, asset)
           \/ k.ext = "mrs" /\ file.behavior = "classical"
=============================================================================
