-------------------------- MODULE RuleSourcesProofs --------------------------
(***************************************************************************)
(* Proofs about RuleSources and its reads, for all ids, repositories, trees *)
(* of files and clients: the types, the branches an index names, which files *)
(* it offers, that searches of the tables and of the snapshot agree, and that *)
(* the pages of an index, flat or by directory, show all of it.            *)
(***************************************************************************)
EXTENDS RuleSourceReads, FiniteSetTheorems, WellFoundedInduction, TLAPS

-----------------------------------------------------------------------------
(* The operators on paths and indexes *)

\* A path without the root of a mapping is a path.
LEMMA TrimRootType ==
  ASSUME NEW root \in Seq(Segments), NEW p \in Path
  PROVE  TrimRoot(root, p) \in Path
<1> DEFINE n == Len(root)
           below == SubSeq(p.segs, n + 1, Len(p.segs))
           rest == Rest[<<p.segs[n], root[n]>>]
           left == IF rest = NoName /\ (below # <<>> \/ p.ext = None) THEN below
                   ELSE <<rest>> \o below
<1>1. below \in Seq(Segments)
  BY DEF Path
<1>2. ASSUME n \in 1..Len(p.segs), rest # None PROVE left \in Seq(Segments)
  <2>1. p.segs[n] \in Segments /\ root[n] \in Segments
    BY <1>2 DEF Path
  <2>2. rest \in Segments
    BY <1>2, <2>1, RestsOfNames
  <2>3. <<rest>> \in Seq(Segments)
    BY <2>2
  <2> HIDE DEF rest, below
  <2> QED
    BY <1>1, <2>3
<1>3. TrimRoot(root, p) = IF n \in 1..Len(p.segs)
                             /\ SubSeq(p.segs, 1, n - 1) = SubSeq(root, 1, n - 1) /\ rest # None
                          THEN [p EXCEPT !.segs = left] ELSE p
  BY DEF TrimRoot
<1> HIDE DEF left, rest, n
<1> QED
  BY <1>2, <1>3 DEF Path

\* What is below the root of a mapping, made relative to it, are paths.
LEMMA RelativeType ==
  ASSUME NEW mapping \in Mapping, NEW blobs \in SUBSET Path
  PROVE  Relative(mapping, blobs) \in SUBSET Path
BY TrimRootType DEF Relative, Mapping

\* The address of a file is on the branch of the mapping.
LEMMA RawURLType ==
  ASSUME NEW repo \in Repository, NEW core \in Cores, repo.mappings[core] # None,
         NEW p \in Path
  PROVE  /\ RawURL(repo, core, p) \in [owner : Owners, ref : GitRefs, path : Path]
         /\ RawURL(repo, core, p).ref = repo.mappings[core].ref
<1>1. repo.mappings[core] \in Mapping /\ repo.owner \in Owners
  BY DEF Repository
<1>2. [p EXCEPT !.segs = repo.mappings[core].root \o @] \in Path
  <2>1. repo.mappings[core].root \o p.segs \in Seq(Segments)
    BY <1>1 DEF Mapping, Path
  <2> QED
    BY <2>1 DEF Path
<1> QED
  BY <1>1, <1>2 DEF RawURL, Mapping

\* Every path has one of the behaviours of rules.
LEMMA BehaviorType == ASSUME NEW p PROVE Behavior(p) \in Behaviors
BY DEF Behavior, Behaviors

\* A file of an index is one.
LEMMA IndexFileType ==
  ASSUME NEW repo \in Repository, NEW core \in Cores, repo.mappings[core] # None,
         NEW p \in Path
  PROVE  /\ IndexFile(repo, core, p) \in File
         /\ IndexFile(repo, core, p).url.ref = repo.mappings[core].ref
BY RawURLType, BehaviorType DEF IndexFile, File

\* The branches of an index are branches.
LEMMA RefsType ==
  ASSUME NEW repo \in Repository
  PROVE  RefsOf(repo) \in [Cores -> {None} \cup GitRefs]
BY DEF RefsOf, Repository, Mapping

\* What an index has to be: files of the branches it names.
IsIndex(index) ==
    /\ index.owner \in Owners
    /\ index.refs \in [Cores -> {None} \cup GitRefs]
    /\ IsEntries(index.entries)
    /\ \A k \in DOMAIN index.entries, core \in Cores :
         index.entries[k][core] # None =>
           index.refs[core] = index.entries[k][core].url.ref

\* An index made of a tree names the branches of its repository.
LEMMA BuildIndexType ==
  ASSUME NEW repo \in Repository, NEW paths \in [Cores -> SUBSET Path]
  PROVE  IsIndex(BuildIndex(repo, paths))
<1> DEFINE chosen == [core \in Cores |-> Chosen(Kept(repo, core, paths[core]))]
           at(core, k) == {p \in chosen[core] : Logical(p) = k}
           keys == {Logical(p) : p \in UNION {chosen[core] : core \in Cores}}
           rows == [k \in keys |-> [core \in Cores |->
                      IF at(core, k) = {} THEN None
                      ELSE IndexFile(repo, core, CHOOSE p \in at(core, k) : TRUE)]]
<1>1. BuildIndex(repo, paths) = [owner |-> repo.owner, refs |-> RefsOf(repo), entries |-> rows]
  BY DEF BuildIndex
<1>2. \A core \in Cores : chosen[core] \subseteq Path /\
        (chosen[core] # {} => repo.mappings[core] # None)
  BY DEF Chosen, Kept
<1>3. keys \subseteq Path
  <2>1. \A p \in Path : Logical(p) \in Path
    BY DEF Logical, Path
  <2> QED
    BY <1>2, <2>1
<1>4. ASSUME NEW k \in keys, NEW core \in Cores
      PROVE  /\ rows[k][core] \in {None} \cup File
             /\ rows[k][core] # None => RefsOf(repo)[core] = rows[k][core].url.ref
  <2>1. CASE at(core, k) = {}
    BY <2>1
  <2>2. CASE at(core, k) # {}
    <3>1. PICK p \in at(core, k) : p = CHOOSE q \in at(core, k) : TRUE
      BY <2>2
    <3>2. p \in Path /\ repo.mappings[core] # None
      BY <1>2, <3>1
    <3>3. rows[k][core] = IndexFile(repo, core, p)
      BY <2>2, <3>1
    <3> QED
      BY <3>2, <3>3, IndexFileType DEF RefsOf
  <2> QED
    BY <2>1, <2>2
<1>5. repo.owner \in Owners
  BY DEF Repository
<1> HIDE DEF keys
<1>6. DOMAIN rows = keys /\ \A k \in keys : rows[k] \in [Cores -> {None} \cup File]
  BY <1>4
<1> HIDE DEF rows
<1> QED
  BY <1>1, <1>3, <1>4, <1>5, <1>6, RefsType DEF IsIndex, IsEntries

\* A selectable file of mihomo has a behavior: a likeliest one exists.
LEMMA SelectableFileType ==
  ASSUME NEW repo \in Repository, NEW core \in Cores, repo.mappings[core] # None,
         NEW p \in Path
  PROVE  /\ SelectableFile(repo, core, p) \in File
         /\ SelectableFile(repo, core, p).url.ref = repo.mappings[core].ref
         /\ core = "mihomo" => SelectableFile(repo, core, p).behavior \in Behaviors
<1> DEFINE best == CHOOSE c \in Candidates(p) : \A d \in Candidates(p) : d[1] <= c[1]
<1>1. best[2] \in Behaviors
  <2>1. \A c \in Candidates(p) : c[1] \in Int /\ c[2] \in Behaviors
    BY BehaviorType DEF Candidates, Behaviors
  <2>2. \E c \in Candidates(p) : \A d \in Candidates(p) : d[1] <= c[1]
    <3>1. <<10, Behavior(p)>> \in Candidates(p)
      BY DEF Candidates
    <3>2. \A c \in Candidates(p) : c[1] \in {10, 80, 90}
      BY DEF Candidates
    <3>3. CASE \E c \in Candidates(p) : c[1] = 90
      BY <3>2, <3>3
    <3>4. CASE ~(\E c \in Candidates(p) : c[1] = 90) /\ \E c \in Candidates(p) : c[1] = 80
      BY <3>2, <3>4
    <3>5. CASE \A c \in Candidates(p) : c[1] = 10
      BY <3>1, <3>5
    <3> QED
      BY <3>2, <3>3, <3>4, <3>5
  <2>3. best \in Candidates(p)
    BY <2>2
  <2> QED
    BY <2>1, <2>3
<1> HIDE DEF best
<1>2. SelectableFile(repo, core, p) =
        [path |-> p, behavior |-> IF core = "mihomo" THEN best[2] ELSE None,
         url |-> RawURL(repo, core, p)]
  BY DEF SelectableFile, best
<1> QED
  BY <1>1, <1>2, RawURLType DEF File

\* Replacing the files of one core keeps an index, and so does making one of them alone.
LEMMA WithSelectableType ==
  ASSUME NEW repo \in Repository, NEW core \in Cores, repo.mappings[core] # None,
         NEW paths \in SUBSET Path, NEW old, IsEntries(old.entries),
         old.refs \in [Cores -> {None} \cup GitRefs],
         \A k \in DOMAIN old.entries, other \in Cores :
           old.entries[k][other] # None => old.refs[other] = old.entries[k][other].url.ref
  PROVE  IsIndex(WithSelectable(repo, core, old, paths))
<1> DEFINE es == Replaced(repo, core, old.entries, paths)
           refs == [old.refs EXCEPT ![core] = repo.mappings[core].ref]
           others == {k \in DOMAIN old.entries :
                        \E other \in Cores \ {core} : old.entries[k][other] # None}
<1>1. WithSelectable(repo, core, old, paths) = [owner |-> repo.owner, refs |-> refs, entries |-> es]
  BY DEF WithSelectable
<1>2. repo.owner \in Owners /\ repo.mappings[core].ref \in GitRefs
  BY DEF Repository, Mapping
<1>3. refs \in [Cores -> {None} \cup GitRefs]
  BY <1>2
<1>4. others \subseteq Path
  BY DEF IsEntries
<1>5. DOMAIN es = others \cup paths
  BY DEF Replaced
<1>6. ASSUME NEW k \in others \cup paths
      PROVE  es[k] = [c \in Cores |->
               IF c = core THEN IF k \in paths THEN SelectableFile(repo, core, k) ELSE None
               ELSE IF k \in others THEN old.entries[k][c] ELSE None]
  BY <1>6 DEF Replaced
<1> HIDE DEF es, refs
<1>7. ASSUME NEW k \in others \cup paths, NEW c \in Cores
      PROVE  /\ es[k][c] \in {None} \cup File
             /\ es[k][c] # None => refs[c] = es[k][c].url.ref
  <2>0. es[k][c] = IF c = core THEN IF k \in paths THEN SelectableFile(repo, core, k) ELSE None
                   ELSE IF k \in others THEN old.entries[k][c] ELSE None
    BY <1>6
  <2>1. CASE c = core
    <3>1. refs[c] = repo.mappings[core].ref
      BY <2>1 DEF refs
    <3>2. k \in paths => /\ SelectableFile(repo, core, k) \in File
                         /\ SelectableFile(repo, core, k).url.ref = repo.mappings[core].ref
      BY SelectableFileType
    <3> QED
      BY <2>0, <2>1, <3>1, <3>2
  <2>2. CASE c # core
    <3>1. refs[c] = old.refs[c]
      BY <2>2 DEF refs
    <3>2. k \in others => old.entries[k][c] \in {None} \cup File
      BY DEF IsEntries
    <3>3. k \in others /\ old.entries[k][c] # None => old.refs[c] = old.entries[k][c].url.ref
      OBVIOUS
    <3> HIDE DEF others
    <3> QED
      BY <2>0, <2>2, <3>1, <3>2, <3>3
  <2> QED
    BY <2>1, <2>2
<1>8. \A k \in DOMAIN es : es[k] \in [Cores -> {None} \cup File]
  BY <1>5, <1>6, <1>7
<1> HIDE DEF others
<1> QED
  BY <1>1, <1>2, <1>3, <1>4, <1>5, <1>7, <1>8 DEF IsIndex, IsEntries

\* The directories of entries are sequences of segments.
LEMMA DirectoriesType ==
  ASSUME NEW es, IsEntries(es)
  PROVE  Directories(es) \in SUBSET Seq(Segments)
<1>1. \A k \in Path, n \in Nat : n <= Len(k.segs) => SubSeq(k.segs, 1, n) \in Seq(Segments)
  BY DEF Path
<1>2. \A k \in Path : Len(k.segs) \in Nat
  BY DEF Path
<1>3. ASSUME NEW k \in DOMAIN es, NEW n \in 1..(Len(k.segs) - 1)
      PROVE  SubSeq(k.segs, 1, n) \in Seq(Segments)
  BY <1>1, <1>2 DEF IsEntries
<1> QED
  BY <1>3 DEF Directories

-----------------------------------------------------------------------------
(* The invariant *)

\* A handler that goes on with a core has it in the repository it has read.
JobInv ==
    \A c \in Clients : pc[c] # "idle" =>
      /\ job[c].id \in Ids /\ job[c].repo \in Repository
      /\ job[c].core \in {None} \cup Cores
      /\ \A core \in job[c].todo : job[c].repo.mappings[core] # None

IInv == TypeOK /\ JobInv /\ RefsNameFiles

\* What is found under an id is a repository.
LEMMA FoundType ==
  ASSUME TypeOK, NEW id \in Ids, Found(id) # None
  PROVE  Found(id) \in Repository
BY BuiltInIsRepository DEF Found, TypeOK

\* Storing an index keeps the invariant.
LEMMA WriteKeeps ==
  ASSUME IInv, NEW c \in Clients, NEW id \in Ids, NEW index, IsIndex(index),
         Write(id, index), Done(c), UNCHANGED repos
  PROVE  IInv'
<1>1. Directories(index.entries) \in SUBSET Seq(Segments)
  BY DirectoriesType DEF IsIndex
<1>2. [owner |-> index.owner, refs |-> index.refs] \in Header
  BY DEF IsIndex, Header
<1>3. NoJob \in [id : {None} \cup Ids, core : {None} \cup Cores, repo : {None} \cup Repository,
                 todo : SUBSET Cores, paths : [Cores -> SUBSET Path]]
  BY DEF NoJob
<1> HIDE DEF NoJob
<1>4. TypeOK'
  BY <1>1, <1>2, <1>3 DEF IInv, TypeOK, Write, Done, IsIndex
<1>5. JobInv'
  BY DEF IInv, TypeOK, JobInv, Done
<1>6. RefsNameFiles'
  <2> SUFFICES ASSUME NEW i \in Ids, NEW k \in DOMAIN entries'[i], NEW core \in Cores,
                      entries'[i][k][core] # None
               PROVE  header'[i] # None /\ header'[i].refs[core] = entries'[i][k][core].url.ref
    BY DEF RefsNameFiles
  <2>1. CASE i = id
    <3>1. /\ entries'[i] = index.entries
          /\ header'[i] = [owner |-> index.owner, refs |-> index.refs]
      BY <2>1 DEF Write, IInv, TypeOK
    <3> QED
      BY <1>2, <3>1, NoneIsNothing DEF IsIndex
  <2>2. CASE i # id
    BY <2>2 DEF Write, IInv, TypeOK, RefsNameFiles
  <2> QED
    BY <2>1, <2>2
<1> QED
  BY <1>4, <1>5, <1>6 DEF IInv

\* Steps that store no index: repositories are edited, handlers read and download.
LEMMA KeepsIndex ==
  ASSUME IInv, UNCHANGED <<header, entries>>
  PROVE  RefsNameFiles'
BY DEF IInv, RefsNameFiles

\* What a refresh of one core stores is an index.
LEMMA StoredIndexType ==
  ASSUME IInv, NEW c \in Clients, StoreSelectable(c)
  PROVE  IsIndex(WithSelectable(Found(job[c].id), job[c].core, Existing(job[c].id),
                                job[c].paths[job[c].core]))
<1> DEFINE id == job[c].id
           core == job[c].core
<1>1. id \in Ids /\ core \in Cores /\ job[c].paths[core] \in SUBSET Path
  BY DEF StoreSelectable, IInv, JobInv, TypeOK
<1>2. Found(id) \in Repository /\ Found(id).mappings[core] # None
  BY <1>1, FoundType DEF StoreSelectable, CoresOf, IInv
<1>3. /\ IsEntries(Existing(id).entries)
      /\ Existing(id).refs \in [Cores -> {None} \cup GitRefs]
      /\ \A k \in DOMAIN Existing(id).entries, other \in Cores :
           Existing(id).entries[k][other] # None =>
             Existing(id).refs[other] = Existing(id).entries[k][other].url.ref
  <2>1. CASE header[id] = None
    BY <2>1 DEF Existing, IsEntries, NoEntries
  <2>2. CASE header[id] # None
    <3>1. header[id].refs \in [Cores -> {None} \cup GitRefs]
      BY <1>1, <2>2 DEF IInv, TypeOK, Header
    <3>2. /\ Existing(id).entries = entries[id]
          /\ Existing(id).refs = header[id].refs
      BY <2>2 DEF Existing
    <3> QED
      BY <1>1, <3>1, <3>2 DEF IInv, TypeOK, RefsNameFiles
  <2> QED
    BY <2>1, <2>2
<1> QED
  BY <1>1, <1>2, <1>3, WithSelectableType

\* Every step keeps the invariant: one step per action.
LEMMA IInvNext == IInv /\ [Next]_vars => IInv'
<1> SUFFICES ASSUME IInv, [Next]_vars PROVE IInv'
  OBVIOUS
<1> DEFINE Jobs == [id : {None} \cup Ids, core : {None} \cup Cores, repo : {None} \cup Repository,
                    todo : SUBSET Cores, paths : [Cores -> SUBSET Path]]
<1>0. NoJob \in Jobs
  BY DEF NoJob
<1> USE DEF IInv
<1>1. ASSUME NEW id \in Ids, CreateRepository(id) PROVE IInv'
  BY <1>1, KeepsIndex, ChoicesAreRepositories DEF CreateRepository, indexVars, TypeOK, JobInv
<1>2. ASSUME NEW id \in Ids, DeleteRepository(id) PROVE IInv'
  <2>1. repos' \in [Ids -> {None} \cup Repository] /\ UNCHANGED <<pc, job>>
    BY <1>2 DEF DeleteRepository, TypeOK
  <2>2. \A i \in Ids \ {id} : header'[i] = header[i] /\ entries'[i] = entries[i]
    BY <1>2 DEF DeleteRepository, TypeOK
  <2>3. PICK done \in 0..3 :
          /\ entries' = IF done < 1 THEN entries ELSE [entries EXCEPT ![id] = NoEntries]
          /\ directories' = IF done < 2 THEN directories ELSE [directories EXCEPT ![id] = {}]
          /\ header' = IF done < 3 THEN header ELSE [header EXCEPT ![id] = None]
    BY <1>2 DEF DeleteRepository
  <2>4. TypeOK'
    BY <2>1, <2>3 DEF TypeOK, IsEntries, NoEntries
  <2>5. JobInv'
    BY <2>1 DEF JobInv
  <2>6. RefsNameFiles'
    <3>1. CASE done < 1
      BY <2>3, <3>1, KeepsIndex
    <3>2. CASE ~(done < 1)
      <4>1. DOMAIN entries'[id] = {}
        BY <2>3, <3>2 DEF TypeOK, NoEntries
      <4> QED
        BY <2>2, <4>1 DEF RefsNameFiles
    <3> QED
      BY <3>1, <3>2
  <2> QED
    BY <2>4, <2>5, <2>6
<1>3. ASSUME NEW id \in Ids, NEW new \in Ids, UpdateRepository(id, new) PROVE IInv'
  BY <1>3, KeepsIndex, ChoicesAreRepositories DEF UpdateRepository, indexVars, TypeOK, JobInv
<1>4. ASSUME NEW c \in Clients, NEW id \in Ids, StartIndexRefresh(c, id) PROVE IInv'
  <2> DEFINE j == [NoJob EXCEPT !.id = id, !.repo = Found(id), !.todo = CoresOf(Found(id))]
  <2>1. Found(id) \in Repository
    BY <1>4, FoundType DEF StartIndexRefresh
  <2>2. CoresOf(Found(id)) \subseteq Cores
    BY DEF CoresOf
  <2>3. /\ j \in Jobs /\ j.id = id /\ j.repo = Found(id) /\ j.core = None
        /\ j.todo = CoresOf(Found(id))
    BY <2>1, <2>2 DEF NoJob
  <2>4. /\ job' = [job EXCEPT ![c] = j] /\ pc' = [pc EXCEPT ![c] = "fetch"]
        /\ UNCHANGED <<repos, header, directories, entries>>
    BY <1>4 DEF StartIndexRefresh, indexVars
  <2> HIDE DEF j
  <2>5. TypeOK'
    BY <2>3, <2>4 DEF TypeOK
  <2>6. JobInv'
    BY <2>1, <2>3, <2>4 DEF TypeOK, JobInv, CoresOf
  <2> QED
    BY <2>4, <2>5, <2>6, KeepsIndex
<1>5. ASSUME NEW c \in Clients, NEW id \in Ids, NEW core \in Cores,
             StartSelectableRefresh(c, id, core)
      PROVE IInv'
  <2> DEFINE j == [NoJob EXCEPT !.id = id, !.core = core, !.repo = Found(id), !.todo = {core}]
  <2>1. Found(id) \in Repository /\ Found(id).mappings[core] # None
    BY <1>5, FoundType DEF StartSelectableRefresh, CoresOf
  <2>2. j \in Jobs /\ j.id = id /\ j.repo = Found(id) /\ j.core = core /\ j.todo = {core}
    BY <2>1 DEF NoJob
  <2>3. /\ job' = [job EXCEPT ![c] = j] /\ pc' = [pc EXCEPT ![c] = "fetch"]
        /\ UNCHANGED <<repos, header, directories, entries>>
    BY <1>5 DEF StartSelectableRefresh, indexVars
  <2> HIDE DEF j
  <2>4. TypeOK'
    BY <2>2, <2>3 DEF TypeOK
  <2>5. JobInv'
    BY <2>1, <2>2, <2>3 DEF TypeOK, JobInv
  <2> QED
    BY <2>3, <2>4, <2>5, KeepsIndex
<1>6. ASSUME NEW c \in Clients, Fetch(c) PROVE IInv'
  <2>0. PICK core \in job[c].todo : \E tree \in Trees[job[c].repo.mappings[core].ref] :
          job' = [job EXCEPT ![c].todo = @ \ {core},
                             ![c].paths[core] =
                               LET paths == Relative(job[c].repo.mappings[core], tree) IN
                               IF job[c].core = None THEN {p \in paths : Indexable(core, p)}
                               ELSE Selectable(core, paths)]
    BY <1>6 DEF Fetch
  <2>1. PICK tree \in Trees[job[c].repo.mappings[core].ref] :
          job' = [job EXCEPT ![c].todo = @ \ {core},
                             ![c].paths[core] =
                               LET paths == Relative(job[c].repo.mappings[core], tree) IN
                               IF job[c].core = None THEN {p \in paths : Indexable(core, p)}
                               ELSE Selectable(core, paths)]
    BY <2>0
  <2> DEFINE mapping == job[c].repo.mappings[core]
             paths == IF job[c].core = None
                      THEN {p \in Relative(mapping, tree) : Indexable(core, p)}
                      ELSE Selectable(core, Relative(mapping, tree))
             j == [job[c] EXCEPT !.todo = @ \ {core}, !.paths[core] = paths]
  <2>2. job[c] \in Jobs /\ core \in Cores /\ mapping # None /\ job[c].repo \in Repository
    BY <1>6 DEF Fetch, TypeOK, JobInv
  <2>3. mapping \in Mapping
    BY <2>2 DEF Repository
  <2>4. tree \in SUBSET Path
    BY <2>3, TreesOfPaths DEF Mapping
  <2>5. paths \in SUBSET Path
    BY <2>3, <2>4, RelativeType DEF Selectable
  <2>6. /\ j \in Jobs /\ j.id = job[c].id /\ j.repo = job[c].repo /\ j.core = job[c].core
        /\ j.todo \subseteq job[c].todo
    BY <2>2, <2>5
  <2>7. job' = [job EXCEPT ![c] = j]
    BY <2>1
  <2>8. /\ pc' = [pc EXCEPT ![c] = IF job'[c].todo = {} THEN "store" ELSE "fetch"] /\ pc[c] = "fetch"
        /\ UNCHANGED <<repos, header, directories, entries>>
    BY <1>6 DEF Fetch, indexVars
  <2> HIDE DEF j
  <2>9. TypeOK'
    BY <2>6, <2>7, <2>8 DEF TypeOK
  <2>10. JobInv'
    BY <2>6, <2>7, <2>8 DEF TypeOK, JobInv
  <2> QED
    BY <2>8, <2>9, <2>10, KeepsIndex
<1>7. ASSUME NEW c \in Clients, FetchFails(c) \/ StoreSelectableRefused(c) PROVE IInv'
  <2>1. UNCHANGED <<repos, header, directories, entries>>
    BY <1>7 DEF FetchFails, StoreSelectableRefused, indexVars
  <2>2. TypeOK'
    BY <1>0, <1>7, <2>1 DEF FetchFails, StoreSelectableRefused, Done, TypeOK
  <2>3. JobInv'
    BY <1>7 DEF FetchFails, StoreSelectableRefused, Done, TypeOK, JobInv
  <2> QED
    BY <2>1, <2>2, <2>3, KeepsIndex
<1>8. ASSUME NEW c \in Clients, StoreIndex(c) PROVE IInv'
  <2>1. job[c].id \in Ids /\ job[c].repo \in Repository /\ job[c].paths \in [Cores -> SUBSET Path]
    BY <1>8 DEF StoreIndex, JobInv, TypeOK
  <2>2. IsIndex(BuildIndex(job[c].repo, job[c].paths))
    BY <2>1, BuildIndexType
  <2>3. IsIndex(Snapshot)
    BY BuildIndexType, BuiltInIsRepository, ArchiveOfBranches DEF Snapshot
  <2> QED
    BY <1>8, <2>1, <2>2, <2>3, WriteKeeps DEF StoreIndex
<1>9. ASSUME NEW c \in Clients, StoreSelectable(c) PROVE IInv'
  <2>1. job[c].id \in Ids
    BY <1>9 DEF StoreSelectable, JobInv
  <2> QED
    BY <1>9, <2>1, StoredIndexType, WriteKeeps DEF StoreSelectable
<1>10. CASE UNCHANGED vars
  BY <1>10, KeepsIndex DEF vars, indexVars, TypeOK, JobInv
<1> QED
  BY <1>1, <1>2, <1>3, <1>4, <1>5, <1>6, <1>7, <1>8, <1>9, <1>10 DEF Next

\* The invariant holds in every state.
LEMMA IInvCorrect == Spec => []IInv
<1>1. Init => IInv
  <2>1. NoJob \in [id : {None} \cup Ids, core : {None} \cup Cores, repo : {None} \cup Repository,
                   todo : SUBSET Cores, paths : [Cores -> SUBSET Path]]
    BY DEF NoJob
  <2> QED
    BY <2>1 DEF Init, IInv, TypeOK, JobInv, RefsNameFiles, NoEntries, IsEntries
<1> QED
  BY <1>1, IInvNext, PTL DEF Spec

\* Repositories, indexes and the work of handlers keep their types.
THEOREM TypeCorrect == Spec => []TypeOK
<1>1. IInv => TypeOK
  BY DEF IInv
<1> QED
  BY <1>1, IInvCorrect, PTL

\* An index names, for every core, the branch its files of that core come from, whatever
\* refreshes, edits and deletions interleave.
THEOREM IndexesNameBranches == Spec => []RefsNameFiles
<1>1. IInv => RefsNameFiles
  BY DEF IInv
<1> QED
  BY <1>1, IInvCorrect, PTL

\* Refreshing the files of one core changes no stored file of another, also when the row
\* of the index was lost, since its entries were lost first.
THEOREM OthersAreKept == Spec => OtherCoresKept
<1> DEFINE Files(es, core) == {es[k][core] : k \in DOMAIN es} \ {None}
           Kept1 == \A c \in Clients : pc[c] = "store" /\ job[c].core # None /\ pc'[c] = "idle" =>
                     \A other \in Cores \ {job[c].core} :
                       Files(entries'[job[c].id], other) = Files(entries[job[c].id], other)
<1>1. ASSUME IInv, [Next]_vars PROVE Kept1
  <2> SUFFICES ASSUME NEW c \in Clients, pc[c] = "store", job[c].core # None, pc'[c] = "idle",
                      NEW other \in Cores \ {job[c].core}, entries' # entries
               PROVE  Files(entries'[job[c].id], other) = Files(entries[job[c].id], other)
    OBVIOUS
  <2> DEFINE id == job[c].id
             core == job[c].core
             old == Existing(id).entries
             paths == job[c].paths[core]
  <2>1. StoreSelectable(c)
    BY <1>1 DEF Next, vars, IInv, TypeOK, indexVars, Done, CreateRepository, DeleteRepository,
       UpdateRepository, StartIndexRefresh, StartSelectableRefresh, Fetch, FetchFails,
       StoreIndex, StoreSelectable, StoreSelectableRefused
  <2>2. id \in Ids /\ core \in Cores
    BY <1>1 DEF IInv, TypeOK, JobInv
  <2>3. entries'[id] = Replaced(Found(id), core, old, paths)
    BY <1>1, <2>1, <2>2 DEF StoreSelectable, Write, WithSelectable, IInv, TypeOK
  <2>4. Files(old, other) = Files(entries[id], other)
    <3>1. CASE header[id] # None
      BY <3>1 DEF Existing
    <3>2. CASE header[id] = None
      <4>1. \A k \in DOMAIN entries[id] : entries[id][k][other] = None
        BY <1>1, <2>2, <3>2 DEF IInv, RefsNameFiles
      <4>2. DOMAIN old = {}
        BY <3>2 DEF Existing, NoEntries
      <4> QED
        BY <4>1, <4>2
    <3> QED
      BY <3>1, <3>2
  <2> HIDE DEF id, core, old, paths
  <2>5. Files(Replaced(Found(id), core, old, paths), other) = Files(old, other)
    <3> DEFINE others == {k \in DOMAIN old : \E o \in Cores \ {core} : old[k][o] # None}
               es == Replaced(Found(id), core, old, paths)
    <3>1. other \in Cores \ {core}
      BY DEF core
    <3>2. DOMAIN es = others \cup paths
      BY DEF Replaced
    <3>3. \A k \in others \cup paths :
            es[k][other] = IF k \in others THEN old[k][other] ELSE None
      BY <3>1 DEF Replaced
    <3>4. \A k \in DOMAIN old \ others : old[k][other] = None
      BY <3>1
    <3>5. others \subseteq DOMAIN old
      OBVIOUS
    <3> HIDE DEF es, others
    <3> QED
      BY <3>2, <3>3, <3>4, <3>5 DEF es
  <2> QED
    BY <2>3, <2>4, <2>5 DEF id
<1>2. Kept1 => \A c \in Clients : pc[c] = "store" /\ job[c].core # None /\ pc'[c] = "idle" =>
         \A other \in Cores \ {job[c].core} :
           LET files(es) == {es[k][other] : k \in DOMAIN es} \ {None}
           IN files(entries'[job[c].id]) = files(entries[job[c].id])
  OBVIOUS
<1> HIDE DEF Kept1
<1>3. Spec => [][Kept1]_vars
  BY <1>1, IInvCorrect, PTL DEF Spec
<1> QED
  BY <1>2, <1>3, PTL DEF OtherCoresKept

-----------------------------------------------------------------------------
(* What an index offers *)

\* What is asked of a file for a core under a key, when its file in the branch is known:
\* a format of the core, a name, a behavior, and that it is not a compiled classical
\* file, unless it stands under its own compiled key.
Savable(k, core, file) ==
    /\ Format(core, file.path.ext) # None
    /\ file.path.segs # <<>>
    /\ core = "mihomo" => file.behavior \in Behaviors
    /\ k.ext = "mrs" \/ ~(Format(core, file.path.ext) = "mrs" /\ file.behavior = "classical")

\* Where a file with the path p may have been in a tree, if it was addressed with a root:
\* below the root, outside it, or where the root ends inside a name.
WasIn(tree, root, p) ==
    \/ [p EXCEPT !.segs = root \o @] \in tree
    \/ p \in tree
    \/ \E b \in tree : RunTogether(root, p, b)

\* A file under a key of a full refresh was in its branch.
Exists(k, file) ==
    k.ext = None => \E tree \in Trees[file.url.ref] :
                      /\ WasIn(tree, RootOf(file), file.path)
                      /\ file.url.path = [file.path EXCEPT !.segs = RootOf(file) \o @]

Sound(es) ==
    \A k \in DOMAIN es, core \in Cores :
      es[k][core] # None => Savable(k, core, es[k][core]) /\ Exists(k, es[k][core])

StoredAreSound == \A id \in Ids : Sound(entries[id])

\* The path p of a core of a repository was in the branch.
Comes(repo, core, p) ==
    \E tree \in Trees[repo.mappings[core].ref] : WasIn(tree, repo.mappings[core].root, p)

\* What a handler has downloaded: names; files of its branches, or of a format of its core.
JobPaths ==
    \A c \in Clients : pc[c] # "idle" => \A core \in Cores : \A p \in job[c].paths[core] :
      /\ p.segs # <<>>
      /\ job[c].core = None => job[c].repo.mappings[core] # None /\ Comes(job[c].repo, core, p)
      /\ job[c].core # None => Format(core, p.ext) # None

FileIInv == StoredAreSound /\ JobPaths

\* The formats of a core are of known extensions; only compiled files are mrs.
LEMMA FormatKnown ==
  ASSUME NEW core \in Cores, NEW ext, Format(core, ext) # None
  PROVE  /\ ext \in ExtensionSet /\ ext # None
         /\ Format(core, ext) = "mrs" => core = "mihomo" /\ ext = "mrs"
<1>1. ext \in DOMAIN Formats[core] /\ Format(core, ext) = Formats[core][ext]
  BY DEF Format
<1>2. ExtensionSet = {"json", "list", "mrs", "srs", "txt", "yaml", "yml"}
  BY DEF ExtensionSet, Extensions
<1>3. CASE core = "mihomo"
  BY <1>1, <1>2, <1>3, NoneIsNothing DEF Formats, MihomoFormats
<1>4. CASE core = "sing-box"
  BY <1>1, <1>2, <1>4, NoneIsNothing DEF Formats, SingBoxFormats
<1> QED
  BY <1>3, <1>4 DEF Cores

\* Putting the root back in front of what it was trimmed from gives the file again.
LEMMA RootAndRest ==
  ASSUME NEW root \in Seq(Segments), NEW s \in Seq(Segments), root \in Starts(s)
  PROVE  root \o SubSeq(s, Len(root) + 1, Len(s)) = s
<1>1. PICK n \in 0..Len(s) : root = SubSeq(s, 1, n)
  BY DEF Starts
<1>2. Len(root) = n
  BY <1>1
<1>3. SubSeq(s, n + 1, Len(s)) \in Seq(Segments) /\ Len(SubSeq(s, n + 1, Len(s))) = Len(s) - n
  OBVIOUS
<1> DEFINE t == root \o SubSeq(s, n + 1, Len(s))
<1>4. t \in Seq(Segments) /\ Len(t) = Len(s)
  BY <1>2, <1>3
<1>5. ASSUME NEW i \in 1..Len(s) PROVE t[i] = s[i]
  <2>1. CASE i <= n
    <3>1. t[i] = root[i]
      BY <1>2, <1>3, <2>1
    <3>2. root[i] = s[i]
      BY <1>1, <2>1
    <3> QED
      BY <3>1, <3>2
  <2>2. CASE i > n
    <3> DEFINE u == SubSeq(s, n + 1, Len(s))
    <3>1. i - n \in 1..Len(u)
      BY <1>3, <2>2
    <3>2. t[i] = u[i - n]
      <4> HIDE DEF u
      <4> QED
        BY <1>2, <1>3, <2>2, <3>1 DEF u
    <3>3. u[i - n] = s[i]
      BY <2>2
    <3> QED
      BY <3>2, <3>3
  <2>3. i <= n \/ i > n
    OBVIOUS
  <2> QED
    BY <2>1, <2>2, <2>3
<1>6. t = s
  BY <1>4, <1>5
<1> QED
  BY <1>2, <1>6

\* A sequence that has the start of another up to its last element, and that as well, is a
\* start of it.
LEMMA LastOfStart ==
  ASSUME NEW root \in Seq(Segments), NEW s \in Seq(Segments), Len(root) \in 1..Len(s),
         SubSeq(s, 1, Len(root) - 1) = SubSeq(root, 1, Len(root) - 1), s[Len(root)] = root[Len(root)]
  PROVE  root = SubSeq(s, 1, Len(root))
<1> DEFINE n == Len(root)
           t == SubSeq(s, 1, n)
<1>1. t \in Seq(Segments) /\ Len(t) = n /\ \A i \in 1..n : t[i] = s[i]
  OBVIOUS
<1>2. \A i \in 1..(n - 1) : SubSeq(s, 1, n - 1)[i] = s[i] /\ SubSeq(root, 1, n - 1)[i] = root[i]
  OBVIOUS
<1>3. \A i \in 1..n : root[i] = s[i]
  BY <1>2
<1> HIDE DEF t
<1>4. \A i \in 1..n : root[i] = t[i]
  BY <1>1, <1>3
<1> QED
  BY <1>1, <1>4 DEF t

\* The root of an address is the part before the path of the file.
LEMMA RootFound ==
  ASSUME NEW root \in Seq(Segments), NEW s \in Seq(Segments)
  PROVE  SubSeq(root \o s, 1, Len(root \o s) - Len(s)) = root
<1> DEFINE t == root \o s
           u == SubSeq(t, 1, Len(root))
<1>1. t \in Seq(Segments) /\ Len(t) = Len(root) + Len(s) /\ \A i \in 1..Len(root) : t[i] = root[i]
  OBVIOUS
<1>2. Len(t) - Len(s) = Len(root)
  BY <1>1
<1> HIDE DEF t
<1>3. u \in Seq(Segments) /\ Len(u) = Len(root) /\ \A i \in 1..Len(root) : u[i] = t[i]
  BY <1>1
<1>4. \A i \in 1..Len(root) : u[i] = root[i]
  BY <1>1, <1>3
<1>5. u = root
  <2> HIDE DEF u
  <2> QED
    BY <1>3, <1>4
<1> QED
  BY <1>2, <1>5 DEF t

\* What a tree gives for a root has a name and was in the tree.
LEMMA RelativeExists ==
  ASSUME NEW mapping \in Mapping, NEW blobs \in SUBSET Path, NEW p \in Relative(mapping, blobs)
  PROVE  p.segs # <<>> /\ WasIn(blobs, mapping.root, p)
<1>1. PICK b \in blobs : p = TrimRoot(mapping.root, b) /\ p.segs # <<>>
  BY DEF Relative
<1> DEFINE root == mapping.root
           n == Len(root)
           below == SubSeq(b.segs, n + 1, Len(b.segs))
           rest == Rest[<<b.segs[n], root[n]>>]
           left == IF rest = NoName /\ (below # <<>> \/ b.ext = None) THEN below
                   ELSE <<rest>> \o below
           trims == /\ n \in 1..Len(b.segs)
                    /\ SubSeq(b.segs, 1, n - 1) = SubSeq(root, 1, n - 1) /\ rest # None
<1>2. p = IF trims THEN [b EXCEPT !.segs = left] ELSE b
  BY <1>1 DEF TrimRoot
<1>3. root \in Seq(Segments) /\ b.segs \in Seq(Segments) /\ b \in Path
  BY DEF Mapping, Path
<1>4. CASE trims /\ left = below
  <2>1. rest = NoName \/ below = <<rest>> \o below
    BY <1>4
  <2>2. below \in Seq(Segments) /\ Len(<<rest>> \o below) = 1 + Len(below)
    <3>1. below \in Seq(Segments) /\ below \in Seq(Segments \cup {rest})
      BY <1>3
    <3>2. <<rest>> \in Seq(Segments \cup {rest}) /\ Len(<<rest>>) = 1
      OBVIOUS
    <3> HIDE DEF below, rest
    <3> QED
      BY <3>1, <3>2
  <2>3. rest = NoName
    <3> HIDE DEF below, rest
    <3> QED
      BY <2>1, <2>2
  <2>4. b.segs[n] \in Segments /\ root[n] \in Segments
    BY <1>3, <1>4
  <2>5. b.segs[n] = root[n]
    BY <2>3, <2>4, RestsOfNames
  <2>6. root = SubSeq(b.segs, 1, n)
    <3>1. n \in 1..Len(b.segs) /\ SubSeq(b.segs, 1, n - 1) = SubSeq(root, 1, n - 1)
      BY <1>4
    <3> QED
      BY <1>3, <2>5, <3>1, LastOfStart DEF n
  <2>7. root \in Starts(b.segs)
    BY <1>3, <1>4, <2>6 DEF Starts
  <2>8. root \o below = b.segs
    BY <1>3, <2>7, RootAndRest
  <2>9. p = [b EXCEPT !.segs = below]
    BY <1>2, <1>4
  <2> HIDE DEF below, n
  <2>10. [p EXCEPT !.segs = root \o @] = b
    BY <1>3, <2>8, <2>9 DEF Path
  <2> QED
    BY <1>1, <2>10 DEF WasIn
<1>5. CASE trims /\ left = <<rest>> \o below
  <2>1. p = [b EXCEPT !.segs = left] /\ p.segs = left
    BY <1>2, <1>3, <1>5 DEF Path
  <2>2. p.segs[1] = rest
    <3>1. below \in Seq(Segments \cup {rest}) /\ <<rest>> \in Seq(Segments \cup {rest})
      BY <1>3
    <3>2. (<<rest>> \o below)[1] = rest
      <4> HIDE DEF below, rest
      <4> QED
        BY <3>1
    <3> HIDE DEF left, below, rest
    <3> QED
      BY <1>5, <2>1, <3>2
  <2>3. p = [b EXCEPT !.segs = <<p.segs[1]>> \o SubSeq(b.segs, n + 1, Len(b.segs))]
    <3> HIDE DEF left, rest
    <3> QED
      BY <1>5, <2>1, <2>2
  <2>4. RunTogether(root, p, b)
    <3>1. /\ Len(root) \in 1..Len(b.segs)
          /\ SubSeq(b.segs, 1, Len(root) - 1) = SubSeq(root, 1, Len(root) - 1)
          /\ Rest[<<b.segs[Len(root)], root[Len(root)]>>] = p.segs[1]
      BY <1>5, <2>2
    <3> QED
      BY <2>3, <3>1 DEF RunTogether
  <2> QED
    BY <1>1, <2>4 DEF WasIn
<1>6. CASE ~trims
  BY <1>1, <1>2, <1>6 DEF WasIn
<1>7. left = below \/ left = <<rest>> \o below
  OBVIOUS
<1> QED
  BY <1>4, <1>5, <1>6, <1>7

\* An index made of files that are in their branches offers only such.
LEMMA BuildIndexSound ==
  ASSUME NEW repo \in Repository, NEW paths \in [Cores -> SUBSET Path],
         \A core \in Cores : \A p \in paths[core] :
           p.segs # <<>> /\ repo.mappings[core] # None /\ Comes(repo, core, p)
  PROVE  Sound(BuildIndex(repo, paths).entries)
<1> DEFINE chosen == [core \in Cores |-> Chosen(Kept(repo, core, paths[core]))]
           at(core, k) == {p \in chosen[core] : Logical(p) = k}
           keys == {Logical(p) : p \in UNION {chosen[core] : core \in Cores}}
           rows == [k \in keys |-> [core \in Cores |->
                      IF at(core, k) = {} THEN None
                      ELSE IndexFile(repo, core, CHOOSE p \in at(core, k) : TRUE)]]
<1>1. BuildIndex(repo, paths).entries = rows
  BY DEF BuildIndex
<1>2. \A core \in Cores : \A p \in chosen[core] : p \in paths[core] /\ Indexable(core, p)
  BY DEF Chosen, Kept
<1>3. ASSUME NEW k \in keys, NEW core \in Cores, rows[k][core] # None
      PROVE  Savable(k, core, rows[k][core]) /\ Exists(k, rows[k][core])
  <2>1. at(core, k) # {} /\ rows[k][core] = IndexFile(repo, core, CHOOSE p \in at(core, k) : TRUE)
    BY <1>3
  <2>2. PICK p \in at(core, k) : rows[k][core] = IndexFile(repo, core, p)
    BY <2>1
  <2> DEFINE file == rows[k][core]
  <2>3. p \in paths[core] /\ Indexable(core, p)
    BY <1>2
  <2> HIDE DEF rows, at, chosen, keys
  <2>4. /\ file.path = p /\ file.url = RawURL(repo, core, p)
        /\ file.behavior = IF core = "mihomo" THEN Behavior(p) ELSE None
    BY <2>2 DEF IndexFile
  <2>5. Savable(k, core, file)
    <3>1. Format(core, p.ext) # None
      BY <2>3 DEF Indexable
    <3>2. ~(Format(core, p.ext) = "mrs" /\ file.behavior = "classical")
      BY <2>3, <2>4, <3>1, FormatKnown DEF Indexable
    <3> QED
      BY <2>3, <2>4, <3>1, <3>2, BehaviorType DEF Savable
  <2>6. Exists(k, file)
    <3> DEFINE root == repo.mappings[core].root
    <3>1. root \in Seq(Segments) /\ p \in Path /\ p.segs \in Seq(Segments)
      BY <2>3 DEF Repository, Mapping, Path
    <3>2. /\ file.url.ref = repo.mappings[core].ref
          /\ file.url.path = [p EXCEPT !.segs = root \o @]
      BY <2>4 DEF RawURL
    <3>3. file.url.path.segs = root \o p.segs
      BY <3>1, <3>2 DEF Path
    <3>4. SubSeq(root \o p.segs, 1, Len(root \o p.segs) - Len(p.segs)) = root
      BY <3>1, RootFound
    <3> HIDE DEF file
    <3>5. RootOf(file) = SubSeq(root \o p.segs, 1, Len(root \o p.segs) - Len(p.segs))
      BY <2>4, <3>3, Zenon DEF RootOf
    <3>6. RootOf(file) = root
      BY <3>4, <3>5, Zenon
    <3>7. PICK tree \in Trees[repo.mappings[core].ref] : WasIn(tree, root, p)
      BY <2>3 DEF Comes
    <3> QED
      BY <2>4, <3>2, <3>6, <3>7, Zenon DEF Exists
  <2> QED
    BY <2>5, <2>6
<1>4. DOMAIN rows = keys
  OBVIOUS
<1> HIDE DEF rows, keys
<1> QED
  BY <1>1, <1>3, <1>4 DEF Sound

\* Replacing the files of one core by selectable ones keeps what is offered sound.
LEMMA ReplacedSound ==
  ASSUME NEW repo \in Repository, NEW core \in Cores, repo.mappings[core] # None,
         NEW paths \in SUBSET Path,
         \A p \in paths : p.segs # <<>> /\ Format(core, p.ext) # None,
         NEW old, Sound(old)
  PROVE  Sound(Replaced(repo, core, old, paths))
<1> DEFINE es == Replaced(repo, core, old, paths)
           others == {k \in DOMAIN old : \E other \in Cores \ {core} : old[k][other] # None}
<1>1. DOMAIN es = others \cup paths
  BY DEF Replaced
<1>2. ASSUME NEW k \in others \cup paths
      PROVE  es[k] = [c \in Cores |->
               IF c = core THEN IF k \in paths THEN SelectableFile(repo, core, k) ELSE None
               ELSE IF k \in others THEN old[k][c] ELSE None]
  BY <1>2 DEF Replaced
<1>3. others \subseteq DOMAIN old
  OBVIOUS
<1> HIDE DEF es, others
<1>4. ASSUME NEW k \in others \cup paths, NEW c \in Cores, es[k][c] # None
      PROVE  Savable(k, c, es[k][c]) /\ Exists(k, es[k][c])
  <2>0. es[k][c] = IF c = core THEN IF k \in paths THEN SelectableFile(repo, core, k) ELSE None
                   ELSE IF k \in others THEN old[k][c] ELSE None
    BY <1>2
  <2>1. CASE c # core
    BY <1>3, <1>4, <2>0, <2>1 DEF Sound
  <2>2. CASE c = core
    <3>1. k \in paths /\ es[k][c] = SelectableFile(repo, core, k)
      BY <1>4, <2>0, <2>2
    <3> DEFINE file == SelectableFile(repo, core, k)
    <3>2. file.path = k
      BY DEF SelectableFile
    <3>3. Format(core, k.ext) # None /\ k.segs # <<>>
      BY <3>1
    <3>4. core = "mihomo" => file.behavior \in Behaviors
      BY <3>1, SelectableFileType
    <3> HIDE DEF file
    <3>5. Savable(k, core, file)
      BY <3>2, <3>3, <3>4, FormatKnown DEF Savable
    <3>6. Exists(k, file)
      BY <3>3, FormatKnown DEF Exists
    <3> QED
      BY <2>2, <3>1, <3>5, <3>6 DEF file
  <2> QED
    BY <2>1, <2>2
<1> QED
  BY <1>1, <1>4 DEF Sound, es

\* Storing a sound index keeps the stored files sound, and ends the work of the handler.
LEMMA WriteSound ==
  ASSUME TypeOK, FileIInv, NEW c \in Clients, NEW id \in Ids, NEW index, Sound(index.entries),
         Write(id, index), Done(c)
  PROVE  FileIInv'
<1>1. entries' = [entries EXCEPT ![id] = index.entries]
  BY DEF Write
<1>2. StoredAreSound'
  <2> SUFFICES ASSUME NEW i \in Ids PROVE Sound(entries'[i])
    BY DEF StoredAreSound, Sound, Savable, Exists
  <2>1. CASE i = id
    BY <1>1, <2>1 DEF TypeOK
  <2>2. CASE i # id
    BY <1>1, <2>2 DEF TypeOK, FileIInv, StoredAreSound
  <2> QED
    BY <2>1, <2>2
<1>3. JobPaths'
  BY DEF Done, TypeOK, FileIInv, JobPaths, Comes
<1> QED
  BY <1>2, <1>3 DEF FileIInv

\* A download gives names that are in the branch, or of the core that was asked for.
LEMMA FetchSound ==
  ASSUME IInv, FileIInv, NEW c \in Clients, Fetch(c)
  PROVE  JobPaths'
<1>1. PICK core \in job[c].todo : \E tree \in Trees[job[c].repo.mappings[core].ref] :
        job' = [job EXCEPT ![c].todo = @ \ {core},
                           ![c].paths[core] =
                             LET paths == Relative(job[c].repo.mappings[core], tree) IN
                             IF job[c].core = None THEN {p \in paths : Indexable(core, p)}
                             ELSE Selectable(core, paths)]
  BY DEF Fetch
<1>2. PICK tree \in Trees[job[c].repo.mappings[core].ref] :
        job' = [job EXCEPT ![c].todo = @ \ {core},
                           ![c].paths[core] =
                             LET paths == Relative(job[c].repo.mappings[core], tree) IN
                             IF job[c].core = None THEN {p \in paths : Indexable(core, p)}
                             ELSE Selectable(core, paths)]
  BY <1>1
<1> DEFINE mapping == job[c].repo.mappings[core]
           paths == IF job[c].core = None
                    THEN {p \in Relative(mapping, tree) : Indexable(core, p)}
                    ELSE Selectable(core, Relative(mapping, tree))
<1>3. job[c].repo \in Repository /\ core \in Cores /\ mapping # None
  BY DEF Fetch, IInv, TypeOK, JobInv
<1>4. mapping \in Mapping
  BY <1>3 DEF Repository
<1>5. tree \in SUBSET Path
  BY <1>4, TreesOfPaths DEF Mapping
<1>6. \A p \in paths : p \in Relative(mapping, tree) /\ (job[c].core # None => Format(core, p.ext) # None)
  BY DEF Selectable
<1>7. ASSUME NEW p \in paths PROVE p.segs # <<>> /\ Comes(job[c].repo, core, p)
  <2>1. p.segs # <<>> /\ WasIn(tree, mapping.root, p)
    BY <1>4, <1>5, <1>6, RelativeExists
  <2> QED
    BY <2>1 DEF Comes
<1>8. job[c] \in [id : {None} \cup Ids, core : {None} \cup Cores, repo : {None} \cup Repository,
                  todo : SUBSET Cores, paths : [Cores -> SUBSET Path]]
  BY DEF IInv, TypeOK
<1>9. /\ job'[c].repo = job[c].repo /\ job'[c].core = job[c].core
      /\ job'[c].paths = [job[c].paths EXCEPT ![core] = paths]
      /\ \A d \in Clients \ {c} : job'[d] = job[d] /\ pc'[d] = pc[d]
  <2>1. job' = [job EXCEPT ![c] = [job[c] EXCEPT !.todo = @ \ {core}, !.paths[core] = paths]]
    BY <1>2
  <2>2. pc' = [pc EXCEPT ![c] = IF job'[c].todo = {} THEN "store" ELSE "fetch"]
    BY DEF Fetch
  <2> HIDE DEF paths
  <2> QED
    BY <1>8, <2>1, <2>2 DEF IInv, TypeOK
<1>10. pc[c] # "idle"
  BY DEF Fetch
<1> HIDE DEF paths, mapping
<1> SUFFICES ASSUME NEW d \in Clients, pc'[d] # "idle", NEW a \in Cores, NEW p \in job'[d].paths[a]
             PROVE  /\ p.segs # <<>>
                    /\ job'[d].core = None => /\ job'[d].repo.mappings[a] # None
                                              /\ Comes(job'[d].repo, a, p)
                    /\ job'[d].core # None => Format(a, p.ext) # None
  BY DEF JobPaths, Comes
<1>11. CASE d # c
  BY <1>9, <1>11 DEF FileIInv, JobPaths
<1>12. CASE d = c /\ a = core
  <2>1. p \in paths
    BY <1>3, <1>8, <1>9, <1>12
  <2> QED
    BY <1>3, <1>6, <1>7, <1>9, <1>12, <2>1 DEF mapping
<1>13. CASE d = c /\ a # core
  <2>1. p \in job[c].paths[a]
    BY <1>8, <1>9, <1>13
  <2> QED
    BY <1>9, <1>10, <1>13, <2>1 DEF FileIInv, JobPaths
<1> QED
  BY <1>11, <1>12, <1>13

\* Every step keeps what is stored and what is downloaded sound.
LEMMA FileIInvNext == IInv /\ FileIInv /\ [Next]_vars => FileIInv'
<1> SUFFICES ASSUME IInv, FileIInv, [Next]_vars PROVE FileIInv'
  OBVIOUS
<1>1. ASSUME UNCHANGED <<entries, pc, job>> PROVE FileIInv'
  BY <1>1, Zenon DEF FileIInv, StoredAreSound, JobPaths
<1>2. ASSUME UNCHANGED entries PROVE StoredAreSound'
  BY <1>2, Zenon DEF FileIInv, StoredAreSound
<1>3. ASSUME NEW id \in Ids, DeleteRepository(id) PROVE FileIInv'
  <2>1. UNCHANGED <<pc, job>>
    BY <1>3 DEF DeleteRepository
  <2>2. \A i \in Ids : entries'[i] = entries[i] \/ entries'[i] = NoEntries
    BY <1>3 DEF DeleteRepository, IInv, TypeOK
  <2>3. StoredAreSound'
    <3> SUFFICES ASSUME NEW i \in Ids PROVE Sound(entries'[i])
      BY DEF StoredAreSound, Sound, Savable, Exists
    <3> QED
      BY <2>2 DEF FileIInv, StoredAreSound, Sound, NoEntries
  <2>4. JobPaths'
    BY <2>1 DEF FileIInv, JobPaths, Comes
  <2> QED
    BY <2>3, <2>4 DEF FileIInv
<1>4. ASSUME NEW c \in Clients, NEW j, \A core \in Cores : j.paths[core] = {},
             job' = [job EXCEPT ![c] = j], pc' = [pc EXCEPT ![c] = "fetch"], UNCHANGED entries
      PROVE FileIInv'
  <2>1. JobPaths'
    BY <1>4 DEF IInv, TypeOK, FileIInv, JobPaths, Comes
  <2> QED
    BY <1>2, <1>4, <2>1 DEF FileIInv
<1>5. ASSUME NEW c \in Clients, NEW id \in Ids, StartIndexRefresh(c, id) PROVE FileIInv'
  <2> DEFINE j == [NoJob EXCEPT !.id = id, !.repo = Found(id), !.todo = CoresOf(Found(id))]
  <2>1. \A core \in Cores : j.paths[core] = {}
    BY DEF NoJob
  <2>2. job' = [job EXCEPT ![c] = j] /\ pc' = [pc EXCEPT ![c] = "fetch"] /\ UNCHANGED entries
    BY <1>5 DEF StartIndexRefresh, indexVars
  <2> HIDE DEF j
  <2> QED
    BY <1>4, <2>1, <2>2
<1>6. ASSUME NEW c \in Clients, NEW id \in Ids, NEW core \in Cores,
             StartSelectableRefresh(c, id, core)
      PROVE FileIInv'
  <2> DEFINE j == [NoJob EXCEPT !.id = id, !.core = core, !.repo = Found(id), !.todo = {core}]
  <2>1. \A a \in Cores : j.paths[a] = {}
    BY DEF NoJob
  <2>2. job' = [job EXCEPT ![c] = j] /\ pc' = [pc EXCEPT ![c] = "fetch"] /\ UNCHANGED entries
    BY <1>6 DEF StartSelectableRefresh, indexVars
  <2> HIDE DEF j
  <2> QED
    BY <1>4, <2>1, <2>2
<1>7. ASSUME NEW c \in Clients, Fetch(c) PROVE FileIInv'
  BY <1>2, <1>7, FetchSound DEF Fetch, indexVars, FileIInv
<1>8. ASSUME NEW c \in Clients, FetchFails(c) \/ StoreSelectableRefused(c) PROVE FileIInv'
  <2>1. UNCHANGED entries
    BY <1>8 DEF FetchFails, StoreSelectableRefused, indexVars
  <2>2. CASE Done(c)
    BY <1>2, <2>1, <2>2 DEF Done, IInv, TypeOK, FileIInv, JobPaths, Comes
  <2>3. CASE pc[c] = "fetch" /\ pc' = [pc EXCEPT ![c] = "snapshot"] /\ UNCHANGED job
    BY <1>2, <2>1, <2>3 DEF IInv, TypeOK, FileIInv, JobPaths, Comes
  <2> QED
    BY <1>8, <2>2, <2>3 DEF FetchFails, StoreSelectableRefused
<1>9. ASSUME NEW c \in Clients, StoreIndex(c) PROVE FileIInv'
  <2>1. job[c].id \in Ids /\ job[c].repo \in Repository /\ job[c].paths \in [Cores -> SUBSET Path]
    BY <1>9 DEF StoreIndex, IInv, JobInv, TypeOK
  <2>2. CASE pc[c] = "snapshot"
    <3>1. ASSUME NEW core \in Cores, NEW p \in Archive[core]
          PROVE  /\ p.segs # <<>> /\ BuiltInRepository.mappings[core] # None
                 /\ Comes(BuiltInRepository, core, p)
      <4> DEFINE mapping == BuiltInRepository.mappings[core]
      <4>1. mapping # None /\ mapping.root = <<>> /\ Archive[core] \in Trees[mapping.ref]
        BY ArchiveOfBranches
      <4>2. mapping \in Mapping
        BY <4>1, BuiltInIsRepository DEF Repository
      <4>3. p.segs # <<>>
        BY <4>1, <4>2, TreesOfPaths DEF Mapping
      <4> QED
        BY <4>1, <4>3 DEF Comes, WasIn
    <3>2. Sound(Snapshot.entries)
      BY <3>1, BuildIndexSound, BuiltInIsRepository, ArchiveOfBranches DEF Snapshot
    <3>3. Write(job[c].id, Snapshot) /\ Done(c)
      BY <1>9, <2>2 DEF StoreIndex
    <3> QED
      BY <2>1, <3>2, <3>3, WriteSound DEF IInv
  <2>3. CASE pc[c] = "store" /\ job[c].core = None
    <3>1. Sound(BuildIndex(job[c].repo, job[c].paths).entries)
      BY <2>1, <2>3, BuildIndexSound DEF FileIInv, JobPaths
    <3>2. Write(job[c].id, BuildIndex(job[c].repo, job[c].paths)) /\ Done(c)
      BY <1>9, <2>3 DEF StoreIndex
    <3> QED
      BY <2>1, <3>1, <3>2, WriteSound DEF IInv
  <2> QED
    BY <1>9, <2>2, <2>3 DEF StoreIndex
<1>10. ASSUME NEW c \in Clients, StoreSelectable(c) PROVE FileIInv'
  <2> DEFINE id == job[c].id
             core == job[c].core
             index == WithSelectable(Found(id), core, Existing(id), job[c].paths[core])
  <2>1. /\ id \in Ids /\ core \in Cores /\ core # None /\ pc[c] = "store"
        /\ job[c].paths[core] \in SUBSET Path
    BY <1>10 DEF StoreSelectable, IInv, JobInv, TypeOK
  <2>2. Found(id) \in Repository /\ Found(id).mappings[core] # None
    BY <1>10, <2>1, FoundType DEF StoreSelectable, CoresOf, IInv
  <2>3. Sound(Existing(id).entries)
    BY <2>1 DEF Existing, FileIInv, StoredAreSound, Sound, NoEntries
  <2>4. \A p \in job[c].paths[core] : p.segs # <<>> /\ Format(core, p.ext) # None
    BY <2>1 DEF FileIInv, JobPaths
  <2>5. index.entries = Replaced(Found(id), core, Existing(id).entries, job[c].paths[core])
    BY DEF WithSelectable
  <2>6. Write(id, index) /\ Done(c)
    BY <1>10 DEF StoreSelectable
  <2> HIDE DEF id, core, index
  <2>7. Sound(index.entries)
    BY <2>1, <2>2, <2>3, <2>4, <2>5, ReplacedSound
  <2> QED
    BY <2>1, <2>6, <2>7, WriteSound DEF IInv
<1>11. ASSUME NEW id \in Ids, NEW new \in Ids, CreateRepository(id) \/ UpdateRepository(id, new)
       PROVE FileIInv'
  BY <1>1, <1>11 DEF CreateRepository, UpdateRepository, indexVars
<1>12. CASE UNCHANGED vars
  BY <1>1, <1>12 DEF vars, indexVars
<1> QED
  BY <1>3, <1>5, <1>6, <1>7, <1>8, <1>9, <1>10, <1>11, <1>12 DEF Next

\* What is stored and what is under way are sound in every state.
LEMMA FileIInvCorrect == Spec => []FileIInv
<1>1. Init => FileIInv
  BY DEF Init, FileIInv, StoredAreSound, JobPaths, Sound, NoEntries
<1> QED
  BY <1>1, FileIInvNext, IInvCorrect, PTL DEF Spec

\* A file that a full refresh offers was in its branch, whatever was edited meanwhile: under
\* its address, outside the root, or where the root of the mapping ends inside a name.
THEOREM OfferedExist == Spec => []OfferedFilesExist
<1>1. FileIInv => OfferedFilesExist
  <2> SUFFICES ASSUME FileIInv, NEW id \in Ids, NEW k \in DOMAIN entries[id], NEW core \in Cores,
                      k.ext = None, entries[id][k][core] # None
               PROVE  LET file == entries[id][k][core] IN
                      \E tree \in Trees[file.url.ref] :
                        \/ file.url.path \in tree
                        \/ file.path \in tree
                        \/ \E b \in tree : RunTogether(RootOf(file), file.path, b)
    BY DEF OfferedFilesExist
  <2> DEFINE file == entries[id][k][core]
  <2>1. Exists(k, file)
    BY DEF FileIInv, StoredAreSound, Sound
  <2> HIDE DEF file
  <2>2. PICK tree \in Trees[file.url.ref] :
          /\ WasIn(tree, RootOf(file), file.path)
          /\ file.url.path = [file.path EXCEPT !.segs = RootOf(file) \o @]
    BY <2>1 DEF Exists
  <2>3. \/ file.url.path \in tree
        \/ file.path \in tree
        \/ \E b \in tree : RunTogether(RootOf(file), file.path, b)
    BY <2>2, Zenon DEF WasIn
  <2> QED
    BY <2>3, Zenon DEF file
<1> QED
  BY <1>1, FileIInvCorrect, PTL

\* What an index offers for a core can be saved as an asset of the core while the
\* repository maps it, but for compiled classical files under their own key.
THEOREM OfferedSavable == Spec => []OfferedFilesSavable
<1>1. ASSUME FileIInv, NEW id \in Ids, NEW k \in DOMAIN entries[id], NEW core \in Cores,
             entries[id][k][core] # None, Found(id) # None, Found(id).mappings[core] # None,
             ~(k.ext = "mrs" /\ entries[id][k][core].behavior = "classical")
      PROVE  LET file == entries[id][k][core] IN
             Accepted(Found(id), core,
                      [mode |-> "repository-file", repository |-> id, location |-> file.path,
                       format |-> Format(core, file.path.ext), behavior |-> file.behavior])
  <2> DEFINE file == entries[id][k][core]
             asset == [mode |-> "repository-file", repository |-> id, location |-> file.path,
                       format |-> Format(core, file.path.ext), behavior |-> file.behavior]
             filled == FilledIn(core, asset)
  <2>1. Savable(k, core, file)
    BY <1>1 DEF FileIInv, StoredAreSound, Sound
  <2> HIDE DEF file
  <2>2. /\ filled.mode = "repository-file" /\ filled.repository = id
        /\ filled.location = file.path
        /\ filled.format = Format(core, file.path.ext)
        /\ filled.behavior = IF core = "mihomo" /\ file.behavior = None
                             THEN Behavior(file.path) ELSE file.behavior
    BY <2>1 DEF FilledIn, Savable
  <2>3. Format(core, file.path.ext) \in {Formats[core][e] : e \in DOMAIN Formats[core]}
    BY <2>1 DEF Savable, Format
  <2>4. core = "mihomo" => /\ filled.behavior \in Behaviors
                           /\ ~(filled.format = "mrs" /\ filled.behavior = "classical")
    BY <1>1, <2>1, <2>2, NoneIsNothing, BehaviorType DEF Savable, file
  <2>5. id # None
    BY NoneIsNothing
  <2> HIDE DEF filled
  <2>6. WellFormed(core, filled)
    BY <2>1, <2>2, <2>3, <2>4, <2>5 DEF WellFormed, Savable
  <2>7. asset.mode = "repository-file"
    OBVIOUS
  <2>8. Accepted(Found(id), core, asset)
    BY <1>1, <2>6, <2>7 DEF Accepted, filled
  <2> QED
    BY <2>8 DEF file
<1>2. FileIInv => OfferedFilesSavable
  BY <1>1, Zenon DEF OfferedFilesSavable
<1> QED
  BY <1>2, FileIInvCorrect, PTL

-----------------------------------------------------------------------------
(* Searches *)

\* Patterns match what they are equal to.
LEMMA PrefixFound ==
  ASSUME NEW k \in Path, NEW f, NEW files, SnapshotMatches(k, files, f)
  PROVE  PrefixMatches(k, f)
BY DEF SnapshotMatches, PrefixMatches, Alike

\* A prefix that is no pattern matches nothing else.
LEMMA PrefixPlain ==
  ASSUME NEW k \in Path, NEW f, PrefixMatches(k, f), f.prefix \notin DOMAIN LikePrefix
  PROVE  f.prefix \in Starts(Above(k.segs)) \/ k = [segs |-> f.prefix, ext |-> None]
<1>1. CASE f.prefix = <<>>
  <2>1. Len(k.segs) \in Nat /\ k.segs \in Seq(Segments)
    BY DEF Path
  <2>2. Above(k.segs) \in Seq(Segments)
    BY <2>1 DEF Above
  <2>3. Len(Above(k.segs)) \in Nat /\ SubSeq(Above(k.segs), 1, 0) = <<>>
    BY <2>2
  <2> QED
    BY <1>1, <2>3 DEF Starts
<1>2. CASE f.prefix # <<>>
  BY <1>2 DEF PrefixMatches, Alike
<1> QED
  BY <1>1, <1>2

\* A search of the tables finds what a search of a snapshot with the same entries finds,
\* and asked for one thing that is no pattern it finds nothing else.
THEOREM SearchesAgree == Spec => []SearchAgrees
<1>1. ASSUME TypeOK, NEW id \in Ids, header[id] # None, NEW f \in Filters \ {NoFilter}
      PROVE  LET hits == Matching(id, f)
                 expected == {k \in DOMAIN entries[id] : SnapshotMatches(k, entries[id][k], f)}
                 asked == {c \in Clauses : f[c] # None}
                 plain == f.prefix \notin DOMAIN LikePrefix
                          /\ \A c \in asked : f[c] \notin DOMAIN LikeWord
             IN expected \subseteq hits /\ (Cardinality(asked) <= 1 /\ plain => hits = expected)
  <2> DEFINE asked == {c \in Clauses : f[c] # None}
             plain == f.prefix \notin DOMAIN LikePrefix
                      /\ \A c \in asked : f[c] \notin DOMAIN LikeWord
  <2>1. Shown(id).entries = entries[id]
    BY <1>1 DEF Shown
  <2>2. Matching(id, f) = {k \in DOMAIN entries[id] : DatabaseMatches(k, entries[id][k], f)}
    BY <1>1, <2>1 DEF Matching
  <2>3. ASSUME NEW k \in Path, NEW files, SnapshotMatches(k, files, f)
        PROVE  DatabaseMatches(k, files, f)
    <3>1. PrefixMatches(k, f)
      BY <2>3, PrefixFound
    <3> QED
      BY <2>3, <3>1 DEF SnapshotMatches, DatabaseMatches, Alike
  <2>4. ASSUME NEW k \in Path, NEW files, DatabaseMatches(k, files, f), Cardinality(asked) <= 1,
               plain
        PROVE  SnapshotMatches(k, files, f)
    <3>0. f.prefix \in Starts(Above(k.segs)) \/ k = [segs |-> f.prefix, ext |-> None]
      BY <2>4, PrefixPlain DEF DatabaseMatches
    <3>1. IsFiniteSet(asked)
      <4>1. IsFiniteSet(Clauses)
        <5>1. IsFiniteSet({"core"} \cup {"format"})
          BY FS_Singleton, FS_AddElement
        <5>2. IsFiniteSet(({"core"} \cup {"format"}) \cup {"behavior"})
          BY <5>1, FS_AddElement
        <5>3. Clauses = ({"core"} \cup {"format"}) \cup {"behavior"}
          BY DEF Clauses
        <5> QED
          BY <5>2, <5>3, Zenon
      <4> QED
        BY <4>1, FS_Subset
    <3>2. \A a, b \in asked : a = b
      <4> SUFFICES ASSUME NEW a \in asked, NEW b \in asked, a # b PROVE FALSE
        OBVIOUS
      <4>1. IsFiniteSet({a, b}) /\ Cardinality({a, b}) = 2
        <5>1. IsFiniteSet({a}) /\ Cardinality({a}) = 1
          BY FS_Singleton
        <5>2. b \notin {a} /\ {a, b} = {a} \cup {b}
          OBVIOUS
        <5>3. IsFiniteSet({a} \cup {b}) /\ Cardinality({a} \cup {b}) = Cardinality({a}) + 1
          <6> HIDE DEF asked
          <6> QED
            BY <5>1, <5>2, FS_AddElement, Zenon
        <5> QED
          BY <5>1, <5>2, <5>3
      <4>2. Cardinality({a, b}) <= Cardinality(asked)
        BY <3>1, FS_Subset
      <4>3. Cardinality(asked) \in Nat
        BY <3>1, FS_CardinalityType
      <4> HIDE DEF asked
      <4> QED
        BY <2>4, <4>1, <4>2, <4>3
    <3>3. CASE asked = {}
      BY <3>0, <3>3 DEF SnapshotMatches
    <3>4. ASSUME NEW clause \in asked PROVE SnapshotMatches(k, files, f)
      <4>1. PICK core \in Cores : files[core] # None /\ Field(files, core)[clause] = f[clause]
        BY <2>4 DEF DatabaseMatches, Alike
      <4>2. \A c \in Clauses : f[c] # None => c = clause
        BY <3>2
      <4> QED
        BY <3>0, <4>1, <4>2 DEF SnapshotMatches
    <3> QED
      BY <3>3, <3>4
  <2>5. DOMAIN entries[id] \subseteq Path
    BY <1>1 DEF TypeOK, IsEntries
  <2> HIDE DEF asked, plain
  <2>6. {k \in DOMAIN entries[id] : SnapshotMatches(k, entries[id][k], f)} \subseteq Matching(id, f)
    BY <2>2, <2>3, <2>5
  <2>7. Cardinality(asked) <= 1 /\ plain =>
          Matching(id, f) = {k \in DOMAIN entries[id] : SnapshotMatches(k, entries[id][k], f)}
    BY <2>2, <2>3, <2>4, <2>5
  <2> QED
    BY <2>6, <2>7 DEF asked, plain
<1>2. TypeOK => SearchAgrees
  BY <1>1, Zenon DEF SearchAgrees
<1> QED
  BY <1>2, TypeCorrect, PTL

-----------------------------------------------------------------------------
(* A set in an order *)

\* What holds of 0, and of the successor of each number it holds of, holds of all.
LEMMA Upward ==
  ASSUME NEW S, 0 \in S, \A n \in Nat : n \in S => n + 1 \in S
  PROVE  Nat \subseteq S
<1> DEFINE T == Nat \ S
           R == OpToRel(<, Nat)
<1>1. IsWellFoundedOn(R, Nat)
  BY NatLessThanWellFounded
<1>2. \A x, y \in Nat : x < y => <<x, y>> \in R
  BY DEF OpToRel
<1> SUFFICES ASSUME T # {} PROVE FALSE
  OBVIOUS
<1>3. T \subseteq Nat
  OBVIOUS
<1>4. PICK x \in T : \A y \in T : ~(<<y, x>> \in R)
  <2> HIDE DEF R, T
  <2> QED
    BY <1>1, <1>3, WFMin
<1>5. x \in Nat /\ x # 0 /\ x \notin S
  OBVIOUS
<1>6. x - 1 \in Nat /\ x - 1 < x /\ (x - 1) + 1 = x
  BY <1>5
<1>7. x - 1 \in T
  BY <1>5, <1>6
<1> HIDE DEF R, T
<1> QED
  BY <1>2, <1>4, <1>5, <1>6, <1>7

\* What the order of a set is, if the function says what that of smaller ones is.
OrderFrom(s, g) ==
    IF s = {} THEN <<>> ELSE LET k == CHOOSE x \in s : TRUE IN Append(g[s \ {k}], k)

\* The element taken last leaves a smaller set.
LEMMA OneLess ==
  ASSUME NEW s, IsFiniteSet(s), s # {}
  PROVE  LET k == CHOOSE x \in s : TRUE IN
         /\ k \in s /\ IsFiniteSet(s \ {k})
         /\ Cardinality(s) \in Nat \ {0} /\ Cardinality(s \ {k}) = Cardinality(s) - 1
<1> DEFINE k == CHOOSE x \in s : TRUE
<1>1. k \in s
  OBVIOUS
<1> HIDE DEF k
<1>2. IsFiniteSet(s \ {k}) /\ Cardinality(s \ {k}) = Cardinality(s) - 1
  BY <1>1, FS_RemoveElement
<1>3. Cardinality(s) \in Nat /\ Cardinality(s) # 0
  BY <1>1, FS_CardinalityType, FS_EmptySet
<1> QED
  BY <1>1, <1>2, <1>3 DEF k

\* There is such a function on the subsets of a finite set.
LEMMA OrderExists ==
  ASSUME NEW ks, IsFiniteSet(ks)
  PROVE  \E g : g = [s \in SUBSET ks |-> OrderFrom(s, g)]
<1> DEFINE Good(n, g) == \A s \in SUBSET ks : Cardinality(s) <= n => g[s] = OrderFrom(s, g)
           S == {n \in Nat : \E g : Good(n, g)}
<1>1. \A s \in SUBSET ks : IsFiniteSet(s) /\ Cardinality(s) \in Nat
  BY FS_Subset, FS_CardinalityType
<1>2. 0 \in S
  <2> DEFINE g == [s \in SUBSET ks |-> <<>>]
  <2>1. \A s \in SUBSET ks : Cardinality(s) <= 0 => s = {}
    BY <1>1, FS_EmptySet
  <2>2. Good(0, g)
    BY <2>1 DEF OrderFrom
  <2> HIDE DEF g, Good
  <2> QED
    BY <2>2
<1>3. ASSUME NEW n \in Nat, n \in S PROVE n + 1 \in S
  <2>1. PICK g : Good(n, g)
    BY <1>3
  <2> DEFINE h == [s \in SUBSET ks |-> OrderFrom(s, g)]
  <2>2. ASSUME NEW s \in SUBSET ks, Cardinality(s) <= n PROVE h[s] = g[s]
    BY <2>1, <2>2
  <2>3. ASSUME NEW s \in SUBSET ks, Cardinality(s) <= n + 1
        PROVE  h[s] = OrderFrom(s, h)
    <3>1. CASE s = {}
      BY <3>1 DEF OrderFrom
    <3>2. CASE s # {}
      <4> DEFINE k == CHOOSE x \in s : TRUE
      <4>1. s \ {k} \in SUBSET ks /\ Cardinality(s \ {k}) <= n
        BY <1>1, <2>3, <3>2, OneLess
      <4>2. h[s \ {k}] = g[s \ {k}]
        BY <2>2, <4>1
      <4>3. h[s] = Append(g[s \ {k}], k)
        BY <3>2 DEF OrderFrom
      <4>4. OrderFrom(s, h) = Append(h[s \ {k}], k)
        BY <3>2 DEF OrderFrom
      <4> HIDE DEF h
      <4> QED
        BY <4>2, <4>3, <4>4
    <3> QED
      BY <3>1, <3>2
  <2> HIDE DEF h
  <2>4. Good(n + 1, h)
    BY <2>3
  <2> HIDE DEF Good
  <2> QED
    BY <2>4
<1>4. Cardinality(ks) \in S
  <2>1. Nat \subseteq S
    <3> HIDE DEF S
    <3> QED
      BY <1>2, <1>3, Upward
  <2> HIDE DEF S
  <2> QED
    BY <1>1, <2>1
<1>5. PICK g : Good(Cardinality(ks), g)
  BY <1>4
<1>6. \A s \in SUBSET ks : g[s] = OrderFrom(s, g)
  <2>1. \A s \in SUBSET ks : Cardinality(s) <= Cardinality(ks)
    BY FS_Subset
  <2> QED
    BY <1>5, <2>1
<1> DEFINE w == [s \in SUBSET ks |-> g[s]]
<1>7. \A s \in SUBSET ks : w[s] = OrderFrom(s, w)
  <2> SUFFICES ASSUME NEW s \in SUBSET ks PROVE w[s] = OrderFrom(s, w)
    OBVIOUS
  <2>1. w[s] = OrderFrom(s, g)
    BY <1>6
  <2>2. \A x : w[s \ {x}] = g[s \ {x}]
    OBVIOUS
  <2> HIDE DEF w
  <2>3. OrderFrom(s, g) = OrderFrom(s, w)
    <3> DEFINE k == CHOOSE x \in s : TRUE
    <3>1. OrderFrom(s, g) = IF s = {} THEN <<>> ELSE Append(g[s \ {k}], k)
      BY DEF OrderFrom
    <3>2. OrderFrom(s, w) = IF s = {} THEN <<>> ELSE Append(w[s \ {k}], k)
      BY DEF OrderFrom
    <3> HIDE DEF k
    <3>3. w[s \ {k}] = g[s \ {k}]
      BY <2>2
    <3> QED
      BY <3>1, <3>2, <3>3
  <2> QED
    BY <2>1, <2>3
<1>8. w = [s \in SUBSET ks |-> OrderFrom(s, w)]
  <2>1. w = [s \in SUBSET ks |-> w[s]]
    OBVIOUS
  <2> HIDE DEF w
  <2> QED
    BY <1>7, <2>1
<1> QED
  BY <1>8

\* Ordered takes its order from one.
LEMMA OrderedIs ==
  ASSUME NEW ks, IsFiniteSet(ks)
  PROVE  \E g : Ordered(ks) = g[ks] /\ \A s \in SUBSET ks : g[s] = OrderFrom(s, g)
<1> DEFINE w == CHOOSE g : g = [s \in SUBSET ks |-> OrderFrom(s, g)]
<1>1. Ordered(ks) = w[ks]
  BY Zenon DEF Ordered, FoldSet, MapThenFoldSet, OrderFrom
<1>2. w = [s \in SUBSET ks |-> OrderFrom(s, w)]
  BY OrderExists
<1> HIDE DEF w
<1>3. \A s \in SUBSET ks : w[s] = OrderFrom(s, w)
  BY <1>2
<1> QED
  BY <1>1, <1>3

\* A finite set in its order has each element once and no others.
LEMMA OrderedCorrect ==
  ASSUME NEW ks, IsFiniteSet(ks)
  PROVE  LET seq == Ordered(ks) IN
         /\ seq \in Seq(ks) /\ Len(seq) = Cardinality(ks)
         /\ {seq[i] : i \in 1..Len(seq)} = ks
         /\ \A i, j \in 1..Len(seq) : seq[i] = seq[j] => i = j
<1>1. PICK g : Ordered(ks) = g[ks] /\ \A s \in SUBSET ks : g[s] = OrderFrom(s, g)
  BY OrderedIs
<1> DEFINE Good(s, seq) ==
             /\ seq \in Seq(ks) /\ Len(seq) = Cardinality(s)
             /\ {seq[i] : i \in 1..Len(seq)} = s
             /\ \A i, j \in 1..Len(seq) : seq[i] = seq[j] => i = j
           S == {n \in Nat : \A s \in SUBSET ks : Cardinality(s) = n => Good(s, g[s])}
<1>2. \A s \in SUBSET ks : IsFiniteSet(s) /\ Cardinality(s) \in Nat
  BY FS_Subset, FS_CardinalityType
<1>3. 0 \in S
  <2> SUFFICES ASSUME NEW s \in SUBSET ks, Cardinality(s) = 0 PROVE Good(s, g[s])
    OBVIOUS
  <2>1. s = {}
    BY <1>2, FS_EmptySet
  <2>2. g[s] = <<>>
    BY <1>1, <2>1 DEF OrderFrom
  <2> QED
    BY <2>1, <2>2, FS_EmptySet
<1>4. ASSUME NEW n \in Nat, n \in S PROVE n + 1 \in S
  <2> SUFFICES ASSUME NEW s \in SUBSET ks, Cardinality(s) = n + 1 PROVE Good(s, g[s])
    OBVIOUS
  <2> DEFINE k == CHOOSE x \in s : TRUE
             rest == s \ {k}
             old == g[rest]
             seq == g[s]
  <2>1. s # {}
    BY FS_EmptySet
  <2>2. k \in s /\ rest \in SUBSET ks /\ Cardinality(rest) = n
    BY <1>2, <2>1, OneLess
  <2>3. Good(rest, old)
    BY <1>4, <2>2
  <2>4. seq = Append(old, k)
    BY <1>1, <2>1 DEF OrderFrom
  <2> HIDE DEF k, rest, old, seq
  <2>5. /\ seq \in Seq(ks) /\ Len(seq) = n + 1 /\ Len(old) = n /\ old \in Seq(ks)
        /\ seq[n + 1] = k /\ \A i \in 1..n : seq[i] = old[i]
    BY <2>2, <2>3, <2>4
  <2>6. \A i \in 1..n : old[i] # k /\ old[i] \in s
    BY <2>3, <2>5 DEF rest
  <2>7. \A i \in 1..Len(seq) : i \in 1..n \/ i = n + 1
    BY <2>5
  <2>8. {seq[i] : i \in 1..Len(seq)} = s
    <3>1. ASSUME NEW x \in s PROVE \E i \in 1..Len(seq) : seq[i] = x
      <4>1. CASE x = k
        BY <2>5, <4>1
      <4>2. CASE x # k
        <5>1. x \in {old[i] : i \in 1..n}
          <6>1. {old[i] : i \in 1..n} = rest
            BY <2>3, <2>5
          <6> QED
            BY <4>2, <6>1 DEF rest
        <5>2. PICK i \in 1..n : old[i] = x
          BY <5>1
        <5> QED
          BY <2>5, <5>2
      <4> QED
        BY <4>1, <4>2
    <3>2. \A i \in 1..Len(seq) : seq[i] \in s
      BY <2>2, <2>5, <2>6, <2>7
    <3> QED
      BY <3>1, <3>2
  <2>9. \A i, j \in 1..Len(seq) : seq[i] = seq[j] => i = j
    BY <2>3, <2>5, <2>6, <2>7
  <2>10. Good(s, seq)
    BY <2>5, <2>8, <2>9
  <2> QED
    BY <2>10 DEF seq
<1>5. Nat \subseteq S
  <2> HIDE DEF S
  <2> QED
    BY <1>3, <1>4, Upward
<1>6. Good(ks, g[ks])
  <2>1. Cardinality(ks) \in Nat /\ ks \in SUBSET ks
    BY <1>2
  <2>2. Cardinality(ks) \in S
    BY <1>5, <2>1
  <2> HIDE DEF Good
  <2> QED
    BY <2>1, <2>2
<1> QED
  BY <1>1, <1>6

-----------------------------------------------------------------------------
(* Pages *)

\* Two parts of a list that meet are a part of it.
LEMMA PartsMeet ==
  ASSUME NEW S, NEW items \in Seq(S), NEW a \in Nat, NEW b \in Nat, a <= b, b <= Len(items)
  PROVE  SubSeq(items, a + 1, b) \o SubSeq(items, b + 1, Len(items))
           = SubSeq(items, a + 1, Len(items))
<1> DEFINE n == Len(items)
           x == SubSeq(items, a + 1, b)
           y == SubSeq(items, b + 1, n)
           z == SubSeq(items, a + 1, n)
<1>1. n \in Nat
  OBVIOUS
<1>2. /\ x \in Seq(S) /\ Len(x) = b - a /\ \A i \in 1..(b - a) : x[i] = items[a + i]
      /\ y \in Seq(S) /\ Len(y) = n - b /\ \A i \in 1..(n - b) : y[i] = items[b + i]
      /\ z \in Seq(S) /\ Len(z) = n - a /\ \A i \in 1..(n - a) : z[i] = items[a + i]
  OBVIOUS
<1>0. b <= n
  OBVIOUS
<1> HIDE DEF n, x, y, z
<1>3. /\ x \o y \in Seq(S) /\ Len(x \o y) = n - a
      /\ \A i \in 1..(b - a) : (x \o y)[i] = x[i]
      /\ \A i \in (b - a + 1)..(n - a) : (x \o y)[i] = y[i - (b - a)]
  <2>1. /\ x \o y \in Seq(S) /\ Len(x \o y) = Len(x) + Len(y)
        /\ \A i \in 1..(Len(x) + Len(y)) :
             (x \o y)[i] = IF i <= Len(x) THEN x[i] ELSE y[i - Len(x)]
    <3>1. x \in Seq(S) /\ y \in Seq(S)
      BY <1>2
    <3> QED
      BY <3>1
  <2>2. Len(x) + Len(y) = n - a /\ Len(x) = b - a
    BY <1>0, <1>1, <1>2
  <2>3. \A i \in 1..(n - a) : (x \o y)[i] = IF i <= b - a THEN x[i] ELSE y[i - (b - a)]
    BY <2>1, <2>2
  <2> QED
    BY <1>0, <1>1, <2>1, <2>2, <2>3
<1>4. \A i \in 1..(n - a) : (x \o y)[i] = z[i]
  <2> SUFFICES ASSUME NEW i \in 1..(n - a) PROVE (x \o y)[i] = z[i]
    OBVIOUS
  <2>1. CASE i <= b - a
    <3>1. i \in 1..(b - a) /\ i \in 1..(n - a)
      BY <1>0, <1>1, <2>1
    <3>2. (x \o y)[i] = x[i]
      BY <1>3, <3>1
    <3>3. x[i] = items[a + i]
      BY <1>2, <3>1
    <3>4. z[i] = items[a + i]
      BY <1>2, <3>1
    <3> QED
      BY <3>2, <3>3, <3>4
  <2>2. CASE ~(i <= b - a)
    <3>1. i \in (b - a + 1)..(n - a) /\ i - (b - a) \in 1..(n - b) /\ b + (i - (b - a)) = a + i
      BY <1>0, <1>1, <2>2
    <3>2. (x \o y)[i] = y[i - (b - a)]
      BY <1>3, <3>1
    <3>3. y[i - (b - a)] = items[b + (i - (b - a))]
      BY <1>2, <3>1
    <3> QED
      BY <1>2, <3>1, <3>2, <3>3
  <2> QED
    BY <2>1, <2>2
<1>5. x \o y = z
  <2>1. x \o y = [i \in 1..(n - a) |-> (x \o y)[i]]
    <3> DEFINE c == x \o y
    <3>1. c \in Seq(S) /\ Len(c) = n - a
      BY <1>3
    <3> HIDE DEF c
    <3>2. c = [i \in 1..(n - a) |-> c[i]]
      BY <3>1
    <3> QED
      BY <3>2 DEF c
  <2>2. z = [i \in 1..(n - a) |-> z[i]]
    BY <1>2
  <2> QED
    BY <1>4, <2>1, <2>2
<1> QED
  BY <1>5 DEF n, x, y, z

\* A page that has more behind it ends where the next one begins, further on; one that has
\* not ends the list.
LEMMA PageFacts ==
  ASSUME NEW S, NEW items \in Seq(S), NEW o \in Nat, NEW limit \in Nat \ {0}
  PROVE  /\ o >= Len(items) => ~Page(items, o, limit).more
         /\ o <= Len(items) /\ ~Page(items, o, limit).more
              => Page(items, o, limit).items = SubSeq(items, o + 1, Len(items))
         /\ Page(items, o, limit).more
              => /\ Page(items, o, limit).next \in (o + 1)..Len(items)
                 /\ Page(items, o, limit).items = SubSeq(items, o + 1, Page(items, o, limit).next)
<1> DEFINE n == Len(items)
           from == Smaller(o, n)
           end == Smaller(from + limit, n)
           p == Page(items, o, limit)
<1>1. n \in Nat
  OBVIOUS
<1>2. p.items = SubSeq(items, from + 1, end) /\ p.next = end /\ p.more = (end < n)
  BY DEF Page
<1>3. p.more <=> end < n
  <2> HIDE DEF p, end
  <2> QED
    BY <1>2, Zenon
<1> HIDE DEF p, n
<1>4. /\ from \in Nat /\ (o >= n => from = n) /\ (o <= n => from = o)
  BY <1>1 DEF Smaller
<1>5. end \in Nat /\ end <= n /\ (end < n => end = from + limit /\ from < n)
  BY <1>1, <1>4 DEF Smaller
<1>6. end < n => from = o
  BY <1>1, <1>4, <1>5
<1>7. o >= n => end = n
  BY <1>1, <1>4, <1>5
<1> HIDE DEF from, end
<1>8. /\ o >= n => ~p.more
      /\ o <= n /\ ~p.more => p.items = SubSeq(items, o + 1, n)
      /\ p.more => p.next \in (o + 1)..n /\ p.items = SubSeq(items, o + 1, p.next)
  <2>1. ~(end < n) => end = n
    BY <1>1, <1>5
  <2>2. o >= n => ~p.more
    BY <1>1, <1>3, <1>7
  <2>3. o <= n /\ ~p.more => p.items = SubSeq(items, o + 1, n)
    BY <1>2, <1>3, <1>4, <2>1
  <2>4. p.more => p.next \in (o + 1)..n
    BY <1>1, <1>2, <1>3, <1>5, <1>6
  <2>5. p.more => p.items = SubSeq(items, o + 1, p.next)
    BY <1>2, <1>3, <1>6
  <2> QED
    BY <2>2, <2>3, <2>4, <2>5
<1> QED
  BY <1>8 DEF p, n

\* What a client sees from an offset, if the function says what it sees from others.
SeenFrom(pages, o, w) ==
    IF pages[o].more THEN pages[o].items \o w[pages[o].next] ELSE pages[o].items

\* A client that pages through a list sees the list.
LEMMA WalkSeesAll ==
  ASSUME NEW S, NEW items \in Seq(S), NEW limit \in Nat \ {0}, NEW total \in Nat,
         Len(items) <= total, NEW pages, pages = [o \in 0..total |-> Page(items, o, limit)]
  PROVE  Walk(pages) = items
<1> DEFINE n == Len(items)
           rest(o) == SubSeq(items, o + 1, n)
           w == CHOOSE g : g = [o \in DOMAIN pages |-> SeenFrom(pages, o, g)]
<1>1. Walk(pages) = w[0]
  BY Zenon DEF Walk, SeenFrom
<1>2. DOMAIN pages = 0..total /\ \A o \in 0..total : pages[o] = Page(items, o, limit)
  OBVIOUS
<1>3. n \in Nat /\ n <= total
  OBVIOUS
<1>4. \A o \in 0..total :
        /\ o >= n => ~pages[o].more
        /\ o <= n /\ ~pages[o].more => pages[o].items = rest(o)
        /\ pages[o].more => /\ pages[o].next \in (o + 1)..n
                            /\ pages[o].items = SubSeq(items, o + 1, pages[o].next)
  <2> SUFFICES ASSUME NEW o \in 0..total
               PROVE  /\ o >= n => ~pages[o].more
                      /\ o <= n /\ ~pages[o].more => pages[o].items = rest(o)
                      /\ pages[o].more =>
                           /\ pages[o].next \in (o + 1)..n
                           /\ pages[o].items = SubSeq(items, o + 1, pages[o].next)
    OBVIOUS
  <2>1. o \in Nat
    OBVIOUS
  <2> QED
    BY <1>2, <2>1, PageFacts
<1>5. \A o \in 0..n : pages[o].more =>
        /\ pages[o].next \in (o + 1)..n
        /\ pages[o].items \o rest(pages[o].next) = rest(o)
  <2> SUFFICES ASSUME NEW o \in 0..n, pages[o].more
               PROVE  /\ pages[o].next \in (o + 1)..n
                      /\ pages[o].items \o rest(pages[o].next) = rest(o)
    OBVIOUS
  <2>1. /\ pages[o].next \in (o + 1)..n
        /\ pages[o].items = SubSeq(items, o + 1, pages[o].next)
    BY <1>3, <1>4
  <2> DEFINE b == pages[o].next
  <2>2. b \in Nat /\ o \in Nat /\ o <= b /\ b <= Len(items)
    BY <1>3, <2>1
  <2> HIDE DEF b
  <2>3. SubSeq(items, o + 1, b) \o SubSeq(items, b + 1, Len(items)) = SubSeq(items, o + 1, Len(items))
    BY <2>2, PartsMeet
  <2> QED
    BY <2>1, <2>3 DEF b
<1> HIDE DEF n, rest
<1>6. w = [o \in DOMAIN pages |-> SeenFrom(pages, o, w)]
  <2> DEFINE v == [o \in 0..total |-> IF o <= n THEN rest(o) ELSE pages[o].items]
  <2>1. ASSUME NEW o \in 0..total PROVE v[o] = SeenFrom(pages, o, v)
    <3>1. CASE pages[o].more
      <4>1. o \in 0..n
        BY <1>3, <1>4, <3>1
      <4>2. pages[o].next \in 0..total /\ pages[o].next <= n
        <5>1. pages[o].next \in (o + 1)..n
          BY <1>5, <3>1, <4>1
        <5> QED
          BY <1>3, <5>1
      <4>3. v[pages[o].next] = rest(pages[o].next) /\ v[o] = rest(o)
        BY <4>1, <4>2
      <4> HIDE DEF v
      <4> QED
        BY <1>5, <3>1, <4>1, <4>3 DEF SeenFrom
    <3>2. CASE ~pages[o].more
      <4>1. v[o] = pages[o].items
        BY <1>3, <1>4, <3>2
      <4> HIDE DEF v
      <4> QED
        BY <3>2, <4>1 DEF SeenFrom
    <3> QED
      BY <3>1, <3>2
  <2>2. v = [o \in 0..total |-> v[o]]
    OBVIOUS
  <2> HIDE DEF v
  <2>3. v = [o \in DOMAIN pages |-> SeenFrom(pages, o, v)]
    BY <1>2, <2>1, <2>2
  <2> QED
    BY <2>3
<1> HIDE DEF w
<1>7. \A o \in 0..n : w[o] = SeenFrom(pages, o, w)
  <2>1. \A o \in 0..n : o \in DOMAIN pages
    BY <1>2, <1>3
  <2> QED
    BY <1>6, <2>1
<1> DEFINE T == {m \in Nat : \A o \in 0..n : n - o <= m => w[o] = rest(o)}
<1>8. 0 \in T
  <2> SUFFICES ASSUME NEW o \in 0..n, n - o <= 0 PROVE w[o] = rest(o)
    OBVIOUS
  <2>1. o = n /\ o \in 0..total
    BY <1>3
  <2>2. ~pages[o].more /\ pages[o].items = rest(o)
    BY <1>3, <1>4, <2>1
  <2> QED
    BY <1>7, <2>2 DEF SeenFrom
<1>9. ASSUME NEW m \in Nat, m \in T PROVE m + 1 \in T
  <2> SUFFICES ASSUME NEW o \in 0..n, n - o <= m + 1 PROVE w[o] = rest(o)
    OBVIOUS
  <2>1. CASE pages[o].more
    <3>1. pages[o].next \in 0..n /\ n - pages[o].next <= m
      <4>1. pages[o].next \in (o + 1)..n
        BY <1>5, <2>1
      <4> QED
        BY <1>3, <4>1
    <3>2. w[pages[o].next] = rest(pages[o].next)
      BY <1>9, <3>1
    <3> QED
      BY <1>5, <1>7, <2>1, <3>2 DEF SeenFrom
  <2>2. CASE ~pages[o].more
    <3>1. pages[o].items = rest(o)
      BY <1>3, <1>4, <2>2
    <3> QED
      BY <1>7, <2>2, <3>1 DEF SeenFrom
  <2> QED
    BY <2>1, <2>2
<1>10. Nat \subseteq T
  <2> HIDE DEF T
  <2> QED
    BY <1>8, <1>9, Upward
<1>11. w[0] = rest(0)
  <2>1. n \in T /\ 0 \in 0..n /\ n - 0 <= n
    BY <1>3, <1>10
  <2> QED
    BY <2>1
<1>12. rest(0) = items
  BY DEF rest, n
<1> QED
  BY <1>1, <1>11, <1>12

-----------------------------------------------------------------------------
(* What is read *)

\* The tables of a repository agree: there are finitely many entries, every directory above
\* one is listed, and entries have a row.
TablesAgree ==
    \A id \in Ids :
      /\ IsFiniteSet(DOMAIN entries[id])
      /\ Directories(entries[id]) \subseteq directories[id]
      /\ header[id] = None => DOMAIN entries[id] = {}

\* Finitely many files are downloaded.
JobsFinite == \A c \in Clients, core \in Cores : IsFiniteSet(job[c].paths[core])

ReadIInv == TablesAgree /\ JobsFinite

\* The values of a function on a finite set are finitely many.
LEMMA ImageFinite ==
  ASSUME NEW f, IsFiniteSet(DOMAIN f)
  PROVE  IsFiniteSet({f[x] : x \in DOMAIN f})
<1> DEFINE T == {f[x] : x \in DOMAIN f}
           g == [x \in DOMAIN f |-> f[x]]
<1>1. g \in Surjection(DOMAIN f, T)
  BY DEF Surjection
<1> HIDE DEF T, g
<1>2. IsFiniteSet(T)
  BY <1>1, FS_Surjection
<1> QED
  BY <1>2 DEF T

\* An index made of finitely many files has finitely many entries.
LEMMA BuildIndexFinite ==
  ASSUME NEW repo, NEW paths, \A core \in Cores : IsFiniteSet(paths[core])
  PROVE  IsFiniteSet(DOMAIN BuildIndex(repo, paths).entries)
<1> DEFINE chosen == [core \in Cores |-> Chosen(Kept(repo, core, paths[core]))]
           files == chosen["mihomo"] \cup chosen["sing-box"]
           f == [p \in files |-> Logical(p)]
<1>1. \A core \in Cores : chosen[core] \subseteq paths[core]
  BY DEF Chosen, Kept
<1>2. "mihomo" \in Cores /\ "sing-box" \in Cores /\ \A c \in Cores : c \in {"mihomo", "sing-box"}
  BY DEF Cores
<1>3. DOMAIN BuildIndex(repo, paths).entries
        = {Logical(p) : p \in UNION {chosen[core] : core \in Cores}}
  BY DEF BuildIndex
<1> HIDE DEF chosen
<1>4. UNION {chosen[core] : core \in Cores} = files
  BY <1>2
<1>5. IsFiniteSet(files)
  BY <1>1, <1>2, FS_Subset, FS_Union
<1>6. {Logical(p) : p \in files} = {f[p] : p \in files}
  OBVIOUS
<1>a. DOMAIN f = files
  OBVIOUS
<1> HIDE DEF files, f
<1>7. IsFiniteSet({f[p] : p \in files})
  BY <1>5, <1>a, ImageFinite
<1> QED
  BY <1>3, <1>4, <1>6, <1>7

\* So has one changed for one core.
LEMMA WithSelectableFinite ==
  ASSUME NEW repo, NEW core, NEW old, IsFiniteSet(DOMAIN old.entries),
         NEW paths, IsFiniteSet(paths)
  PROVE  IsFiniteSet(DOMAIN WithSelectable(repo, core, old, paths).entries)
<1> DEFINE others == {k \in DOMAIN old.entries :
                        \E other \in Cores \ {core} : old.entries[k][other] # None}
<1>1. DOMAIN WithSelectable(repo, core, old, paths).entries = others \cup paths
  BY DEF WithSelectable, Replaced
<1>2. IsFiniteSet(others)
  BY FS_Subset
<1> HIDE DEF others
<1> QED
  BY <1>1, <1>2, FS_Union

\* Of a finite tree finitely many files are taken.
LEMMA RelativeFinite ==
  ASSUME NEW mapping, NEW blobs, IsFiniteSet(blobs)
  PROVE  IsFiniteSet(Relative(mapping, blobs))
<1> DEFINE f == [b \in blobs |-> TrimRoot(mapping.root, b)]
<1>1. {TrimRoot(mapping.root, b) : b \in blobs} = {f[b] : b \in blobs}
  OBVIOUS
<1>2. IsFiniteSet({f[b] : b \in blobs})
  <2>1. DOMAIN f = blobs
    OBVIOUS
  <2> HIDE DEF f
  <2> QED
    BY <2>1, ImageFinite
<1>3. IsFiniteSet({TrimRoot(mapping.root, b) : b \in blobs})
  BY <1>1, <1>2
<1> QED
  BY <1>3, FS_Subset DEF Relative

\* The snapshot has finitely many entries.
LEMMA SnapshotFinite == IsFiniteSet(DOMAIN Snapshot.entries)
<1>1. \A core \in Cores : IsFiniteSet(Archive[core])
  <2> SUFFICES ASSUME NEW core \in Cores PROVE IsFiniteSet(Archive[core])
    OBVIOUS
  <2> DEFINE mapping == BuiltInRepository.mappings[core]
  <2>1. mapping # None /\ Archive[core] \in Trees[mapping.ref]
    BY ArchiveOfBranches
  <2>2. mapping.ref \in GitRefs
    BY <2>1, BuiltInIsRepository DEF Repository, Mapping
  <2> QED
    BY <2>1, <2>2, TreesOfPaths
<1> QED
  BY <1>1, BuildIndexFinite DEF Snapshot

\* Storing finitely many entries keeps the tables in agreement.
LEMMA WriteAgrees ==
  ASSUME TypeOK, ReadIInv, NEW c \in Clients, NEW id \in Ids, NEW index, IsIndex(index),
         IsFiniteSet(DOMAIN index.entries), Write(id, index), Done(c)
  PROVE  ReadIInv'
<1>1. [owner |-> index.owner, refs |-> index.refs] # None
  BY NoneIsNothing DEF IsIndex, Header
<1>2. /\ entries' = [entries EXCEPT ![id] = index.entries]
      /\ directories' = [directories EXCEPT ![id] = Directories(index.entries)]
      /\ header' = [header EXCEPT ![id] = [owner |-> index.owner, refs |-> index.refs]]
  BY DEF Write
<1>3. TablesAgree'
  <2> SUFFICES ASSUME NEW i \in Ids
               PROVE  /\ IsFiniteSet(DOMAIN entries'[i])
                      /\ Directories(entries'[i]) \subseteq directories'[i]
                      /\ header'[i] = None => DOMAIN entries'[i] = {}
    BY DEF TablesAgree, Directories
  <2>1. CASE i = id
    <3>1. /\ entries'[i] = index.entries
          /\ directories'[i] = Directories(index.entries)
          /\ header'[i] = [owner |-> index.owner, refs |-> index.refs]
      BY <1>2, <2>1 DEF TypeOK
    <3> QED
      BY <1>1, <3>1
  <2>2. CASE i # id
    <3>1. entries'[i] = entries[i] /\ directories'[i] = directories[i] /\ header'[i] = header[i]
      BY <1>2, <2>2 DEF TypeOK
    <3> QED
      BY <3>1 DEF ReadIInv, TablesAgree
  <2> QED
    BY <2>1, <2>2
<1>4. JobsFinite'
  <2>1. \A core \in Cores : IsFiniteSet(NoJob.paths[core])
    BY FS_EmptySet DEF NoJob
  <2> QED
    BY <2>1 DEF Done, TypeOK, ReadIInv, JobsFinite
<1> QED
  BY <1>3, <1>4 DEF ReadIInv

\* Every step keeps it: one step per action.
LEMMA ReadIInvNext == IInv /\ ReadIInv /\ [Next]_vars => ReadIInv'
<1> SUFFICES ASSUME IInv, ReadIInv, [Next]_vars PROVE ReadIInv'
  OBVIOUS
<1>0. TypeOK
  BY DEF IInv
<1>1. ASSUME UNCHANGED indexVars PROVE TablesAgree'
  BY <1>1 DEF indexVars, ReadIInv, TablesAgree, Directories
<1>2. ASSUME UNCHANGED job PROVE JobsFinite'
  BY <1>2 DEF ReadIInv, JobsFinite
<1>3. ASSUME NEW id \in Ids, NEW new \in Ids, CreateRepository(id) \/ UpdateRepository(id, new)
      PROVE  ReadIInv'
  BY <1>1, <1>2, <1>3 DEF CreateRepository, UpdateRepository, ReadIInv
<1>4. ASSUME NEW id \in Ids, DeleteRepository(id) PROVE ReadIInv'
  <2>1. PICK done \in 0..3 :
          /\ entries' = IF done < 1 THEN entries ELSE [entries EXCEPT ![id] = NoEntries]
          /\ directories' = IF done < 2 THEN directories ELSE [directories EXCEPT ![id] = {}]
          /\ header' = IF done < 3 THEN header ELSE [header EXCEPT ![id] = None]
    BY <1>4 DEF DeleteRepository
  <2>2. ASSUME NEW i \in Ids
        PROVE  /\ IsFiniteSet(DOMAIN entries'[i])
               /\ Directories(entries'[i]) \subseteq directories'[i]
               /\ header'[i] = None => DOMAIN entries'[i] = {}
    <3>1. /\ entries'[i] = IF i = id /\ ~(done < 1) THEN NoEntries ELSE entries[i]
          /\ directories'[i] = IF i = id /\ ~(done < 2) THEN {} ELSE directories[i]
          /\ header'[i] = IF i = id /\ ~(done < 3) THEN None ELSE header[i]
      BY <1>0, <2>1 DEF TypeOK
    <3>2. DOMAIN NoEntries = {} /\ IsFiniteSet(DOMAIN NoEntries) /\ Directories(NoEntries) = {}
      BY FS_EmptySet DEF NoEntries, Directories
    <3>3. CASE i = id /\ ~(done < 1)
      BY <3>1, <3>2, <3>3
    <3>4. CASE ~(i = id /\ ~(done < 1))
      <4>1. entries'[i] = entries[i] /\ directories'[i] = directories[i] /\ header'[i] = header[i]
        BY <3>1, <3>4
      <4> QED
        BY <4>1 DEF ReadIInv, TablesAgree
    <3> QED
      BY <3>3, <3>4
  <2>3. TablesAgree'
    BY <2>2 DEF TablesAgree, Directories
  <2> QED
    BY <1>2, <1>4, <2>3 DEF DeleteRepository, ReadIInv
<1>5. ASSUME NEW c \in Clients, NEW j, \A core \in Cores : j.paths[core] = {},
             job' = [job EXCEPT ![c] = j], UNCHANGED indexVars
      PROVE  ReadIInv'
  <2>1. JobsFinite'
    BY <1>0, <1>5, FS_EmptySet DEF TypeOK, ReadIInv, JobsFinite
  <2> QED
    BY <1>1, <1>5, <2>1 DEF ReadIInv
<1>6. ASSUME NEW c \in Clients, NEW id \in Ids, StartIndexRefresh(c, id) PROVE ReadIInv'
  <2> DEFINE j == [NoJob EXCEPT !.id = id, !.repo = Found(id), !.todo = CoresOf(Found(id))]
  <2>1. \A core \in Cores : j.paths[core] = {}
    BY DEF NoJob
  <2>2. job' = [job EXCEPT ![c] = j] /\ UNCHANGED indexVars
    BY <1>6 DEF StartIndexRefresh
  <2> HIDE DEF j
  <2> QED
    BY <1>5, <2>1, <2>2
<1>7. ASSUME NEW c \in Clients, NEW id \in Ids, NEW core \in Cores,
             StartSelectableRefresh(c, id, core)
      PROVE  ReadIInv'
  <2> DEFINE j == [NoJob EXCEPT !.id = id, !.core = core, !.repo = Found(id), !.todo = {core}]
  <2>1. \A a \in Cores : j.paths[a] = {}
    BY DEF NoJob
  <2>2. job' = [job EXCEPT ![c] = j] /\ UNCHANGED indexVars
    BY <1>7 DEF StartSelectableRefresh
  <2> HIDE DEF j
  <2> QED
    BY <1>5, <2>1, <2>2
<1>8. ASSUME NEW c \in Clients, Fetch(c) PROVE ReadIInv'
  <2>1. PICK core \in job[c].todo : \E tree \in Trees[job[c].repo.mappings[core].ref] :
          job' = [job EXCEPT ![c].todo = @ \ {core},
                             ![c].paths[core] =
                               LET paths == Relative(job[c].repo.mappings[core], tree) IN
                               IF job[c].core = None THEN {p \in paths : Indexable(core, p)}
                               ELSE Selectable(core, paths)]
    BY <1>8 DEF Fetch
  <2>2. PICK tree \in Trees[job[c].repo.mappings[core].ref] :
          job' = [job EXCEPT ![c].todo = @ \ {core},
                             ![c].paths[core] =
                               LET paths == Relative(job[c].repo.mappings[core], tree) IN
                               IF job[c].core = None THEN {p \in paths : Indexable(core, p)}
                               ELSE Selectable(core, paths)]
    BY <2>1
  <2> DEFINE mapping == job[c].repo.mappings[core]
             paths == IF job[c].core = None
                      THEN {p \in Relative(mapping, tree) : Indexable(core, p)}
                      ELSE Selectable(core, Relative(mapping, tree))
  <2>3. job[c].repo \in Repository /\ core \in Cores /\ mapping # None
    BY <1>8 DEF Fetch, IInv, TypeOK, JobInv
  <2>4. mapping.ref \in GitRefs
    BY <2>3 DEF Repository, Mapping
  <2>5. IsFiniteSet(tree)
    BY <2>4, TreesOfPaths
  <2>6. IsFiniteSet(paths)
    <3>1. paths \subseteq Relative(mapping, tree)
      BY DEF Selectable
    <3> QED
      BY <2>5, <3>1, RelativeFinite, FS_Subset
  <2>7. job' = [job EXCEPT ![c] = [job[c] EXCEPT !.todo = @ \ {core}, !.paths[core] = paths]]
    BY <2>2
  <2> HIDE DEF paths, mapping
  <2>8. ASSUME NEW d \in Clients, NEW a \in Cores PROVE IsFiniteSet(job'[d].paths[a])
    <3>1. job[c] \in [id : {None} \cup Ids, core : {None} \cup Cores,
                      repo : {None} \cup Repository, todo : SUBSET Cores,
                      paths : [Cores -> SUBSET Path]]
      BY <1>0 DEF TypeOK
    <3>2. d = c /\ a = core => job'[d].paths[a] = paths
      BY <1>0, <2>3, <2>7, <3>1 DEF TypeOK
    <3>3. ~(d = c /\ a = core) => job'[d].paths[a] = job[d].paths[a]
      BY <1>0, <2>3, <2>7, <3>1 DEF TypeOK
    <3> QED
      BY <2>6, <3>2, <3>3 DEF ReadIInv, JobsFinite
  <2>9. JobsFinite'
    BY <2>8 DEF JobsFinite
  <2> QED
    BY <1>1, <1>8, <2>9 DEF Fetch, ReadIInv
<1>9. ASSUME NEW c \in Clients, FetchFails(c) \/ StoreSelectableRefused(c) PROVE ReadIInv'
  <2>1. UNCHANGED indexVars
    BY <1>9 DEF FetchFails, StoreSelectableRefused
  <2>2. CASE Done(c)
    <3>1. \A core \in Cores : NoJob.paths[core] = {}
      BY DEF NoJob
    <3> QED
      BY <1>5, <2>1, <2>2, <3>1 DEF Done
  <2>3. CASE UNCHANGED job
    BY <1>1, <1>2, <2>1, <2>3 DEF ReadIInv
  <2> QED
    BY <1>9, <2>2, <2>3 DEF FetchFails, StoreSelectableRefused
<1>10. ASSUME NEW c \in Clients, StoreIndex(c) PROVE ReadIInv'
  <2>1. /\ job[c].id \in Ids /\ job[c].repo \in Repository
        /\ job[c].paths \in [Cores -> SUBSET Path]
    BY <1>10 DEF StoreIndex, IInv, JobInv, TypeOK
  <2>2. CASE pc[c] = "snapshot"
    <3>1. IsIndex(Snapshot)
      BY BuildIndexType, BuiltInIsRepository, ArchiveOfBranches DEF Snapshot
    <3>2. IsFiniteSet(DOMAIN Snapshot.entries)
      BY SnapshotFinite
    <3>3. Write(job[c].id, Snapshot) /\ Done(c)
      BY <1>10, <2>2 DEF StoreIndex
    <3> QED
      BY <1>0, <2>1, <3>1, <3>2, <3>3, WriteAgrees
  <2>3. CASE pc[c] = "store" /\ job[c].core = None
    <3>1. IsIndex(BuildIndex(job[c].repo, job[c].paths))
      BY <2>1, BuildIndexType
    <3>2. IsFiniteSet(DOMAIN BuildIndex(job[c].repo, job[c].paths).entries)
      BY BuildIndexFinite DEF ReadIInv, JobsFinite
    <3>3. Write(job[c].id, BuildIndex(job[c].repo, job[c].paths)) /\ Done(c)
      BY <1>10, <2>3 DEF StoreIndex
    <3> QED
      BY <1>0, <2>1, <3>1, <3>2, <3>3, WriteAgrees
  <2> QED
    BY <1>10, <2>2, <2>3 DEF StoreIndex
<1>11. ASSUME NEW c \in Clients, StoreSelectable(c) PROVE ReadIInv'
  <2> DEFINE id == job[c].id
             core == job[c].core
             index == WithSelectable(Found(id), core, Existing(id), job[c].paths[core])
  <2>1. /\ id \in Ids /\ core \in Cores /\ core # None /\ pc[c] = "store"
    BY <1>11 DEF StoreSelectable, IInv, JobInv, TypeOK
  <2>2. IsIndex(index)
    BY <1>11, StoredIndexType
  <2>3. IsFiniteSet(DOMAIN Existing(id).entries)
    BY <2>1, FS_EmptySet DEF Existing, ReadIInv, TablesAgree, NoEntries
  <2>4. IsFiniteSet(DOMAIN index.entries)
    BY <2>1, <2>3, WithSelectableFinite DEF ReadIInv, JobsFinite
  <2>5. Write(id, index) /\ Done(c)
    BY <1>11 DEF StoreSelectable
  <2> HIDE DEF id, core, index
  <2> QED
    BY <1>0, <2>1, <2>2, <2>4, <2>5, WriteAgrees
<1>12. CASE UNCHANGED vars
  BY <1>1, <1>2, <1>12 DEF vars, ReadIInv
<1> QED
  BY <1>3, <1>4, <1>6, <1>7, <1>8, <1>9, <1>10, <1>11, <1>12 DEF Next

\* It holds in every state.
LEMMA ReadIInvCorrect == Spec => []ReadIInv
<1>1. Init => ReadIInv
  <2> SUFFICES ASSUME Init PROVE ReadIInv
    OBVIOUS
  <2>1. TablesAgree
    BY FS_EmptySet DEF Init, TablesAgree, NoEntries, Directories
  <2>2. JobsFinite
    <3>1. \A core \in Cores : NoJob.paths[core] = {}
      BY DEF NoJob
    <3> QED
      BY <3>1, FS_EmptySet DEF Init, JobsFinite
  <2> QED
    BY <2>1, <2>2 DEF ReadIInv
<1> QED
  BY <1>1, ReadIInvNext, IInvCorrect, PTL DEF Spec

\* What is shown of a repository is finite, has every directory above an entry, and is what
\* the importer's lookup finds.
LEMMA ShownAgrees ==
  ASSUME TypeOK, ReadIInv, NEW id \in Ids, Shown(id) # None
  PROVE  LET es == Shown(id).entries IN
         /\ IsFiniteSet(DOMAIN es) /\ DOMAIN es \subseteq Path
         /\ Directories(es) \subseteq Shown(id).directories
         /\ \A k \in DOMAIN es : FindEntry(id, k) = es[k]
<1>1. CASE header[id] # None
  <2>1. Shown(id).entries = entries[id] /\ Shown(id).directories = directories[id]
    BY <1>1 DEF Shown
  <2>2. \A k \in DOMAIN entries[id] : FindEntry(id, k) = entries[id][k]
    BY DEF FindEntry
  <2> QED
    BY <2>1, <2>2 DEF ReadIInv, TablesAgree, TypeOK, IsEntries
<1>2. CASE header[id] = None
  <2>1. id = BuiltIn
    BY <1>2 DEF Shown
  <2>2. /\ Shown(id).entries = Snapshot.entries
        /\ Shown(id).directories = Directories(Snapshot.entries)
    BY <1>2, <2>1 DEF Shown
  <2>3. IsIndex(Snapshot)
    BY BuildIndexType, BuiltInIsRepository, ArchiveOfBranches DEF Snapshot
  <2>4. \A k \in DOMAIN Snapshot.entries : FindEntry(id, k) = Snapshot.entries[k]
    <3>1. DOMAIN entries[id] = {}
      BY <1>2 DEF ReadIInv, TablesAgree
    <3> QED
      BY <2>1, <3>1 DEF FindEntry
  <2> QED
    BY <2>2, <2>3, <2>4, SnapshotFinite DEF IsIndex, IsEntries
<1> QED
  BY <1>1, <1>2

\* A client that opens what is listed comes to the directory of every entry.
LEMMA DirectoriesReached ==
  ASSUME NEW id \in Ids, DOMAIN Shown(id).entries \subseteq Path,
         Directories(Shown(id).entries) \subseteq Shown(id).directories,
         NEW k \in DOMAIN Shown(id).entries
  PROVE  Above(k.segs) \in Reached(id)
<1> DEFINE s == k.segs
           n == Len(s) - 1
           dirs == Shown(id).directories
<1>1. s \in Seq(Segments) /\ Len(s) \in Nat
  BY DEF Path
<1>2. \A m \in 1..n : SubSeq(s, 1, m) \in dirs
  <2>1. \A m \in 1..n : SubSeq(s, 1, m) \in Directories(Shown(id).entries)
    BY DEF Directories
  <2> QED
    BY <2>1
<1> HIDE DEF s, dirs
<1>3. CASE n < 1
  <2>1. Above(s) = <<>>
    BY <1>1, <1>3 DEF Above
  <2> QED
    BY <2>1 DEF Reached, s
<1>4. CASE n >= 1
  <2> DEFINE dir == SubSeq(s, 1, n)
  <2>1. Above(s) = dir /\ dir \in dirs
    BY <1>1, <1>2, <1>4 DEF Above
  <2>2. dir \in Seq(Segments) /\ Len(dir) = n /\ \A i \in 1..n : dir[i] = s[i]
    BY <1>1, <1>4
  <2>3. ASSUME NEW m \in 1..n PROVE SubSeq(dir, 1, m) = SubSeq(s, 1, m)
    <3>1. SubSeq(dir, 1, m) = [i \in 1..m |-> dir[i]]
      <4> HIDE DEF dir
      <4> QED
        BY <1>1, <2>2
    <3>2. SubSeq(s, 1, m) = [i \in 1..m |-> s[i]]
      BY <1>1
    <3>3. \A i \in 1..m : dir[i] = s[i]
      <4> HIDE DEF dir
      <4> QED
        BY <1>1, <2>2
    <3> HIDE DEF dir
    <3> QED
      BY <3>1, <3>2, <3>3
  <2>4. SubSeq(dir, 1, 0) = <<>>
    OBVIOUS
  <2> HIDE DEF dir
  <2>5. Starts(dir) \ {<<>>} \subseteq dirs
    <3> SUFFICES ASSUME NEW m \in 0..Len(dir), SubSeq(dir, 1, m) # <<>>
                 PROVE  SubSeq(dir, 1, m) \in dirs
      BY DEF Starts
    <3>1. m \in 1..n
      BY <1>1, <2>2, <2>4
    <3> QED
      BY <1>2, <2>3, <3>1
  <2> QED
    BY <2>1, <2>5 DEF Reached, s, dirs
<1> QED
  BY <1>1, <1>3, <1>4

\* A client that pages through an index, flat or directory by directory, sees every entry
\* once, and the importer finds each under its key: after refreshes of single cores, and
\* wherever a deletion has stopped.
THEOREM ReadsAreComplete == Spec => []ReadsShowEveryEntry
<1>1. ASSUME TypeOK, ReadIInv, NEW id \in Ids, Shown(id) # None
      PROVE  LET all == DOMAIN Shown(id).entries
                 total == Cardinality(all)
                 in(dir, limit) == Walk([o \in 0..total |-> IndexPage(id, dir, o, limit).page])
             IN /\ Walk([o \in 0..total |-> FlatPage(id, o, 2)]) = Ordered(all)
                /\ UNION {ToSet(in(dir, 1)) : dir \in Reached(id)} = all
                /\ \A dir \in Reached(id) : IsInjective(in(dir, 1))
                /\ \A k \in all : FindEntry(id, k) = Shown(id).entries[k]
  <2> DEFINE all == DOMAIN Shown(id).entries
             total == Cardinality(all)
             in(dir) == Walk([o \in 0..total |-> IndexPage(id, dir, o, 1).page])
             of(dir) == {k \in all : Above(k.segs) = dir}
  <2>1. /\ IsFiniteSet(all) /\ all \subseteq Path
        /\ Directories(Shown(id).entries) \subseteq Shown(id).directories
        /\ \A k \in all : FindEntry(id, k) = Shown(id).entries[k]
    BY <1>1, ShownAgrees
  <2>2. total \in Nat
    BY <2>1, FS_CardinalityType
  <2>3. Walk([o \in 0..total |-> FlatPage(id, o, 2)]) = Ordered(all)
    <3> DEFINE pages == [o \in 0..total |-> FlatPage(id, o, 2)]
    <3>1. pages = [o \in 0..total |-> Page(Ordered(all), o, 2)]
      BY DEF FlatPage
    <3>2. Ordered(all) \in Seq(all) /\ Len(Ordered(all)) <= total
      BY <2>1, <2>2, OrderedCorrect
    <3>3. 2 \in Nat \ {0}
      OBVIOUS
    <3> HIDE DEF pages, all, total
    <3>4. Walk(pages) = Ordered(all)
      BY <2>2, <3>1, <3>2, <3>3, WalkSeesAll
    <3> QED
      BY <3>4 DEF pages, all, total
  <2>4. ASSUME NEW dir
        PROVE  /\ in(dir) \in Seq(of(dir))
               /\ {in(dir)[i] : i \in 1..Len(in(dir))} = of(dir)
               /\ \A i, j \in 1..Len(in(dir)) : in(dir)[i] = in(dir)[j] => i = j
    <3> DEFINE pages == [o \in 0..total |-> IndexPage(id, dir, o, 1).page]
               ks == of(dir)
    <3>1. pages = [o \in 0..total |-> Page(Ordered(ks), o, 1)]
      BY DEF IndexPage
    <3>2. IsFiniteSet(ks) /\ Cardinality(ks) <= total
      BY <2>1, FS_Subset
    <3> HIDE DEF pages, ks, all, total
    <3>3. /\ Ordered(ks) \in Seq(ks) /\ Len(Ordered(ks)) = Cardinality(ks)
          /\ {Ordered(ks)[i] : i \in 1..Len(Ordered(ks))} = ks
          /\ \A i, j \in 1..Len(Ordered(ks)) : Ordered(ks)[i] = Ordered(ks)[j] => i = j
      BY <3>2, OrderedCorrect
    <3>4. 1 \in Nat \ {0} /\ Len(Ordered(ks)) <= total
      BY <3>2, <3>3
    <3>5. Walk(pages) = Ordered(ks)
      BY <2>2, <3>1, <3>3, <3>4, WalkSeesAll
    <3>6. in(dir) = Ordered(ks)
      BY <3>5 DEF pages
    <3> HIDE DEF in
    <3> QED
      BY <3>3, <3>6 DEF ks
  <2> HIDE DEF in
  <2>5. \A dir : ToSet(in(dir)) = of(dir) /\ IsInjective(in(dir))
    <3> SUFFICES ASSUME NEW dir PROVE ToSet(in(dir)) = of(dir) /\ IsInjective(in(dir))
      OBVIOUS
    <3>1. DOMAIN in(dir) = 1..Len(in(dir))
      BY <2>4
    <3> HIDE DEF of
    <3> QED
      BY <2>4, <3>1 DEF ToSet, IsInjective
  <2>6. UNION {ToSet(in(dir)) : dir \in Reached(id)} = all
    <3>1. \A k \in all : Above(k.segs) \in Reached(id)
      BY <2>1, DirectoriesReached
    <3> HIDE DEF all
    <3> QED
      BY <2>5, <3>1
  <2> QED
    BY <2>1, <2>3, <2>5, <2>6 DEF in
<1>2. TypeOK /\ ReadIInv => ReadsShowEveryEntry
  BY <1>1 DEF ReadsShowEveryEntry
<1> QED
  BY <1>2, TypeCorrect, ReadIInvCorrect, PTL
=============================================================================
