-------------------------- MODULE RuleSourceIndex --------------------------
(***************************************************************************)
(* What a rule source repository offers (internal/repository/              *)
(* rule_sources.go, and the reads of store.go and rule_source_snapshots.go)*)
(* as operators: which files of a tree fit which core, the index made of   *)
(* them, its pages and searches, and what may be saved as a rule asset.    *)
(*                                                                         *)
(* A path is the sequence of its segments, the last without its extension, *)
(* and the extension.  Where the code goes by the text of names, Rest says *)
(* what is left of one behind another, and LikeWord and LikePrefix what the *)
(* LIKE of SQLite takes for what is asked.  Kind, format and logical path  *)
(* of a file follow from its core and path and are not stored twice.  Left *)
(* out: case, spaces and escapes of names, roots that end in an extension, *)
(* and words asked for that reach beyond the field (by a per cent sign).   *)
(***************************************************************************)
EXTENDS Integers, Sequences, FiniteSets

CONSTANTS
    Segments,        \* names of directories, and of files without extension
    HiddenSegments,  \* those of them that start with a dot
    Owners,          \* GitHub repositories (owner and name)
    GitRefs,         \* their branches
    NoName,          \* the empty text, the name of ".yaml"
    Rest,            \* what is left of a name behind a text it begins with
    LikeWord,        \* what else LIKE matches with a word (by case, or for an underscore) ...
    LikePrefix,      \* ... and with a prefix
    None             \* absent

Cores == {"mihomo", "sing-box"}
Behaviors == {"domain", "ipcidr", "classical"}
SingBoxFormats == [srs |-> "binary", json |-> "source", yaml |-> "source", yml |-> "source"]
MihomoFormats ==
    [yaml |-> "yaml", yml |-> "yaml", txt |-> "text", list |-> "text", mrs |-> "mrs"]
Formats == [core \in Cores |-> IF core = "mihomo" THEN MihomoFormats ELSE SingBoxFormats]

\* Extensions in the order in which a sorted list of paths has them.
Extensions == <<"json", "list", "mrs", "srs", "txt", "yaml", "yml">>
ExtensionSet == {Extensions[i] : i \in 1..Len(Extensions)}

Path == [segs : Seq(Segments), ext : ExtensionSet \cup {None}]
Mapping == [ref : GitRefs, root : Seq(Segments)]
Repository == [owner : Owners, mappings : [Cores -> {None} \cup Mapping]]
File == [path : Path, behavior : Behaviors \cup {None},
         url : [owner : Owners, ref : GitRefs, path : Path]]

ASSUME HiddenAreSegments == HiddenSegments \subseteq Segments /\ NoName \in HiddenSegments
ASSUME RestsOfNames ==
    /\ None \notin Segments
    /\ Rest \in [Segments \X Segments -> Segments \cup {None}]
    /\ \A name, text \in Segments : Rest[<<name, text>>] = NoName => name = text
ASSUME OnlyWordsAreLike == \A word \in DOMAIN LikeWord : None \notin LikeWord[word]

Format(core, ext) == IF ext \in DOMAIN Formats[core] THEN Formats[core][ext] ELSE None

\* Whether a word is in a path: as one of its segments, or between two others.
Says(p, words) == \E i \in 1..Len(p.segs) : p.segs[i] \in words
Inside(p, word) == \E i \in 2..(Len(p.segs) - 1) : p.segs[i] = word

Behavior(p) ==
    IF Says(p, {"classical"}) THEN "classical"
    ELSE IF Says(p, {"geoip", "ipcidr", "cidr"}) \/ Inside(p, "ip") THEN "ipcidr"
    ELSE "domain"

-----------------------------------------------------------------------------
(* From a tree to an index *)

Starts(s) == {SubSeq(s, 1, n) : n \in 0..Len(s)}

\* The root is cut off where the text of the path begins with it, be it inside a name;
\* behind a whole name, its slash as well.
TrimRoot(root, p) ==
    LET n == Len(root)
        below == SubSeq(p.segs, n + 1, Len(p.segs))
        rest == Rest[<<p.segs[n], root[n]>>]
        left == IF rest = NoName /\ (below # <<>> \/ p.ext = None) THEN below ELSE <<rest>> \o below
    IN  IF n \in 1..Len(p.segs) /\ SubSeq(p.segs, 1, n - 1) = SubSeq(root, 1, n - 1) /\ rest # None
        THEN [p EXCEPT !.segs = left] ELSE p

Hidden(p) == \E i \in 2..Len(p.segs) : p.segs[i] \in HiddenSegments
Relative(mapping, blobs) ==
    {p \in {TrimRoot(mapping.root, b) : b \in blobs} : p.segs # <<>> /\ ~Hidden(p)}

\* Mutant: the root of the mapping is forgotten.
RawURLMutant(repo, core, p) ==
    [owner |-> repo.owner, ref |-> repo.mappings[core].ref, path |-> p]

RawURL(repo, core, p) ==
    [owner |-> repo.owner, ref |-> repo.mappings[core].ref,
     path |-> [p EXCEPT !.segs = repo.mappings[core].root \o @]]

\* Mutant: without the look at compiled classical rules.
IndexableMutant(core, p) == Format(core, p.ext) # None

Indexable(core, p) ==
    /\ Format(core, p.ext) # None
    /\ ~(core = "mihomo" /\ p.ext = "mrs" /\ Behavior(p) = "classical")
Ignored(p) == Len(p.segs) > 1 /\ p.segs[1] = "asn"

IndexFile(repo, core, p) ==
    [path |-> p, behavior |-> IF core = "mihomo" THEN Behavior(p) ELSE None,
     url |-> RawURL(repo, core, p)]

\* The paths of a core that an index keeps, those without a logical path not among them;
\* of two with one, the later.
Kept(repo, core, paths) ==
    IF repo.mappings[core] = None THEN {}
    ELSE {p \in paths : Indexable(core, p) /\ ~Ignored(p) /\ p.segs # <<NoName>>}
Later(p, q) ==
    \E i, j \in 1..Len(Extensions) : i < j /\ Extensions[i] = p.ext /\ Extensions[j] = q.ext
Chosen(ps) == {p \in ps : \A q \in ps : q.segs = p.segs => ~Later(p, q)}

Logical(p) == [p EXCEPT !.ext = None]
RefsOf(repo) ==
    [core \in Cores |-> IF repo.mappings[core] = None THEN None ELSE repo.mappings[core].ref]

BuildIndex(repo, paths) ==
    LET chosen == [core \in Cores |-> Chosen(Kept(repo, core, paths[core]))]
        at(core, k) == {p \in chosen[core] : Logical(p) = k}
    IN [owner |-> repo.owner, refs |-> RefsOf(repo),
        entries |-> [k \in {Logical(p) : p \in UNION {chosen[core] : core \in Cores}} |->
                       [core \in Cores |->
                          IF at(core, k) = {} THEN None
                          ELSE IndexFile(repo, core, CHOOSE p \in at(core, k) : TRUE)]]]

\* What each file selectable for mihomo may be, the likelier with the higher priority.
Candidates(p) ==
    {c \in {<<10, Behavior(p)>>, <<80, "ipcidr">>, <<90, "classical">>} :
       \/ c[1] = 10
       \/ c[1] = 80 /\ (Says(p, {"ipcidr", "cidr"}) \/ Inside(p, "ip"))
       \/ c[1] = 90 /\ Says(p, {"classical"})}
SelectableFile(repo, core, p) ==
    LET best == CHOOSE c \in Candidates(p) : \A d \in Candidates(p) : d[1] <= c[1]
    IN [path |-> p, behavior |-> IF core = "mihomo" THEN best[2] ELSE None,
        url |-> RawURL(repo, core, p)]
Selectable(core, paths) == {p \in paths : Format(core, p.ext) # None}

\* Mutant: files of other cores are lost.
ReplacedMutant(repo, core, old, paths) ==
    [k \in paths |-> [c \in Cores |-> IF c = core THEN SelectableFile(repo, core, k) ELSE None]]

\* The entries old with the files of one core replaced; these keep their extension.
Replaced(repo, core, old, paths) ==
    LET others == {k \in DOMAIN old : \E other \in Cores \ {core} : old[k][other] # None}
        file(k, c) == IF c = core
                      THEN IF k \in paths THEN SelectableFile(repo, core, k) ELSE None
                      ELSE IF k \in others THEN old[k][c] ELSE None
    IN [k \in others \cup paths |-> [c \in Cores |-> file(k, c)]]

\* Mutant: the branch of the core stays what it was.
WithSelectableRefsMutant(repo, core, old, paths) ==
    [owner |-> repo.owner, refs |-> old.refs, entries |-> Replaced(repo, core, old.entries, paths)]

WithSelectable(repo, core, old, paths) ==
    [owner |-> repo.owner, refs |-> [old.refs EXCEPT ![core] = repo.mappings[core].ref],
     entries |-> Replaced(repo, core, old.entries, paths)]

-----------------------------------------------------------------------------
(* Reading an index *)

\* Every directory above an entry.
Directories(entries) ==
    UNION {{SubSeq(k.segs, 1, n) : n \in 1..(Len(k.segs) - 1)} : k \in DOMAIN entries}
Above(segs) == SubSeq(segs, 1, Len(segs) - 1)

Smaller(m, n) == IF m < n THEN m ELSE n
Page(items, offset, limit) ==
    LET from == Smaller(offset, Len(items))
        size == IF limit = 0 THEN Len(items) ELSE limit
        end == Smaller(from + size, Len(items))
    IN [items |-> SubSeq(items, from + 1, end), next |-> end, more |-> end < Len(items)]

Clauses == {"core", "format", "behavior"}
Field(files, core) ==
    [core |-> core, format |-> Format(core, files[core].path.ext), behavior |-> files[core].behavior]

\* What a filter asks of entries; None and the empty prefix ask nothing.  Of the snapshot:
\* that it is below the prefix, and that one file has all that is asked.
SnapshotMatches(k, files, f) ==
    /\ f.prefix \in Starts(Above(k.segs)) \/ k = [segs |-> f.prefix, ext |-> None]
    /\ \/ \A clause \in Clauses : f[clause] = None
       \/ \E core \in Cores :
            /\ files[core] # None
            /\ \A clause \in Clauses : f[clause] # None => Field(files, core)[clause] = f[clause]

\* How the tables compare: by patterns.
Alike(like, asked, x) == x = asked \/ (asked \in DOMAIN like /\ x \in like[asked])

PrefixMatches(k, f) ==
    \/ f.prefix = <<>>
    \/ k = [segs |-> f.prefix, ext |-> None]
    \/ \E dir \in Starts(Above(k.segs)) \ {<<>>} : Alike(LikePrefix, f.prefix, dir)

\* Mutant: every file of an entry has to match.
DatabaseMatchesMutant(k, files, f) ==
    /\ PrefixMatches(k, f)
    /\ \A clause \in Clauses : f[clause] # None =>
         \A core \in Cores :
           files[core] # None => Alike(LikeWord, f[clause], Field(files, core)[clause])

\* Of the tables: each clause looks at all files of the entry, which are one column.
DatabaseMatches(k, files, f) ==
    /\ PrefixMatches(k, f)
    /\ \A clause \in Clauses : f[clause] # None =>
         \E core \in Cores :
           files[core] # None /\ Alike(LikeWord, f[clause], Field(files, core)[clause])

-----------------------------------------------------------------------------
(* Saving a file as a rule asset *)

\* An asset is a rule set of sing-box or a rule provider of mihomo; what is left empty
\* is inferred from the location.
FilledIn(core, asset) ==
    [asset EXCEPT
       !.format = IF @ # None THEN @
                  ELSE IF core = "mihomo" /\ Format(core, asset.location.ext) = None THEN "yaml"
                  ELSE Format(core, asset.location.ext),
       !.behavior = IF core = "mihomo" /\ @ = None THEN Behavior(asset.location) ELSE @]

WellFormed(core, asset) ==
    /\ asset.format \in {Formats[core][e] : e \in DOMAIN Formats[core]}
    /\ core = "mihomo" => /\ asset.behavior \in Behaviors
                          /\ ~(asset.format = "mrs" /\ asset.behavior = "classical")
    /\ asset.mode \in {"repository-file", "remote", "local"}
    /\ asset.mode = "repository-file" => asset.repository # None
    /\ asset.location.segs # <<>>

\* repo is what the asset's repository is when it is saved.
Accepted(repo, core, asset) ==
    /\ WellFormed(core, FilledIn(core, asset))
    /\ asset.mode = "repository-file" => repo # None /\ repo.mappings[core] # None
=============================================================================
