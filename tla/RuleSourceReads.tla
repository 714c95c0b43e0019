-------------------------- MODULE RuleSourceReads --------------------------
(***************************************************************************)
(* What a browser of rule sources is shown: pages of an index by directory *)
(* or flat, and searches, from the tables or from the snapshot that the    *)
(* program holds for the built-in repository.                              *)
(***************************************************************************)
EXTENDS RuleSources, SequencesExt

CONSTANT Filters   \* what searches ask

NoFilter == [core |-> None, format |-> None, behavior |-> None, prefix |-> <<>>]

\* The rows of an index, or of the snapshot if the built-in repository has none.
Shown(id) ==
    IF header[id] # None THEN [entries |-> entries[id], directories |-> directories[id]]
    ELSE IF id = BuiltIn
    THEN [entries |-> Snapshot.entries, directories |-> Directories(Snapshot.entries)]
    ELSE None

\* Entries are sorted by their logical path; here any fixed order does.
Ordered(ks) == FoldSet(LAMBDA k, seq : Append(seq, k), <<>>, ks)

IndexPage(id, dir, offset, limit) ==
    [directories |-> {d \in Shown(id).directories : Above(d) = dir},
     page |-> Page(Ordered({k \in DOMAIN Shown(id).entries : Above(k.segs) = dir}),
                   offset, limit)]
FlatPage(id, offset, limit) == Page(Ordered(DOMAIN Shown(id).entries), offset, limit)

\* Without a query the database answers with its first directory, the snapshot with all.
Matching(id, f) ==
    LET es == Shown(id).entries IN
    IF header[id] = None THEN {k \in DOMAIN es : SnapshotMatches(k, es[k], f)}
    ELSE IF f = NoFilter THEN {k \in DOMAIN es : Above(k.segs) = <<>>}
    ELSE {k \in DOMAIN es : DatabaseMatches(k, es[k], f)}
Search(id, f, offset, limit) == Page(Ordered(Matching(id, f)), offset, limit)

\* FindRuleSourceIndexEntry: a key without a row is looked for in the snapshot as well.
FindEntry(id, k) ==
    IF k \in DOMAIN entries[id] THEN entries[id][k]
    ELSE IF id = BuiltIn /\ k \in DOMAIN Snapshot.entries THEN Snapshot.entries[k]
    ELSE None

-----------------------------------------------------------------------------
(* Properties *)

\* What a client has seen that starts at 0 and goes on with the next offset it is told;
\* pages has the page at every offset.
Walk(pages) ==
    LET from[o \in DOMAIN pages] ==
          IF pages[o].more THEN pages[o].items \o from[pages[o].next] ELSE pages[o].items
    IN from[0]

\* The directories a client comes to that starts at the root and opens what is listed.
Reached(id) ==
    {<<>>} \cup {d \in Shown(id).directories :
                   Starts(d) \ {<<>>} \subseteq Shown(id).directories}

\* Every entry of an index is shown to a client that pages through all of it, or
\* through its directories, once, and the importer's lookup finds what is shown; also
\* when the index was stored by refreshes of single cores, and when its deletion has
\* stopped halfway.
ReadsShowEveryEntry ==
    \A id \in Ids : Shown(id) # None =>
      LET all == DOMAIN Shown(id).entries
          total == Cardinality(all)
          in(dir, limit) == Walk([o \in 0..total |-> IndexPage(id, dir, o, limit).page])
      IN /\ Walk([o \in 0..total |-> FlatPage(id, o, 2)]) = Ordered(all)
         /\ UNION {ToSet(in(dir, 1)) : dir \in Reached(id)} = all
         /\ \A dir \in Reached(id) : IsInjective(in(dir, 1))
         /\ \A k \in all : FindEntry(id, k) = Shown(id).entries[k]

\* A search of the tables finds all that the same search of a snapshot with these entries
\* finds.  It finds nothing else if it asks for one thing, and for what no pattern matches
\* besides: asked for several, it also finds entries of which one file has the one and
\* another file the other, and asked for geo_ip it takes geo-ip for it.
SearchAgrees ==
    \A id \in Ids : header[id] # None => \A f \in Filters \ {NoFilter} :
      LET hits == Matching(id, f)
          expected == {k \in DOMAIN entries[id] : SnapshotMatches(k, entries[id][k], f)}
          asked == {c \in Clauses : f[c] # None}
          plain == f.prefix \notin DOMAIN LikePrefix /\ \A c \in asked : f[c] \notin DOMAIN LikeWord
      IN expected \subseteq hits /\ (Cardinality(asked) <= 1 /\ plain => hits = expected)
=============================================================================
