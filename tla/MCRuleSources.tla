--------------------------- MODULE MCRuleSources ---------------------------
(* RuleSources for TLC: two branches, one built-in and one user's repository. *)
EXTENDS RuleSourceReads, TLC

Symmetry == Permutations(Clients)

\* Nothing finds a repository stored under the id of the built-in one, and the indexes of
\* two repositories never meet: neither is looked at beside everything else.
Bounded ==
    /\ repos[BuiltIn] # None => \A c \in Clients : pc[c] = "idle"
    /\ \E id \in Ids : header[id] = None

P(segs, ext) == [segs |-> segs, ext |-> ext]
Map(ref, root) == [ref |-> ref, root |-> root]
Both(a, b) == [core \in Cores |-> IF core = "mihomo" THEN a ELSE b]

MCSegments == {"", "asn", "geo", "geosite", "site", "ip", "classical", "cn", ".git"}
MCRest ==
    [n \in MCSegments \X MCSegments |->
        IF n[1] = n[2] THEN "" ELSE IF n = <<"geosite", "geo">> THEN "site" ELSE None]
MCLikeWord == [w \in {"y_ml"} |-> {"yaml"}]
MCLikePrefix == [p \in {<<"GEO">>} |-> {<<"geo">>}]

MCBuiltInRepository == [owner |-> "MetaCubeX", mappings |-> Both(Map("meta", <<>>), Map("sing", <<>>))]
MCRepoChoices ==
    {[owner |-> "example", mappings |-> Both(Map("meta", <<"geo">>), Map("sing", <<>>))],
     [owner |-> "example", mappings |-> Both(None, Map("meta", <<>>))]}

\* Logical paths of both cores, two extensions of one, a compiled classical file, files
\* outside the root and such whose names begin like it, hidden and ignored ones.
Meta == {P(<<"geo", "geosite", "cn">>, "mrs"), P(<<"geo", "geosite", "cn">>, "yaml"),
         P(<<"geo", "ip", "cn">>, "mrs"), P(<<"geo", "classical", "cn">>, "mrs"),
         P(<<"cn">>, "list"), P(<<"geosite", "cn">>, "yaml"), P(<<"geo">>, "yaml")}
Sing == {P(<<"geo", "geosite", "cn">>, "srs"), P(<<"geo", "ip", "cn">>, "json"),
         P(<<"asn", "cn">>, "srs"), P(<<"geo", ".git", "cn">>, "json")}
MCTrees == [r \in GitRefs |-> IF r = "meta" THEN {Meta, {P(<<"geo", "cn">>, "yml")}} ELSE {Sing}]
MCArchive == Both(Meta, Sing)

Ask(c, f, b, p) == [core |-> c, format |-> f, behavior |-> b, prefix |-> p]
MCFilters ==
    {Ask(None, None, None, <<>>), Ask("sing-box", None, "ipcidr", <<"geo">>),
     Ask(None, "yaml", None, <<>>), Ask("mihomo", "mrs", "classical", <<>>),
     Ask(None, None, None, <<"geo", "ip", "cn">>), Ask(None, "y_ml", None, <<>>),
     Ask(None, None, None, <<"GEO">>)}
=============================================================================
