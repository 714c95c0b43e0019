--------------------------- MODULE RuntimeCompile ---------------------------
(***************************************************************************)
(* The documents compileRuntime makes of the store for each core           *)
(* (internal/api/runtime.go), over every store that edits can reach.  The  *)
(* compiler reads the store once (Bootstrap) and is a function of what it  *)
(* read, so its stages are operators on the state.                         *)
(*                                                                         *)
(* Node, group and rule sets of one name come from one subscription; their *)
(* name is their id.  A set that is absent is an empty one: the compiler   *)
(* cannot tell.  A rule list is a function from positions to rules, so a   *)
(* filter is a restriction and the order of rules is never in question.    *)
(* Left out: everything of the documents that refers to nothing (DNS,      *)
(* inbounds, transports), mihomo's rule providers, trimming and case of    *)
(* tags, and nesting of rules deeper than two levels.                      *)
(***************************************************************************)
EXTENDS Sequences

CONSTANTS
    Names,           \* names of node, group and rule sets
    Tags,            \* tags of nodes and groups
    NoTag,           \* no outbound (the empty string)
    RuleSetTags,     \* tags a rule's rule_set may name
    BuiltInTags,     \* those of them that need no configuration (geoip-, geosite-)
    Repositories,    \* ids of rule source repositories
    NodeChoices,     \* the node sets a user or a refresh may save, by their tags
    GroupChoices,    \* the group sets a user or a refresh may save
    RuleChoices      \* the rule sets they may save

BuiltIns == {"DIRECT", "REJECT", "BLOCK", "GLOBAL"}
Refs == Tags \cup BuiltIns
Matchers == {"source", "other"}   \* source_ip_cidr, any other list of strings but rule_set

\* A rule of a logical rule, and a rule: raw holds the targets of its mihomo lines;
\* unfit is a rule for which sing-box has no counterpart.
Child == [out : Refs \cup {NoTag}, sets : SUBSET RuleSetTags,
          match : SUBSET Matchers, unfit : BOOLEAN]
Rule == [out : Refs \cup {NoTag}, sets : SUBSET RuleSetTags,
         match : SUBSET Matchers, unfit : BOOLEAN,
         raw : SUBSET (Refs \cup {NoTag}), rules : SUBSET Child]
Group == [outbounds : SUBSET Refs, selector : BOOLEAN]
IsGroupSet(gs) == DOMAIN gs \subseteq Tags /\ gs \in [DOMAIN gs -> Group]

\* Where a sing-box rule set comes from.
Sources == {"remote", "none"} \cup Repositories

ASSUME TagsAreNotBuiltIn == Tags \cap BuiltIns = {}
ASSUME NoTagIsNoTag == NoTag \notin Refs
ASSUME RepositoriesAreOthers == Repositories \cap {"remote", "none"} = {}
ASSUME BuiltInTagsAreTags == BuiltInTags \subseteq RuleSetTags
ASSUME NodeChoicesAreTags == NodeChoices \subseteq SUBSET Tags
ASSUME GroupChoicesAreGroupSets == \A gs \in GroupChoices : IsGroupSet(gs)
ASSUME RuleChoicesAreRuleSets == RuleChoices \subseteq Seq(Rule)

VARIABLES
    nodeSets,        \* the tags of each node set
    groupSets,       \* the groups of each group set, by tag
    groupOlder,      \* pairs of group sets, the second listed after the first
    ruleSets,        \* the rules of each rule set
    picked,          \* routingRuleSetIds
    mappings,        \* repositories, and whether they map sing-box to a ref
    sources          \* the configured sing-box rule sets, by tag

vars == <<nodeSets, groupSets, groupOlder, ruleSets, picked, mappings, sources>>

TypeOK ==
    /\ nodeSets \in [Names -> SUBSET Tags]
    /\ DOMAIN groupSets = Names /\ \A n \in Names : IsGroupSet(groupSets[n])
    /\ groupOlder \in SUBSET (Names \X Names)
    /\ ruleSets \in [Names -> Seq(Rule)]
    /\ picked \in SUBSET Names
    /\ mappings \in [Repositories -> {"absent", "unmapped", "mapped"}]
    /\ sources \in [RuleSetTags -> Sources]

Init ==
    /\ nodeSets = [n \in Names |-> {}]
    /\ groupSets = [n \in Names |-> [t \in {} |-> [outbounds |-> {}, selector |-> FALSE]]]
    /\ groupOlder = {}
    /\ ruleSets = [n \in Names |-> <<>>]
    /\ picked = {}
    /\ mappings = [r \in Repositories |-> "absent"]
    /\ sources = [t \in RuleSetTags |-> "none"]

-----------------------------------------------------------------------------
(* The store *)

SaveNodeSet(n) ==
    /\ \E ts \in NodeChoices : nodeSets' = [nodeSets EXCEPT ![n] = ts]
    /\ UNCHANGED <<groupSets, groupOlder, ruleSets, picked, mappings, sources>>

\* Sets are listed by the time they were saved, newest first.
SaveGroupSet(n) ==
    /\ \E gs \in GroupChoices : groupSets' = [groupSets EXCEPT ![n] = gs]
    /\ groupOlder' = {<<n, m>> : m \in Names \ {n}}
                        \cup {p \in groupOlder : n \notin {p[1], p[2]}}
    /\ UNCHANGED <<nodeSets, ruleSets, picked, mappings, sources>>

SaveRuleSet(n) ==
    /\ \E rs \in RuleChoices : ruleSets' = [ruleSets EXCEPT ![n] = rs]
    /\ UNCHANGED <<nodeSets, groupSets, groupOlder, picked, mappings, sources>>

PickRuleSets ==
    /\ picked' \in SUBSET Names
    /\ UNCHANGED <<nodeSets, groupSets, groupOlder, ruleSets, mappings, sources>>

SaveRepository(r) ==
    /\ \E to \in {"unmapped", "mapped"} : mappings' = [mappings EXCEPT ![r] = to]
    /\ UNCHANGED <<nodeSets, groupSets, groupOlder, ruleSets, picked, sources>>

DeleteRepository(r) ==
    /\ mappings[r] # "absent"
    /\ mappings' = [mappings EXCEPT ![r] = "absent"]
    /\ UNCHANGED <<nodeSets, groupSets, groupOlder, ruleSets, picked, sources>>

\* A rule set is saved only while its repository maps sing-box.
SaveSingBoxRuleSet(t) ==
    /\ \E s \in {"remote"} \cup {r \in Repositories : mappings[r] = "mapped"} :
          sources' = [sources EXCEPT ![t] = s]
    /\ UNCHANGED <<nodeSets, groupSets, groupOlder, ruleSets, picked, mappings>>

DeleteSingBoxRuleSet(t) ==
    /\ sources[t] # "none"
    /\ sources' = [sources EXCEPT ![t] = "none"]
    /\ UNCHANGED <<nodeSets, groupSets, groupOlder, ruleSets, picked, mappings>>

Next ==
    \/ \E n \in Names : SaveNodeSet(n) \/ SaveGroupSet(n) \/ SaveRuleSet(n)
    \/ PickRuleSets
    \/ \E r \in Repositories : SaveRepository(r) \/ DeleteRepository(r)
    \/ \E t \in RuleSetTags : SaveSingBoxRuleSet(t) \/ DeleteSingBoxRuleSet(t)

Spec == Init /\ [][Next]_vars

-----------------------------------------------------------------------------
(* Selection: what of the store the documents are made of *)

\* uniqueGroupsByTag: of groups with one tag, the one listed first.
UniqueGroups(names) ==
    LET having(t) == {n \in names : t \in DOMAIN groupSets[n]}
        first(t) == CHOOSE n \in having(t) :
                        \A m \in having(t) \ {n} : <<n, m>> \in groupOlder
    IN  [t \in UNION {DOMAIN groupSets[n] : n \in names} |-> groupSets[first(t)][t]]

\* Without a selection, or when what is selected has none, every group is taken.
SelectedGroups ==
    IF picked = {} \/ DOMAIN UniqueGroups(picked) = {} THEN UniqueGroups(Names)
                                                      ELSE UniqueGroups(picked)

\* Of rules, nothing is taken without a selection.
SelectedRules ==
    LET at == {p \in picked \X UNION {DOMAIN ruleSets[n] : n \in picked} :
                   p[2] \in DOMAIN ruleSets[p[1]]}
    IN  [p \in at |-> ruleSets[p[1]][p[2]]]

Targets(rule) == {rule.out} \cup rule.raw \cup {c.out : c \in rule.rules}

\* Mutant: only the mihomo lines of a rule are looked at.
ReferencesMutant(groups, rules) ==
    ((UNION {groups[t].outbounds : t \in DOMAIN groups})
        \cup UNION {rules[p].raw : p \in DOMAIN rules}) \ BuiltIns

References(groups, rules) ==
    ((UNION {groups[t].outbounds : t \in DOMAIN groups})
        \cup UNION {Targets(rules[p]) : p \in DOMAIN rules}) \ BuiltIns

AllNodes == UNION {nodeSets[n] : n \in Names}

\* The nodes of the selected names, and every other node that is referred to.
SelectedNodes(groups, rules) ==
    LET own == UNION {nodeSets[n] : n \in picked}
    IN  IF own = {} THEN AllNodes
                    ELSE own \cup (AllNodes \cap References(groups, rules))

-----------------------------------------------------------------------------
(* sanitizeRuntimeOutboundReferences: what refers to nothing is dropped *)

Normal(ref) == IF ref = "BLOCK" THEN "REJECT" ELSE ref

\* Mutant: groups that were not selected count.
AvailableMutant(nodes, groups) == BuiltIns \cup nodes \cup DOMAIN UniqueGroups(Names)

Available(nodes, groups) == BuiltIns \cup nodes \cup DOMAIN groups

CleanRefs(refs, available) == {Normal(r) : r \in refs \cap available}

\* A group that would be empty becomes one of DIRECT.
CleanGroups(groups, available) ==
    [t \in DOMAIN groups |->
        LET outs == CleanRefs(groups[t].outbounds, available)
        IN  [outbounds |-> IF outs = {} THEN {"DIRECT"} ELSE outs,
             selector |-> groups[t].selector]]

CleanOut(rule) == [rule EXCEPT !.out = Normal(rule.out)]

\* Lines without a target are kept.
CleanRaw(rule, available) == CleanRefs(rule.raw, available \cup {NoTag})

CleanChildren(rule, available) ==
    {CleanOut(c) : c \in {d \in rule.rules : d.out \in available \cup {NoTag}}}

\* A rule goes with its target, or with the last of its lines or of its rules.
Kept(rule, available) ==
    /\ rule.out \in available \cup {NoTag}
    /\ rule.raw # {} => CleanRaw(rule, available) # {}
    /\ rule.rules # {} => CleanChildren(rule, available) # {}

CleanRules(rules, available) ==
    [p \in {q \in DOMAIN rules : Kept(rules[q], available)} |->
        [CleanOut(rules[p]) EXCEPT !.raw = CleanRaw(rules[p], available),
                                   !.rules = CleanChildren(rules[p], available)]]

Sanitize(nodes, groups, rules) ==
    LET available == Available(nodes, groups)
    IN  [nodes |-> nodes, groups |-> CleanGroups(groups, available),
         rules |-> CleanRules(rules, available)]

Selection ==
    LET groups == SelectedGroups
        rules == SelectedRules
    IN  Sanitize(SelectedNodes(groups, rules), groups, rules)

\* Each renderer sanitizes once more, unless there is neither a node nor a group.
Input ==
    LET in == Selection
    IN  IF in.nodes = {} /\ DOMAIN in.groups = {} THEN in
                                                  ELSE Sanitize(in.nodes, in.groups, in.rules)

-----------------------------------------------------------------------------
(* The document of mihomo *)

\* The targets of a rule's lines: of its raw lines, or else of one line per source.
Lines(rule) ==
    IF rule.raw # {} THEN rule.raw
    ELSE IF "source" \notin rule.match THEN {}
    ELSE {IF rule.out = NoTag THEN "DIRECT" ELSE rule.out}

\* DIRECT, REJECT and GLOBAL are built into mihomo.
Mihomo ==
    LET in == Input
    IN  [outbounds |-> {"DIRECT", "REJECT", "GLOBAL"} \cup in.nodes \cup DOMAIN in.groups,
         groups |-> in.groups,
         rules |-> [p \in DOMAIN in.rules |-> Lines(in.rules[p])]]

-----------------------------------------------------------------------------
(* The document of sing-box *)

Matchless(rule) == rule.sets = {} /\ rule.match = {}

RuleSetsOf(rule) == rule.sets \cup UNION {c.sets : c \in rule.rules}

ReferencedBuiltIns(rules) ==
    BuiltInTags \cap UNION {RuleSetsOf(rules[p]) : p \in DOMAIN rules}

\* A configured rule set may be named whatever became of its repository.
Allowed(rules) == {t \in RuleSetTags : sources[t] # "none"} \cup ReferencedBuiltIns(rules)

\* Mutant: a rule that lost its rule sets stays.
FitsMutant(rule, allowed) == ~rule.unfit

\* A rule that only names rule sets goes with the last of them.
Fits(rule, allowed) ==
    /\ ~rule.unfit
    /\ rule.sets # {} /\ rule.match = {} => rule.sets \cap allowed # {}

RenderedChildren(rule, allowed) ==
    {[c EXCEPT !.sets = @ \cap allowed] :
        c \in {d \in rule.rules : Fits(d, allowed) /\ ~(Matchless(d) /\ d.out = NoTag)}}

Rendered(rules, allowed) ==
    [p \in {q \in DOMAIN rules :
                /\ Fits(rules[q], allowed)
                /\ rules[q].rules # {} => RenderedChildren(rules[q], allowed) # {}} |->
        [rules[p] EXCEPT !.sets = @ \cap allowed,
                         !.rules = RenderedChildren(rules[p], allowed)]]

\* Mutant: built-in rule sets are not rendered.
RenderedRuleSetsMutant(rules) ==
    {t \in RuleSetTags :
        \/ sources[t] = "remote"
        \/ sources[t] \in Repositories /\ mappings[sources[t]] = "mapped"}

\* A configured rule set is left out if its repository is gone or maps another core.
RenderedRuleSets(rules) ==
    {t \in RuleSetTags :
        \/ sources[t] = "remote"
        \/ sources[t] \in Repositories /\ mappings[sources[t]] = "mapped"}
    \cup ReferencedBuiltIns(rules)

\* What the download of rule sets may go through: a selector, or the target of a
\* rule, or any group, or any node.  The code takes the first of the kind.
Detours(in) ==
    LET selectors == {t \in DOMAIN in.groups : in.groups[t].selector}
        targets == ({in.rules[p].out : p \in DOMAIN in.rules}
                      \cup UNION {{c.out : c \in in.rules[p].rules} : p \in DOMAIN in.rules})
                   \cap (in.nodes \cup DOMAIN in.groups)
    IN  IF selectors # {} THEN selectors
        ELSE IF targets # {} THEN targets
        ELSE IF DOMAIN in.groups # {} THEN DOMAIN in.groups
        ELSE in.nodes

\* DIRECT and REJECT are outbounds the document defines; GLOBAL it does not.
SingBox ==
    LET in == Input
    IN  [outbounds |-> {"DIRECT", "REJECT"} \cup in.nodes \cup DOMAIN in.groups,
         groups |-> in.groups,
         rules |-> Rendered(in.rules, Allowed(in.rules)),
         ruleSets |-> RenderedRuleSets(in.rules),
         detours |-> Detours(Selection)]

-----------------------------------------------------------------------------
(* Properties *)

\* Whatever was renamed, deleted or left unselected, neither core is given a group
\* member or a target that its document does not define: a core rejects such a
\* document.  (sanitizeRuntimeOutboundReferences keeps GLOBAL for both cores, and
\* only mihomo has it.)
ReferencesDefined ==
    /\ LET d == Mihomo
       IN  /\ \A t \in DOMAIN d.groups : d.groups[t].outbounds \subseteq d.outbounds
           /\ \A p \in DOMAIN d.rules : d.rules[p] \subseteq d.outbounds \cup {NoTag}
    /\ LET d == SingBox
           known == d.outbounds \cup {"GLOBAL"}
       IN  /\ \A t \in DOMAIN d.groups : d.groups[t].outbounds \subseteq known
           /\ \A p \in DOMAIN d.rules :
                 {d.rules[p].out} \cup {c.out : c \in d.rules[p].rules} \subseteq known \cup {NoTag}

\* Selecting rule sets loses nothing they need: a rule all of whose targets are nodes
\* of the store, in whichever node set, groups of the selection or built in reaches
\* the renderers whole, and a group keeps every such member.
KnownTargetsKept ==
    LET groups == SelectedGroups
        rules == SelectedRules
        known == BuiltIns \cup AllNodes \cup DOMAIN groups
        in == Input
    IN  /\ \A p \in DOMAIN rules :
              LET r == rules[p]
              IN  Targets(r) \subseteq known \cup {NoTag}
                  => /\ p \in DOMAIN in.rules
                     /\ in.rules[p].raw = {Normal(l) : l \in r.raw}
                     /\ in.rules[p].rules = {CleanOut(c) : c \in r.rules}
        /\ \A t \in DOMAIN groups :
              {Normal(m) : m \in groups[t].outbounds \cap known} \subseteq in.groups[t].outbounds

\* A rule of sing-box that matches everything was written so: no rule becomes one, and
\* swallows those after it, because what it named was dropped.
NoCatchAllByAccident ==
    LET rules == SelectedRules
        shown == SingBox.rules
    IN  \A p \in DOMAIN shown :
            /\ Matchless(shown[p]) /\ shown[p].rules = {}
                => Matchless(rules[p]) /\ rules[p].rules = {}
            /\ (\E c \in shown[p].rules : Matchless(c)) => \E c \in rules[p].rules : Matchless(c)

\* Rule sets are downloaded through a proxy of the document, if it has one.
DetourDefined ==
    LET d == SingBox
    IN  /\ d.detours \subseteq d.outbounds \ {"DIRECT", "REJECT"}
        /\ d.detours = {} => d.outbounds = {"DIRECT", "REJECT"}

\* A rule of sing-box names an undefined rule set only if that is configured and its
\* repository was deleted, or mapped to another core, afterwards.
OnlyLostRepositories ==
    LET d == SingBox
    IN  \A p \in DOMAIN d.rules : \A t \in RuleSetsOf(d.rules[p]) \ d.ruleSets :
            sources[t] \in Repositories /\ mappings[sources[t]] # "mapped"

\* runtime_test.go: a rule whose rule set is not rendered is left out.  Deleting the
\* repository of a configured rule set breaks it: the rule set goes, the rule stays.
RuleSetsDefined ==
    LET d == SingBox
    IN  \A p \in DOMAIN d.rules : RuleSetsOf(d.rules[p]) \subseteq d.ruleSets
=============================================================================
