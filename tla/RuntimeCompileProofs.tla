------------------------ MODULE RuntimeCompileProofs ------------------------
(***************************************************************************)
(* Theorems about RuntimeCompile, whose documents refer only to what they  *)
(* hold, and about RuntimeConfig: whatever is saved, the rules of names    *)
(* refer to servers and rule sets that are there, answer as the first rule *)
(* of the user that speaks of a name says, keep foreign names from the     *)
(* default servers, and mean the same to both cores.                       *)
(***************************************************************************)
EXTENDS RuntimeConfig, FiniteSetTheorems, SequenceTheorems, WellFoundedInduction, TLAPS

-----------------------------------------------------------------------------
(* Types *)

\* The store holds sets, rules and sources of the kinds the compiler expects:
\* every save replaces one of them by another of its kind.
THEOREM TypeCorrect == Spec => []TypeOK
<1>1. Init => TypeOK
  <2> SUFFICES ASSUME Init PROVE TypeOK
    OBVIOUS
  <2>1. \A n \in Names : IsGroupSet(groupSets[n])
    BY DEF Init, IsGroupSet
  <2>2. ruleSets \in [Names -> Seq(Rule)]
    BY DEF Init
  <2> QED
    BY <2>1, <2>2 DEF Init, TypeOK, Sources
<1>2. TypeOK /\ [Next]_vars => TypeOK'
  <2> SUFFICES ASSUME TypeOK, [Next]_vars PROVE TypeOK'
    OBVIOUS
  <2> USE DEF TypeOK
  <2>1. CASE UNCHANGED vars
    BY <2>1 DEF vars
  <2>2. ASSUME NEW n \in Names, SaveNodeSet(n) PROVE TypeOK'
    BY <2>2, NodeChoicesAreTags DEF SaveNodeSet
  <2>3. ASSUME NEW n \in Names, SaveGroupSet(n) PROVE TypeOK'
    <3>1. PICK gs \in GroupChoices : groupSets' = [groupSets EXCEPT ![n] = gs]
      BY <2>3 DEF SaveGroupSet
    <3>2. IsGroupSet(gs)
      BY GroupChoicesAreGroupSets
    <3>3. DOMAIN groupSets' = Names /\ \A m \in Names : IsGroupSet(groupSets'[m])
      <4>1. DOMAIN groupSets' = Names
        BY <3>1
      <4>2. ASSUME NEW m \in Names PROVE IsGroupSet(groupSets'[m])
        <5>1. CASE m = n
          BY <3>1, <3>2, <5>1
        <5>2. CASE m # n
          <6>1. groupSets'[m] = groupSets[m]
            BY <3>1, <5>2
          <6> QED
            BY <6>1
        <5> QED
          BY <5>1, <5>2
      <4> QED
        BY <4>1, <4>2
    <3>4. groupOlder' \in SUBSET (Names \X Names)
      BY <2>3 DEF SaveGroupSet
    <3> QED
      BY <2>3, <3>3, <3>4 DEF SaveGroupSet, IsGroupSet
  <2>4. ASSUME NEW n \in Names, SaveRuleSet(n) PROVE TypeOK'
    BY <2>4, RuleChoicesAreRuleSets DEF SaveRuleSet
  <2>5. CASE PickRuleSets
    BY <2>5 DEF PickRuleSets
  <2>6. ASSUME NEW r \in Repositories, SaveRepository(r) PROVE TypeOK'
    BY <2>6 DEF SaveRepository
  <2>7. ASSUME NEW r \in Repositories, DeleteRepository(r) PROVE TypeOK'
    BY <2>7 DEF DeleteRepository
  <2>8. ASSUME NEW t \in RuleSetTags, SaveSingBoxRuleSet(t) PROVE TypeOK'
    BY <2>8 DEF SaveSingBoxRuleSet, Sources
  <2>9. ASSUME NEW t \in RuleSetTags, DeleteSingBoxRuleSet(t) PROVE TypeOK'
    BY <2>9 DEF DeleteSingBoxRuleSet, Sources
  <2> QED
    BY <2>1, <2>2, <2>3, <2>4, <2>5, <2>6, <2>7, <2>8, <2>9 DEF Next
<1> QED
  BY <1>1, <1>2, PTL DEF Spec

-----------------------------------------------------------------------------
(* What the renderers are given *)

\* Every reference is to a node, a group, or an outbound mihomo has built in.
Closed(in) ==
    LET known == {"DIRECT", "REJECT", "GLOBAL"} \cup in.nodes \cup DOMAIN in.groups
    IN  /\ in.nodes \subseteq Tags
        /\ DOMAIN in.groups \subseteq Tags
        /\ \A t \in DOMAIN in.groups : in.groups[t].outbounds \subseteq known
        /\ \A p \in DOMAIN in.rules :
              /\ in.rules[p] \in Rule
              /\ in.rules[p].out \in known \cup {NoTag}
              /\ in.rules[p].raw \subseteq known \cup {NoTag}
              /\ \A c \in in.rules[p].rules : c.out \in known \cup {NoTag}

\* A cleaned reference is one of those that are available, BLOCK aside.
LEMMA NormalIsKnown ==
    ASSUME NEW nodes \in SUBSET Tags, NEW groups, DOMAIN groups \subseteq Tags,
           NEW r \in Available(nodes, groups)
    PROVE  Normal(r) \in {"DIRECT", "REJECT", "GLOBAL"} \cup nodes \cup DOMAIN groups
  BY TagsAreNotBuiltIn DEF Available, Normal, BuiltIns

\* Sanitizing leaves neither core a reference to nothing.
LEMMA SanitizeCloses ==
    ASSUME NEW nodes \in SUBSET Tags, NEW groups, DOMAIN groups \subseteq Tags,
           NEW rules, \A p \in DOMAIN rules : rules[p] \in Rule
    PROVE  /\ Closed(Sanitize(nodes, groups, rules))
           /\ Sanitize(nodes, groups, rules).nodes = nodes
           /\ DOMAIN Sanitize(nodes, groups, rules).groups = DOMAIN groups
<1> DEFINE in == Sanitize(nodes, groups, rules)
           available == Available(nodes, groups)
           known == {"DIRECT", "REJECT", "GLOBAL"} \cup nodes \cup DOMAIN groups
<1>1. /\ in.nodes = nodes
      /\ in.groups = CleanGroups(groups, available)
      /\ in.rules = CleanRules(rules, available)
  BY DEF Sanitize
<1>2. DOMAIN in.groups = DOMAIN groups
  BY <1>1 DEF CleanGroups
<1>3. \A refs : CleanRefs(refs, available) \subseteq known
  BY NormalIsKnown DEF CleanRefs
<1>4. ASSUME NEW t \in DOMAIN groups PROVE in.groups[t].outbounds \subseteq known
  <2>1. in.groups[t].outbounds \in {{"DIRECT"}, CleanRefs(groups[t].outbounds, available)}
    BY <1>1 DEF CleanGroups
  <2> QED
    BY <2>1, <1>3
<1>5. known \subseteq Refs
  BY DEF Refs, BuiltIns
<1>6. ASSUME NEW p \in DOMAIN in.rules
      PROVE  /\ in.rules[p] \in Rule
             /\ in.rules[p].out \in known \cup {NoTag}
             /\ in.rules[p].raw \subseteq known \cup {NoTag}
             /\ \A c \in in.rules[p].rules : c.out \in known \cup {NoTag}
  <2> DEFINE r == rules[p]
  <2>1. /\ p \in DOMAIN rules
        /\ Kept(r, available)
        /\ in.rules[p] = [CleanOut(r) EXCEPT !.raw = CleanRaw(r, available),
                                             !.rules = CleanChildren(r, available)]
    BY <1>1 DEF CleanRules
  <2>2. r \in Rule
    BY <2>1
  <2>3. Normal(NoTag) = NoTag
    BY NoTagIsNoTag DEF Normal, Refs, BuiltIns
  <2>4. Normal(r.out) \in known \cup {NoTag}
    BY <2>1, <2>3, NormalIsKnown DEF Kept
  <2>5. CleanRaw(r, available) \subseteq known \cup {NoTag}
    BY <2>3, NormalIsKnown DEF CleanRaw, CleanRefs
  <2>6. ASSUME NEW c \in CleanChildren(r, available)
        PROVE  c \in Child /\ c.out \in known \cup {NoTag}
    <3>1. PICK d \in r.rules : d.out \in available \cup {NoTag} /\ c = CleanOut(d)
      BY <2>6 DEF CleanChildren
    <3>2. d \in Child
      BY <2>2, <3>1 DEF Rule
    <3>3. Normal(d.out) \in known \cup {NoTag}
      BY <3>1, <2>3, NormalIsKnown
    <3>4. c = [d EXCEPT !.out = Normal(d.out)]
      BY <3>1 DEF CleanOut
    <3>5. c.out = Normal(d.out)
      BY <3>2, <3>4 DEF Child
    <3>6. c \in Child
      BY <3>2, <3>3, <3>4, <1>5 DEF Child
    <3> QED
      BY <3>3, <3>5, <3>6
  <2>7. CleanOut(r) = [r EXCEPT !.out = Normal(r.out)]
    BY DEF CleanOut
  <2>8. /\ in.rules[p].out = Normal(r.out)
        /\ in.rules[p].raw = CleanRaw(r, available)
        /\ in.rules[p].rules = CleanChildren(r, available)
    BY <2>1, <2>2, <2>7 DEF Rule
  <2>9. in.rules[p] \in Rule
    <3>1. /\ Normal(r.out) \in Refs \cup {NoTag}
          /\ CleanRaw(r, available) \in SUBSET (Refs \cup {NoTag})
          /\ CleanChildren(r, available) \in SUBSET Child
      BY <2>4, <2>5, <2>6, <1>5
    <3>2. [[r EXCEPT !.out = Normal(r.out)] EXCEPT
              !.raw = CleanRaw(r, available),
              !.rules = CleanChildren(r, available)] \in Rule
      <4> HIDE DEF in, available, known, r
      <4> QED
        BY <3>1, <2>2 DEF Rule
    <3>3. in.rules[p] = [[r EXCEPT !.out = Normal(r.out)] EXCEPT
                            !.raw = CleanRaw(r, available),
                            !.rules = CleanChildren(r, available)]
      BY <2>1, <2>7
    <3> QED
      BY <3>2, <3>3
  <2> QED
    BY <2>4, <2>5, <2>6, <2>8, <2>9
<1>7. Closed(in)
  <2> HIDE DEF in
  <2> QED
    BY <1>1, <1>2, <1>4, <1>6 DEF Closed
<1> QED
  BY <1>1, <1>2, <1>7

\* The selection takes tags of the store, whatever is selected.
LEMMA SelectionIsTyped ==
    ASSUME TypeOK
    PROVE  /\ DOMAIN SelectedGroups \subseteq Tags
           /\ \A p \in DOMAIN SelectedRules : SelectedRules[p] \in Rule
           /\ \A groups, rules : SelectedNodes(groups, rules) \subseteq Tags
<1>1. \A n \in Names : DOMAIN groupSets[n] \subseteq Tags
  BY DEF TypeOK, IsGroupSet
<1>2. ASSUME NEW names \in SUBSET Names PROVE DOMAIN UniqueGroups(names) \subseteq Tags
  <2>1. DOMAIN UniqueGroups(names) = UNION {DOMAIN groupSets[n] : n \in names}
    BY DEF UniqueGroups
  <2> QED
    BY <1>1, <2>1
<1>3. DOMAIN SelectedGroups \subseteq Tags
  <2>1. picked \in SUBSET Names
    BY DEF TypeOK
  <2>2. SelectedGroups \in {UniqueGroups(Names), UniqueGroups(picked)}
    BY DEF SelectedGroups
  <2> QED
    BY <1>2, <2>1, <2>2
<1>4. ASSUME NEW p \in DOMAIN SelectedRules PROVE SelectedRules[p] \in Rule
  <2>1. /\ p[1] \in picked
        /\ p[2] \in DOMAIN ruleSets[p[1]]
        /\ SelectedRules[p] = ruleSets[p[1]][p[2]]
    BY DEF SelectedRules
  <2>2. ruleSets[p[1]] \in Seq(Rule)
    BY <2>1 DEF TypeOK
  <2> QED
    BY <2>1, <2>2
<1>5. \A n \in Names : nodeSets[n] \subseteq Tags
  BY DEF TypeOK
<1>6. ASSUME NEW groups, NEW rules PROVE SelectedNodes(groups, rules) \subseteq Tags
  <2>1. AllNodes \subseteq Tags
    BY <1>5 DEF AllNodes
  <2>2. UNION {nodeSets[n] : n \in picked} \subseteq Tags
    BY <1>5 DEF TypeOK
  <2> QED
    BY <2>1, <2>2 DEF SelectedNodes
<1> QED
  BY <1>3, <1>4, <1>6

\* Both what is selected and what the renderers make of it are closed.
LEMMA InputIsClosed ==
    ASSUME TypeOK
    PROVE  /\ Closed(Selection)
           /\ Closed(Input)
           /\ Input.nodes = Selection.nodes
           /\ DOMAIN Input.groups = DOMAIN Selection.groups
<1>1. Closed(Selection)
  BY SelectionIsTyped, SanitizeCloses DEF Selection
<1>2. CASE Selection.nodes = {} /\ DOMAIN Selection.groups = {}
  BY <1>1, <1>2 DEF Input
<1>3. CASE ~(Selection.nodes = {} /\ DOMAIN Selection.groups = {})
  <2>1. Input = Sanitize(Selection.nodes, Selection.groups, Selection.rules)
    BY <1>3 DEF Input
  <2>2. /\ Selection.nodes \in SUBSET Tags
        /\ DOMAIN Selection.groups \subseteq Tags
        /\ \A p \in DOMAIN Selection.rules : Selection.rules[p] \in Rule
    BY <1>1 DEF Closed
  <2> QED
    BY <1>1, <2>1, <2>2, SanitizeCloses
<1> QED
  BY <1>2, <1>3

-----------------------------------------------------------------------------
(* Theorems about the documents *)

\* What a rule of sing-box is made of: the targets of the rule, some of its rules, and
\* those of its rule sets that may be named.
LEMMA RenderedIsPart ==
    ASSUME NEW rules, \A q \in DOMAIN rules : rules[q] \in Rule,
           NEW allowed, NEW p \in DOMAIN Rendered(rules, allowed)
    PROVE  LET shown == Rendered(rules, allowed)[p]
           IN  /\ p \in DOMAIN rules
               /\ Fits(rules[p], allowed)
               /\ rules[p].rules # {} => shown.rules # {}
               /\ shown.out = rules[p].out
               /\ shown.match = rules[p].match
               /\ shown.sets = rules[p].sets \cap allowed
               /\ \A c \in shown.rules : \E d \in rules[p].rules :
                      /\ Fits(d, allowed)
                      /\ c.out = d.out /\ c.match = d.match /\ c.sets = d.sets \cap allowed
<1> DEFINE shown == Rendered(rules, allowed)[p]
<1>1. /\ p \in DOMAIN rules
      /\ Fits(rules[p], allowed)
      /\ rules[p].rules # {} => RenderedChildren(rules[p], allowed) # {}
      /\ shown = [rules[p] EXCEPT !.sets = rules[p].sets \cap allowed,
                                  !.rules = RenderedChildren(rules[p], allowed)]
  BY DEF Rendered
<1>2. rules[p] \in Rule
  BY <1>1
<1>3. /\ shown.out = rules[p].out
      /\ shown.match = rules[p].match
      /\ shown.sets = rules[p].sets \cap allowed
      /\ shown.rules = RenderedChildren(rules[p], allowed)
  BY <1>1, <1>2 DEF Rule
<1>4. ASSUME NEW c \in RenderedChildren(rules[p], allowed)
      PROVE  \E d \in rules[p].rules :
                /\ Fits(d, allowed)
                /\ c.out = d.out /\ c.match = d.match /\ c.sets = d.sets \cap allowed
  <2>1. PICK d \in rules[p].rules :
            Fits(d, allowed) /\ c = [d EXCEPT !.sets = d.sets \cap allowed]
    BY DEF RenderedChildren
  <2>2. d \in Child
    BY <1>2 DEF Rule
  <2>3. c.out = d.out /\ c.match = d.match /\ c.sets = d.sets \cap allowed
    BY <2>1, <2>2 DEF Child
  <2> QED
    BY <2>1, <2>3
<1> QED
  BY <1>1, <1>3, <1>4

\* Neither core is ever given a reference its document does not define.
THEOREM ReferencesAreDefined == Spec => []ReferencesDefined
<1>1. TypeOK => ReferencesDefined
  <2> SUFFICES ASSUME TypeOK PROVE ReferencesDefined
    OBVIOUS
  <2> DEFINE in == Input
             known == {"DIRECT", "REJECT", "GLOBAL"} \cup in.nodes \cup DOMAIN in.groups
  <2>1. Closed(in)
    BY InputIsClosed
  <2> HIDE DEF in
  <2>2. /\ \A t \in DOMAIN in.groups : in.groups[t].outbounds \subseteq known
        /\ \A p \in DOMAIN in.rules :
              /\ in.rules[p] \in Rule
              /\ in.rules[p].out \in known \cup {NoTag}
              /\ in.rules[p].raw \subseteq known \cup {NoTag}
              /\ \A c \in in.rules[p].rules : c.out \in known \cup {NoTag}
    BY <2>1 DEF Closed
  <2>3. /\ Mihomo.outbounds = known
        /\ Mihomo.groups = in.groups
        /\ Mihomo.rules = [p \in DOMAIN in.rules |-> Lines(in.rules[p])]
    BY DEF Mihomo, in
  <2>4. ASSUME NEW p \in DOMAIN in.rules
        PROVE  Lines(in.rules[p]) \subseteq known \cup {NoTag}
    BY <2>2 DEF Lines
  <2>5. /\ SingBox.outbounds = {"DIRECT", "REJECT"} \cup in.nodes \cup DOMAIN in.groups
        /\ SingBox.groups = in.groups
        /\ SingBox.rules = Rendered(in.rules, Allowed(in.rules))
    BY DEF SingBox, in
  <2>6. SingBox.outbounds \cup {"GLOBAL"} = known
    BY <2>5
  <2>7. ASSUME NEW p \in DOMAIN SingBox.rules
        PROVE  {SingBox.rules[p].out} \cup {c.out : c \in SingBox.rules[p].rules}
                  \subseteq known \cup {NoTag}
    <3>1. /\ p \in DOMAIN in.rules
          /\ SingBox.rules[p].out = in.rules[p].out
          /\ \A c \in SingBox.rules[p].rules : \E d \in in.rules[p].rules : c.out = d.out
      BY <2>2, <2>5, RenderedIsPart
    <3> QED
      BY <2>2, <3>1
  <2> HIDE DEF known
  <2> QED
    BY <2>2, <2>3, <2>4, <2>5, <2>6, <2>7 DEF ReferencesDefined
<1> QED
  BY <1>1, TypeCorrect, PTL

\* What rule sets are downloaded through is taken from what both documents are made of.
LEMMA DetourFollows == TypeOK => DetourDefined
<1>1. TypeOK => DetourDefined
  <2> SUFFICES ASSUME TypeOK PROVE DetourDefined
    OBVIOUS
  <2> DEFINE in == Selection
             proxies == in.nodes \cup DOMAIN in.groups
  <2>1. Closed(in) /\ Input.nodes = in.nodes /\ DOMAIN Input.groups = DOMAIN in.groups
    BY InputIsClosed
  <2> HIDE DEF in
  <2>2. proxies \subseteq Tags
    BY <2>1 DEF Closed
  <2>3. "DIRECT" \notin proxies /\ "REJECT" \notin proxies
    BY <2>2, TagsAreNotBuiltIn DEF BuiltIns
  <2>4. SingBox.outbounds = {"DIRECT", "REJECT"} \cup proxies /\ SingBox.detours = Detours(in)
    BY <2>1 DEF SingBox, in
  <2>5. Detours(in) \subseteq proxies /\ (Detours(in) = {} => proxies = {})
    BY DEF Detours
  <2> HIDE DEF proxies
  <2> QED
    BY <2>3, <2>4, <2>5 DEF DetourDefined
<1> QED
  BY <1>1

\* Rule sets are always downloaded through a proxy of the document, if it has one.
THEOREM DetourIsDefined == Spec => []DetourDefined
BY DetourFollows, TypeCorrect, PTL

\* Only a lost repository makes a rule of sing-box name an undefined rule set.
THEOREM OnlyRepositoriesAreLost == Spec => []OnlyLostRepositories
<1>1. TypeOK => OnlyLostRepositories
  <2> SUFFICES ASSUME TypeOK,
                      NEW p \in DOMAIN SingBox.rules,
                      NEW t \in RuleSetsOf(SingBox.rules[p]), t \notin SingBox.ruleSets
               PROVE  sources[t] \in Repositories /\ mappings[sources[t]] # "mapped"
    BY DEF OnlyLostRepositories
  <2> DEFINE in == Input
  <2>1. \A q \in DOMAIN in.rules : in.rules[q] \in Rule
    BY InputIsClosed DEF Closed
  <2> HIDE DEF in
  <2>2. /\ SingBox.rules = Rendered(in.rules, Allowed(in.rules))
        /\ SingBox.ruleSets = RenderedRuleSets(in.rules)
    BY DEF SingBox, in
  <2>3. t \in Allowed(in.rules)
    <3>1. /\ SingBox.rules[p].sets \subseteq Allowed(in.rules)
          /\ \A c \in SingBox.rules[p].rules : c.sets \subseteq Allowed(in.rules)
      BY <2>1, <2>2, RenderedIsPart
    <3> QED
      BY <3>1 DEF RuleSetsOf
  <2>4. t \in RuleSetTags /\ sources[t] # "none"
    BY <2>2, <2>3 DEF Allowed, RenderedRuleSets
  <2>5. sources[t] \in Sources /\ sources[t] # "remote"
    BY <2>2, <2>4 DEF TypeOK, RenderedRuleSets
  <2> QED
    BY <2>2, <2>4, <2>5 DEF RenderedRuleSets, Sources
<1> QED
  BY <1>1, TypeCorrect, PTL

\* A sanitized rule still matches what it matched, as do the rules in it.
LEMMA SanitizeKeepsMatchers ==
    ASSUME NEW nodes, NEW groups, NEW rules, \A q \in DOMAIN rules : rules[q] \in Rule,
           NEW p \in DOMAIN Sanitize(nodes, groups, rules).rules
    PROVE  LET after == Sanitize(nodes, groups, rules).rules[p]
           IN  /\ p \in DOMAIN rules
               /\ after.sets = rules[p].sets /\ after.match = rules[p].match
               /\ after.rules = {} => rules[p].rules = {}
               /\ \A c \in after.rules : \E d \in rules[p].rules :
                      c.sets = d.sets /\ c.match = d.match
<1> DEFINE available == Available(nodes, groups)
           after == Sanitize(nodes, groups, rules).rules[p]
           r == rules[p]
<1>1. Sanitize(nodes, groups, rules).rules = CleanRules(rules, available)
  BY DEF Sanitize
<1>2. /\ p \in DOMAIN rules
      /\ Kept(r, available)
      /\ after = [CleanOut(r) EXCEPT !.raw = CleanRaw(r, available),
                                     !.rules = CleanChildren(r, available)]
  BY <1>1 DEF CleanRules
<1>3. r \in Rule /\ CleanOut(r) = [r EXCEPT !.out = Normal(r.out)]
  BY <1>2 DEF CleanOut
<1>4. /\ after.sets = r.sets /\ after.match = r.match
      /\ after.rules = CleanChildren(r, available)
  BY <1>2, <1>3 DEF Rule
<1>5. ASSUME NEW c \in CleanChildren(r, available)
      PROVE  \E d \in r.rules : c.sets = d.sets /\ c.match = d.match
  <2>1. PICK d \in r.rules : c = [d EXCEPT !.out = Normal(d.out)]
    BY DEF CleanChildren, CleanOut
  <2>2. d \in Child
    BY <1>3 DEF Rule
  <2>3. c.sets = d.sets /\ c.match = d.match
    BY <2>1, <2>2 DEF Child
  <2> QED
    BY <2>3
<1>6. CleanChildren(r, available) = {} => r.rules = {}
  BY <1>2 DEF Kept
<1> QED
  BY <1>2, <1>4, <1>5, <1>6

\* The same of both passes: what the renderers see against what was selected.
LEMMA InputKeepsMatchers ==
    ASSUME TypeOK, NEW p \in DOMAIN Input.rules
    PROVE  LET after == Input.rules[p]
               before == SelectedRules[p]
           IN  /\ p \in DOMAIN SelectedRules
               /\ after.sets = before.sets /\ after.match = before.match
               /\ after.rules = {} => before.rules = {}
               /\ \A c \in after.rules : \E d \in before.rules :
                      c.sets = d.sets /\ c.match = d.match
<1> DEFINE Follows(after, before) ==
              /\ after.sets = before.sets /\ after.match = before.match
              /\ after.rules = {} => before.rules = {}
              /\ \A c \in after.rules : \E d \in before.rules :
                     c.sets = d.sets /\ c.match = d.match
<1>1. ASSUME NEW q \in DOMAIN Selection.rules
      PROVE  q \in DOMAIN SelectedRules /\ Follows(Selection.rules[q], SelectedRules[q])
  <2> DEFINE nodes == SelectedNodes(SelectedGroups, SelectedRules)
  <2>1. Selection = Sanitize(nodes, SelectedGroups, SelectedRules)
    BY DEF Selection
  <2>2. \A r \in DOMAIN SelectedRules : SelectedRules[r] \in Rule
    BY SelectionIsTyped
  <2> HIDE DEF nodes
  <2> QED
    BY <2>1, <2>2, SanitizeKeepsMatchers
<1>2. CASE Input = Selection
  BY <1>1, <1>2
<1>3. CASE Input = Sanitize(Selection.nodes, Selection.groups, Selection.rules)
  <2>1. \A q \in DOMAIN Selection.rules : Selection.rules[q] \in Rule
    BY InputIsClosed DEF Closed
  <2>2. p \in DOMAIN Selection.rules /\ Follows(Input.rules[p], Selection.rules[p])
    BY <1>3, <2>1, SanitizeKeepsMatchers
  <2>3. p \in DOMAIN SelectedRules /\ Follows(Selection.rules[p], SelectedRules[p])
    BY <1>1, <2>2
  <2>4. Follows(Input.rules[p], SelectedRules[p])
    BY <2>2, <2>3
  <2> QED
    BY <2>3, <2>4
<1> QED
  BY <1>2, <1>3 DEF Input

\* No rule of sing-box comes to match everything because something was dropped from it.
THEOREM CatchAllsAreMeant == Spec => []NoCatchAllByAccident
<1>1. TypeOK => NoCatchAllByAccident
  <2> SUFFICES ASSUME TypeOK, NEW p \in DOMAIN SingBox.rules
               PROVE  LET shown == SingBox.rules[p]
                          r == SelectedRules[p]
                      IN  /\ Matchless(shown) /\ shown.rules = {} => Matchless(r) /\ r.rules = {}
                          /\ (\E c \in shown.rules : Matchless(c)) => \E c \in r.rules : Matchless(c)
    BY DEF NoCatchAllByAccident
  <2> DEFINE shown == SingBox.rules[p]
             kept == Input.rules[p]
             r == SelectedRules[p]
             allowed == Allowed(Input.rules)
  <2>1. \A q \in DOMAIN Input.rules : Input.rules[q] \in Rule
    BY InputIsClosed DEF Closed
  <2>2. SingBox.rules = Rendered(Input.rules, allowed)
    BY DEF SingBox
  <2>3. /\ p \in DOMAIN Input.rules
        /\ Fits(kept, allowed)
        /\ kept.rules # {} => shown.rules # {}
        /\ shown.match = kept.match /\ shown.sets = kept.sets \cap allowed
        /\ \A c \in shown.rules : \E d \in kept.rules :
               Fits(d, allowed) /\ c.match = d.match /\ c.sets = d.sets \cap allowed
    BY <2>1, <2>2, RenderedIsPart
  <2>4. /\ kept.sets = r.sets /\ kept.match = r.match
        /\ kept.rules = {} => r.rules = {}
        /\ \A c \in kept.rules : \E d \in r.rules : c.sets = d.sets /\ c.match = d.match
    BY <2>3, InputKeepsMatchers
  <2> HIDE DEF shown, kept, r, allowed
  <2>5. Matchless(shown) /\ shown.rules = {} => Matchless(r) /\ r.rules = {}
    BY <2>3, <2>4 DEF Matchless, Fits
  <2>6. ASSUME NEW c \in shown.rules, Matchless(c) PROVE \E d \in r.rules : Matchless(d)
    <3>1. PICK d \in kept.rules :
              Fits(d, allowed) /\ c.match = d.match /\ c.sets = d.sets \cap allowed
      BY <2>3
    <3>2. Matchless(d)
      BY <2>6, <3>1 DEF Matchless, Fits
    <3> QED
      BY <2>4, <3>2 DEF Matchless
  <2> QED
    BY <2>5, <2>6 DEF shown, r
<1> QED
  BY <1>1, TypeCorrect, PTL

-----------------------------------------------------------------------------
(* Nothing a selection needs is lost *)

\* Normalizing twice is normalizing once, and loses no availability.
LEMMA NormalTwice ==
    /\ \A x : Normal(Normal(x)) = Normal(x)
    /\ Normal(NoTag) = NoTag
    /\ \A nodes, groups, x : x \in Available(nodes, groups) => Normal(x) \in Available(nodes, groups)
  BY NoTagIsNoTag DEF Normal, Available, BuiltIns, Refs

\* A rule none of whose targets is missing survives one pass whole.
LEMMA SanitizeKeepsRule ==
    ASSUME NEW nodes, NEW groups, NEW rules, NEW p \in DOMAIN rules, rules[p] \in Rule,
           Targets(rules[p]) \subseteq Available(nodes, groups) \cup {NoTag}
    PROVE  LET after == Sanitize(nodes, groups, rules).rules
           IN  /\ p \in DOMAIN after
               /\ after[p].out = Normal(rules[p].out)
               /\ after[p].raw = {Normal(l) : l \in rules[p].raw}
               /\ after[p].rules = {CleanOut(c) : c \in rules[p].rules}
<1> DEFINE available == Available(nodes, groups)
           after == Sanitize(nodes, groups, rules).rules
           r == rules[p]
<1>1. after = CleanRules(rules, available)
  BY DEF Sanitize
<1>2. /\ r.out \in available \cup {NoTag}
      /\ r.raw \subseteq available \cup {NoTag}
      /\ \A c \in r.rules : c.out \in available \cup {NoTag}
  BY DEF Targets
<1>3. CleanRaw(r, available) = {Normal(l) : l \in r.raw}
  <2>1. r.raw \cap (available \cup {NoTag}) = r.raw
    BY <1>2
  <2> QED
    BY <2>1 DEF CleanRaw, CleanRefs
<1>4. CleanChildren(r, available) = {CleanOut(c) : c \in r.rules}
  <2>1. {d \in r.rules : d.out \in available \cup {NoTag}} = r.rules
    BY <1>2
  <2> QED
    BY <2>1 DEF CleanChildren
<1>5. Kept(r, available)
  <2> HIDE DEF available, r
  <2> QED
    BY <1>2, <1>3, <1>4 DEF Kept
<1>6. p \in DOMAIN after
  BY <1>1, <1>5 DEF CleanRules
<1>7. after[p] = [CleanOut(r) EXCEPT !.raw = CleanRaw(r, available),
                                    !.rules = CleanChildren(r, available)]
  BY <1>1, <1>6 DEF CleanRules
<1>8. CleanOut(r) = [r EXCEPT !.out = Normal(r.out)]
  BY DEF CleanOut
<1>9. /\ after[p].out = Normal(r.out)
      /\ after[p].raw = CleanRaw(r, available)
      /\ after[p].rules = CleanChildren(r, available)
  BY <1>7, <1>8 DEF Rule
<1> QED
  BY <1>3, <1>4, <1>6, <1>9

\* The members of a group that are not missing survive one pass.
LEMMA SanitizeKeepsMembers ==
    ASSUME NEW nodes, NEW groups, NEW rules, NEW t \in DOMAIN groups,
           NEW m \in groups[t].outbounds, m \in Available(nodes, groups)
    PROVE  Normal(m) \in Sanitize(nodes, groups, rules).groups[t].outbounds
<1> DEFINE outs == CleanRefs(groups[t].outbounds, Available(nodes, groups))
<1>1. Normal(m) \in outs
  BY DEF CleanRefs
<1>2. Sanitize(nodes, groups, rules).groups[t].outbounds = IF outs = {} THEN {"DIRECT"} ELSE outs
  BY DEF Sanitize, CleanGroups
<1> QED
  BY <1>1, <1>2

\* A target that is not built in counts as referred to.
LEMMA TargetsAreReferences ==
    ASSUME NEW groups, NEW rules, NEW p \in DOMAIN rules, NEW x \in Targets(rules[p]),
           x \notin BuiltIns
    PROVE  x \in References(groups, rules)
<1>1. x \in UNION {Targets(rules[q]) : q \in DOMAIN rules}
  OBVIOUS
<1> QED
  BY <1>1 DEF References

\* So does a member of a group.
LEMMA MembersAreReferences ==
    ASSUME NEW groups, NEW rules, NEW t \in DOMAIN groups, NEW x \in groups[t].outbounds,
           x \notin BuiltIns
    PROVE  x \in References(groups, rules)
<1>1. x \in UNION {groups[s].outbounds : s \in DOMAIN groups}
  OBVIOUS
<1> QED
  BY <1>1 DEF References

\* Cleaning a rule of a rule twice is cleaning it once.
LEMMA CleanOutTwice ==
    ASSUME NEW c \in Child
    PROVE  CleanOut(c).out = Normal(c.out) /\ CleanOut(CleanOut(c)) = CleanOut(c)
<1>1. CleanOut(c) = [c EXCEPT !.out = Normal(c.out)]
  BY DEF CleanOut
<1>2. CleanOut(c).out = Normal(c.out)
  BY <1>1 DEF Child
<1>3. CleanOut(CleanOut(c)) = [CleanOut(c) EXCEPT !.out = Normal(CleanOut(c).out)]
  BY DEF CleanOut
<1>4. Normal(CleanOut(c).out) = Normal(c.out)
  BY <1>2, NormalTwice
<1>5. CleanOut(CleanOut(c)) = [[c EXCEPT !.out = Normal(c.out)] EXCEPT !.out = Normal(c.out)]
  BY <1>1, <1>3, <1>4
<1> QED
  BY <1>1, <1>2, <1>5 DEF Child

\* Selecting rule sets and sanitizing twice lose no rule and no member whose targets
\* the store has.
THEOREM KnownTargetsAreKept == Spec => []KnownTargetsKept
<1>1. TypeOK => KnownTargetsKept
  <2> SUFFICES ASSUME TypeOK PROVE KnownTargetsKept
    OBVIOUS
  <2> DEFINE groups == SelectedGroups
             rules == SelectedRules
             nodes == SelectedNodes(groups, rules)
             known == BuiltIns \cup AllNodes \cup DOMAIN groups
             available == Available(nodes, groups)
             sel == Selection
             Whole(after, r) == /\ after.raw = {Normal(l) : l \in r.raw}
                                /\ after.rules = {CleanOut(c) : c \in r.rules}
  <2>1. /\ sel = Sanitize(nodes, groups, rules)
        /\ nodes \in SUBSET Tags
        /\ DOMAIN groups \subseteq Tags
        /\ \A p \in DOMAIN rules : rules[p] \in Rule
    BY SelectionIsTyped DEF Selection
  <2>2. /\ sel.nodes = nodes /\ DOMAIN sel.groups = DOMAIN groups
        /\ \A p \in DOMAIN sel.rules : sel.rules[p] \in Rule
    BY <2>1, SanitizeCloses, InputIsClosed DEF Closed
  <2>3. Available(sel.nodes, sel.groups) = available
    BY <2>2 DEF Available
  <2>4. Input = sel \/ Input = Sanitize(sel.nodes, sel.groups, sel.rules)
    BY DEF Input
  <2>5. ASSUME NEW x \in known, x \in BuiltIns \/ x \in References(groups, rules)
        PROVE  x \in available
    <3>1. CASE x \in BuiltIns \cup DOMAIN groups
      BY <3>1 DEF Available
    <3>2. CASE x \in AllNodes /\ x \in References(groups, rules)
      <4>1. x \in nodes
        BY <3>2 DEF SelectedNodes
      <4> QED
        BY <4>1 DEF Available
    <3> QED
      BY <2>5, <3>1, <3>2
  <2> HIDE DEF nodes, sel, known, available
  <2>6. ASSUME NEW p \in DOMAIN rules, Targets(rules[p]) \subseteq known \cup {NoTag}
        PROVE  p \in DOMAIN Input.rules /\ Whole(Input.rules[p], rules[p])
    <3>1. Targets(rules[p]) \subseteq available \cup {NoTag}
      <4> SUFFICES ASSUME NEW x \in Targets(rules[p]), x # NoTag PROVE x \in available
        OBVIOUS
      <4>1. x \in known
        BY <2>6
      <4>2. x \in BuiltIns \/ x \in References(groups, rules)
        BY TargetsAreReferences
      <4> QED
        BY <4>1, <4>2, <2>5
    <3>2. /\ p \in DOMAIN sel.rules
          /\ sel.rules[p].out = Normal(rules[p].out)
          /\ Whole(sel.rules[p], rules[p])
      BY <2>1, <3>1, SanitizeKeepsRule DEF available
    <3>3. CASE Input = sel
      BY <3>2, <3>3
    <3>4. CASE Input = Sanitize(sel.nodes, sel.groups, sel.rules)
      <4>1. rules[p].rules \subseteq Child
        BY <2>1 DEF Rule
      <4>2. \A y \in available \cup {NoTag} : Normal(y) \in available \cup {NoTag}
        BY NormalTwice DEF available
      <4>3. Targets(sel.rules[p]) \subseteq available \cup {NoTag}
        <5>1. /\ rules[p].out \in available \cup {NoTag}
              /\ rules[p].raw \subseteq available \cup {NoTag}
              /\ \A c \in rules[p].rules : c.out \in available \cup {NoTag}
          BY <3>1 DEF Targets
        <5>2. /\ sel.rules[p].out \in available \cup {NoTag}
              /\ sel.rules[p].raw \subseteq available \cup {NoTag}
          BY <3>2, <4>2, <5>1
        <5>3. \A c \in sel.rules[p].rules : c.out \in available \cup {NoTag}
          BY <3>2, <4>1, <4>2, <5>1, CleanOutTwice
        <5> QED
          BY <5>2, <5>3 DEF Targets
      <4>4. p \in DOMAIN Input.rules /\ Whole(Input.rules[p], sel.rules[p])
        BY <2>2, <2>3, <3>2, <3>4, <4>3, SanitizeKeepsRule
      <4>5. {Normal(l) : l \in sel.rules[p].raw} = {Normal(l) : l \in rules[p].raw}
        BY <3>2, NormalTwice
      <4>6. {CleanOut(c) : c \in sel.rules[p].rules} = {CleanOut(c) : c \in rules[p].rules}
        BY <3>2, <4>1, CleanOutTwice
      <4> QED
        BY <4>4, <4>5, <4>6
    <3> QED
      BY <2>4, <3>3, <3>4
  <2>7. ASSUME NEW t \in DOMAIN groups, NEW m \in groups[t].outbounds \cap known
        PROVE  Normal(m) \in Input.groups[t].outbounds
    <3>1. m \in available
      <4>1. m \in BuiltIns \/ m \in References(groups, rules)
        BY MembersAreReferences
      <4> QED
        BY <4>1, <2>5
    <3>2. Normal(m) \in sel.groups[t].outbounds
      BY <2>1, <3>1, SanitizeKeepsMembers DEF available
    <3>3. CASE Input = sel
      BY <3>2, <3>3
    <3>4. CASE Input = Sanitize(sel.nodes, sel.groups, sel.rules)
      <4>1. Normal(m) \in Available(sel.nodes, sel.groups)
        BY <2>3, <3>1, NormalTwice DEF available
      <4>2. Normal(Normal(m)) \in Input.groups[t].outbounds
        BY <2>2, <3>2, <3>4, <4>1, SanitizeKeepsMembers
      <4> QED
        BY <4>2, NormalTwice
    <3> QED
      BY <2>4, <3>3, <3>4
  <2> QED
    BY <2>6, <2>7 DEF KnownTargetsKept, Targets, known
<1> QED
  BY <1>1, TypeCorrect, PTL

-----------------------------------------------------------------------------
(* The configuration *)

\* A set of numbers that is not empty has a least one.
LEMMA Least ==
  ASSUME NEW T, T \subseteq Nat, T # {}
  PROVE  \E x \in T : \A y \in T : x <= y
<1> DEFINE R == OpToRel(<, Nat)
<1>1. IsWellFoundedOn(R, Nat)
  BY NatLessThanWellFounded
<1>2. \A x, y \in Nat : x < y => <<x, y>> \in R
  BY DEF OpToRel
<1> HIDE DEF R
<1>3. PICK x \in T : \A y \in T : ~(<<y, x>> \in R)
  BY <1>1, WFMin
<1>4. \A y \in T : ~(y < x)
  BY <1>2, <1>3
<1> QED
  BY <1>4

\* Positions of servers that are finitely many have a last one.
LEMMA Greatest ==
  ASSUME NEW S, IsFiniteSet(S), S \subseteq Nat, S # {}
  PROVE  Max(S) \in S /\ \A x \in S : x <= Max(S)
<1> DEFINE HasLast(A) == \E x \in A : \A y \in A : x >= y
           Bad == {k \in Nat : \E A \in SUBSET S : A # {} /\ Cardinality(A) = k /\ ~HasLast(A)}
<1>1. Bad = {}
  <2> SUFFICES ASSUME Bad # {} PROVE FALSE
    OBVIOUS
  <2>1. PICK k \in Bad : \A l \in Bad : k <= l
    <3>1. Bad \subseteq Nat
      OBVIOUS
    <3> HIDE DEF Bad
    <3> QED
      BY <3>1, Least
  <2>2. PICK A \in SUBSET S : A # {} /\ Cardinality(A) = k /\ ~HasLast(A)
    OBVIOUS
  <2>3. PICK x \in A : TRUE
    BY <2>2
  <2> DEFINE B == A \ {x}
  <2>4. IsFiniteSet(A) /\ IsFiniteSet(B) /\ B \in SUBSET S
    BY FS_Subset
  <2>5. k \in Nat /\ k >= 1 /\ Cardinality(B) = k - 1
    BY <2>2, <2>3, <2>4, FS_RemoveElement, FS_EmptySet, FS_CardinalityType
  <2>6. HasLast(B) \/ B = {}
    <3>1. k - 1 \notin Bad /\ k - 1 \in Nat
      BY <2>1, <2>5
    <3> HIDE DEF HasLast, B
    <3> QED
      BY <2>4, <2>5, <3>1
  <2>7. HasLast(A)
    <3>1. CASE B = {}
      BY <2>3, <3>1
    <3>2. CASE HasLast(B)
      <4>1. PICK m \in B : \A y \in B : m >= y
        BY <3>2
      <4>2. CASE m >= x
        BY <4>1, <4>2
      <4>3. CASE ~(m >= x)
        BY <4>1, <4>3, <2>3
      <4> QED
        BY <4>2, <4>3
    <3> QED
      BY <2>6, <3>1, <3>2
  <2> QED
    BY <2>2, <2>7
<1>2. HasLast(S)
  <2>1. Cardinality(S) \in Nat /\ S \in SUBSET S
    BY FS_CardinalityType
  <2> HIDE DEF HasLast
  <2> QED
    BY <1>1, <2>1
<1>3. Max(S) \in S /\ \A y \in S : Max(S) >= y
  BY <1>2 DEF Max
<1> QED
  BY <1>3

\* Numbers that are not none have a first one.
LEMMA First ==
  ASSUME NEW S, S \subseteq Nat, S # {}
  PROVE  Min(S) \in S /\ \A x \in S : Min(S) <= x
<1>1. \E x \in S : \A y \in S : x <= y
  BY Least
<1> QED
  BY <1>1 DEF Min

\* The default servers are at finitely many positions.
LEMMA DefaultsAreServers ==
  /\ DOMAIN ProxyDefaults \subseteq Nat \ {0} /\ IsFiniteSet(DOMAIN ProxyDefaults)
  /\ DOMAIN AllDefaults \subseteq Nat \ {0} /\ IsFiniteSet(DOMAIN AllDefaults)
<1> DEFINE Endpoints == Range(DefaultNamed("default", DefaultServers))
                    \cup Range(DefaultNamed("proxy", DefaultProxies))
<1>1. DefaultServers \in Seq(Range(DefaultServers)) /\ DefaultProxies \in Seq(Range(DefaultProxies))
  BY DefaultsAreAConfig DEF IsList
<1>2. /\ DefaultNamed("default", DefaultServers) \in Seq(Endpoints)
      /\ DefaultNamed("proxy", DefaultProxies) \in Seq(Endpoints)
  <2>1. ASSUME NEW role, NEW s, s \in Seq(Range(s)) PROVE DefaultNamed(role, s) \in Seq(Range(DefaultNamed(role, s)))
    <3> DEFINE t == DefaultNamed(role, s)
    <3>1. DOMAIN s = 1..Len(s) /\ Len(s) \in Nat
      OBVIOUS
    <3>2. t = [i \in 1..Len(s) |-> t[i]]
      BY <3>1 DEF DefaultNamed
    <3>3. \A i \in 1..Len(s) : t[i] \in Range(t)
      BY <3>2 DEF Range
    <3>4. t \in Seq(Range(t))
      <4> HIDE DEF t
      <4> QED
        BY <3>1, <3>2, <3>3
    <3> QED
      BY <3>4
  <2> QED
    BY <1>1, <2>1
<1>3. ProxyDefaults \in Seq(Endpoints) /\ AllDefaults \in Seq(Endpoints)
  <2> HIDE DEF Endpoints
  <2> QED
    BY <1>2 DEF ProxyDefaults, AllDefaults
<1>4. ASSUME NEW s \in Seq(Endpoints) PROVE DOMAIN s \subseteq Nat \ {0} /\ IsFiniteSet(DOMAIN s)
  <2> HIDE DEF Endpoints
  <2>1. Len(s) \in Nat /\ DOMAIN s = 1..Len(s)
    OBVIOUS
  <2>2. IsFiniteSet(1..Len(s))
    BY <2>1, FS_Interval
  <2> QED
    BY <2>1, <2>2
<1> QED
  BY <1>3, <1>4

\* Replacing the proxy servers leaves finitely many positions.
LEMMA ReplacedAreServers ==
  ASSUME NEW servers, IsFiniteSet(DOMAIN servers), DOMAIN servers \subseteq Nat \ {0},
         DOMAIN servers # {}
  PROVE  /\ IsFiniteSet(DOMAIN Replaced(servers))
         /\ DOMAIN Replaced(servers) \subseteq Nat \ {0}
<1> DEFINE kept == DOMAIN servers \ OfRole(servers, "proxy")
           last == Max(DOMAIN servers)
           new == {last + k : k \in DOMAIN ProxyDefaults}
<1>1. last \in Nat \ {0}
  BY Greatest
<1>2. IsFiniteSet(new) /\ new \subseteq Nat \ {0}
  <2>1. new \subseteq Nat \ {0}
    BY <1>1, DefaultsAreServers
  <2>2. IsFiniteSet(new)
    <3> DEFINE at == [k \in DOMAIN ProxyDefaults |-> last + k]
    <3>1. at \in [DOMAIN ProxyDefaults -> new] /\ \A n \in new : \E k \in DOMAIN ProxyDefaults : at[k] = n
      OBVIOUS
    <3>2. at \in Surjection(DOMAIN ProxyDefaults, new)
      <4> HIDE DEF at, new
      <4> QED
        BY <3>1 DEF Surjection
    <3> HIDE DEF at, new, last
    <3> QED
      BY <3>2, DefaultsAreServers, FS_Surjection
  <2> QED
    BY <2>1, <2>2
<1>3. IsFiniteSet(kept \cup new)
  BY <1>2, FS_Subset, FS_Union
<1>4. DOMAIN Replaced(servers) = kept \cup new
  BY DEF Replaced
<1> QED
  BY <1>2, <1>3, <1>4

\* Reading fills in every field and keeps a configuration one.
LEMMA BackfilledIsConfig ==
  ASSUME NEW c, IsConfig(c)
  PROVE  IsConfig(Backfilled(c)) /\ DOMAIN Backfilled(c).fields = FieldNames
<1> DEFINE b == Backfilled(c)
           fields == Filled(c.fields)
<1>1. /\ b = [fields |-> b.fields, servers |-> b.servers, rules |-> b.rules, inbounds |-> b.inbounds]
      /\ b.fields = fields /\ b.rules = c.rules
      /\ b.inbounds \in {c.inbounds, DefaultInbounds}
  BY DEF Backfilled
<1>2. /\ DOMAIN fields = FieldNames
      /\ \A n \in FieldNames : fields[n] = IF n \in DOMAIN c.fields THEN c.fields[n]
                                                                   ELSE DefaultFields[n]
  BY DEF Filled
<1>3. /\ DOMAIN DefaultFields = FieldNames
      /\ DefaultFields["dnsFakeIpEnabled"] \in BOOLEAN
      /\ IsList(DefaultFields["dnsFakeIpFilters"])
      /\ IsList(DefaultInbounds)
  BY DefaultsAreAConfig DEF IsConfig, FieldNames
<1>4. /\ fields["dnsFakeIpEnabled"] \in BOOLEAN
      /\ IsList(fields["dnsFakeIpFilters"])
  BY <1>2, <1>3 DEF IsConfig, FieldNames
<1>5. IsFiniteSet(DOMAIN b.servers) /\ DOMAIN b.servers \subseteq Nat \ {0}
  <2>1. b.servers = IF DOMAIN c.servers = {} THEN AllDefaults
                    ELSE IF Legacy(c.servers) THEN Replaced(c.servers) ELSE c.servers
    BY DEF Backfilled
  <2>2. CASE DOMAIN c.servers = {}
    BY <2>1, <2>2, DefaultsAreServers
  <2>3. CASE DOMAIN c.servers # {} /\ Legacy(c.servers)
    BY <2>1, <2>3, ReplacedAreServers DEF IsConfig
  <2>4. CASE DOMAIN c.servers # {} /\ ~Legacy(c.servers)
    BY <2>1, <2>4 DEF IsConfig
  <2> QED
    BY <2>2, <2>3, <2>4
<1>6. IsList(b.rules) /\ IsList(b.inbounds)
  BY <1>1, <1>3 DEF IsConfig
<1> HIDE DEF b
<1>7. IsConfig(b)
  BY <1>1, <1>2, <1>4, <1>5, <1>6 DEF IsConfig
<1> QED
  BY <1>1, <1>2, <1>7 DEF b

\* A list of inbounds stays one when their kinds are filled in.
LEMMA WithKindsIsList == ASSUME NEW s, IsList(s) PROVE IsList(WithKinds(s))
<1> DEFINE t == WithKinds(s)
<1>1. PICK n \in Nat : DOMAIN s = 1..n
  BY DEF IsList
<1>2. t = [i \in 1..n |-> t[i]]
  BY <1>1 DEF WithKinds
<1> HIDE DEF t
<1>3. \A i \in 1..n : t[i] \in Range(t)
  BY <1>2 DEF Range
<1>4. t \in Seq(Range(t))
  BY <1>2, <1>3
<1> QED
  BY <1>4 DEF IsList, t

\* Saving a configuration gives roles and inbounds their names and nothing else.
LEMMA NormalizedIsConfig == ASSUME NEW c, IsConfig(c) PROVE IsConfig(Normalized(c))
<1> DEFINE b == Normalized(c)
<1>1. /\ b = [fields |-> b.fields, servers |-> b.servers, rules |-> b.rules, inbounds |-> b.inbounds]
      /\ b.fields = c.fields /\ b.rules = c.rules /\ b.inbounds = WithKinds(c.inbounds)
      /\ DOMAIN b.servers = DOMAIN c.servers
  <2> DEFINE named(s) == [s EXCEPT !.role = IF s.role = "" THEN "default" ELSE s.role]
             all == [i \in DOMAIN c.servers |-> named(c.servers[i])]
  <2>1. b = [c EXCEPT !.servers = all, !.inbounds = WithKinds(c.inbounds)]
    BY DEF Normalized
  <2>2. DOMAIN all = DOMAIN c.servers
    OBVIOUS
  <2>3. c = [fields |-> c.fields, servers |-> c.servers, rules |-> c.rules, inbounds |-> c.inbounds]
    BY DEF IsConfig
  <2> HIDE DEF all, b
  <2>4. b = [fields |-> c.fields, servers |-> all, rules |-> c.rules,
             inbounds |-> WithKinds(c.inbounds)]
    BY <2>1, <2>3
  <2> QED
    BY <2>2, <2>4
<1> HIDE DEF b
<1>2. IsConfig(b)
  BY <1>1, WithKindsIsList DEF IsConfig
<1> QED
  BY <1>2 DEF b

\* The stored configuration is one, whatever is saved and read.
LEMMA ConfigCorrect == ConfigSpec => [](TypeOK /\ IsConfig(config))
<1>1. ConfigInit => IsConfig(config)
  <2> SUFFICES ASSUME ConfigInit PROVE IsConfig(config)
    OBVIOUS
  <2>1. config = [fields |-> [n \in {} |-> ""], servers |-> <<>>, rules |-> <<>>, inbounds |-> <<>>]
    BY DEF ConfigInit, Nothing
  <2>2. IsFiniteSet(DOMAIN config.servers) /\ DOMAIN config.servers \subseteq Nat \ {0}
    BY <2>1, FS_EmptySet
  <2>3. DOMAIN config.fields = {} /\ IsList(config.rules) /\ IsList(config.inbounds)
    BY <2>1 DEF IsList
  <2> QED
    BY <2>1, <2>2, <2>3 DEF IsConfig
<1>2. IsConfig(config) /\ [ConfigNext]_configVars => IsConfig(config)'
  <2> SUFFICES ASSUME IsConfig(config), [ConfigNext]_configVars PROVE IsConfig(config')
    OBVIOUS
  <2>1. CASE UNCHANGED config
    BY <2>1
  <2>2. IsConfig(Current)
    BY BackfilledIsConfig DEF Current
  <2>3. CASE ReadConfig
    BY <2>2, <2>3 DEF ReadConfig
  <2>4. CASE UpdateGlobalConfig
    BY <2>4, ChoicesAreConfigs, NormalizedIsConfig DEF UpdateGlobalConfig
  <2>5. CASE UpdateGlobalInbounds
    <3>1. PICK c \in ConfigChoices : config' = [Current EXCEPT !.inbounds = WithKinds(c.inbounds)]
      BY <2>5 DEF UpdateGlobalInbounds
    <3>2. IsList(WithKinds(c.inbounds))
      BY <3>1, ChoicesAreConfigs, WithKindsIsList DEF IsConfig
    <3> QED
      BY <2>2, <3>1, <3>2 DEF IsConfig
  <2> QED
    BY <2>1, <2>3, <2>4, <2>5 DEF ConfigNext, configVars
<1>3. [ConfigNext]_configVars => [Next]_vars
  BY DEF ConfigNext, configVars, ReadConfig, UpdateGlobalConfig, UpdateGlobalInbounds
<1>4. ConfigInit => Init
  BY DEF ConfigInit
<1>5. ConfigSpec => Spec
  BY <1>3, <1>4, PTL DEF ConfigSpec, Spec
<1> QED
  BY <1>1, <1>2, <1>5, TypeCorrect, PTL DEF ConfigSpec

-----------------------------------------------------------------------------
(* Names of servers *)

\* A server of the configuration has a name of its own, with a number of at least one.
LEMMA NamesAreUnique ==
  ASSUME NEW servers, IsFiniteSet(DOMAIN servers), DOMAIN servers \subseteq Nat,
         NEW i \in DOMAIN servers, NEW j \in DOMAIN servers,
         ServerName(servers, i) = ServerName(servers, j)
  PROVE  i = j
<1> DEFINE Upto(k, m) == {n \in OfRole(servers, servers[k].role) : n <= m}
<1>1. servers[i].role = servers[j].role /\ Ordinal(servers, i) = Ordinal(servers, j)
  BY DEF ServerName
<1>2. ASSUME NEW k \in DOMAIN servers, NEW l \in DOMAIN servers,
             servers[k].role = servers[l].role, k < l
      PROVE  Ordinal(servers, k) # Ordinal(servers, l)
  <2>1. Upto(k, k) \subseteq Upto(l, l) /\ l \in Upto(l, l) /\ l \notin Upto(k, k)
    BY <1>2 DEF OfRole
  <2>2. IsFiniteSet(Upto(l, l))
    BY FS_Subset DEF OfRole
  <2>3. Cardinality(Upto(k, k)) < Cardinality(Upto(l, l))
    <3> HIDE DEF Upto
    <3> QED
      BY <2>1, <2>2, FS_Subset, FS_CardinalityType
  <2>4. Cardinality(Upto(k, k)) \in Nat /\ Cardinality(Upto(l, l)) \in Nat
    <3> HIDE DEF Upto
    <3> QED
      BY <2>1, <2>2, FS_Subset, FS_CardinalityType
  <2> QED
    BY <2>3, <2>4 DEF Ordinal
<1>3. i < j \/ j < i \/ i = j
  OBVIOUS
<1> QED
  BY <1>1, <1>2, <1>3

\* The number of a server of the configuration is not 0, so its name is not that of no
\* server, nor that of invented addresses.
LEMMA NamesAreNumbered ==
  ASSUME NEW servers, IsFiniteSet(DOMAIN servers), DOMAIN servers \subseteq Nat,
         NEW i \in DOMAIN servers
  PROVE  ServerName(servers, i) \notin {NoServer, FakeIP}
<1> DEFINE S == {n \in OfRole(servers, servers[i].role) : n <= i}
<1>1. i \in S
  BY DEF OfRole
<1>2. IsFiniteSet(S)
  BY FS_Subset DEF OfRole
<1>3. Cardinality(S) # 0
  <2> HIDE DEF S
  <2> QED
    BY <1>1, <1>2, FS_EmptySet
<1>4. Ordinal(servers, i) # 0
  BY <1>3 DEF Ordinal
<1> QED
  BY <1>4 DEF ServerName, NoServer, FakeIP

\* Both cores understand a configuration alike.
LEMMA CoresAgreeOnConfigs == IsConfig(Current) => CoresAgree
<1> SUFFICES ASSUME IsConfig(Current) PROVE CoresAgree
  OBVIOUS
<1> DEFINE c == Current
           d == SingBoxDns(c, FALSE)
           m == MihomoDns(c)
           ports == MihomoPorts(c)
           listens(linux) == SingBoxInbounds(c, linux)
           at(kind) == {k \in DOMAIN c.inbounds : /\ c.inbounds[k].enabled
                                                  /\ c.inbounds[k].kind = kind
                                                  /\ c.inbounds[k].port # 0}
<1>1. /\ IsFiniteSet(DOMAIN c.servers) /\ DOMAIN c.servers \subseteq Nat
      /\ DOMAIN c.rules \subseteq Nat
      /\ \E n \in Nat : DOMAIN c.inbounds = 1..n
  BY DEF IsConfig, IsList
<1>2. d.servers = DnsServers(c, Detours(Selection)) /\ m.policy = NameserverPolicy(c)
  BY DEF SingBoxDns, MihomoDns
<1> HIDE DEF c, d, m
<1>3. /\ DOMAIN d.servers = Served(c.servers)
      /\ \A i \in Served(c.servers) : /\ d.servers[i].tag = ServerName(c.servers, i)
                                      /\ d.servers[i].endpoint = c.servers[i].endpoint
  BY <1>2 DEF DnsServers
<1>4. ASSUME NEW n \in DOMAIN c.rules,
             \A k \in DOMAIN c.rules \ {n} : c.rules[k].value # c.rules[n].value,
             c.rules[n].server[1] # "default"
      PROVE  {d.servers[i].endpoint : i \in {j \in DOMAIN d.servers : d.servers[j].tag = c.rules[n].server}}
               = {m.policy[k] : k \in {<<c.rules[n].kind, c.rules[n].value>>} \cap DOMAIN m.policy}
  <2> DEFINE r == c.rules[n]
             key == <<r.kind, r.value>>
             named(s) == {i \in Served(c.servers) : PolicyName(c.servers, i) = s.server}
             taken == {k \in DOMAIN c.rules :
                         named(c.rules[k]) # {} /\ c.rules[k].server[1] # "default"}
             of(k) == <<c.rules[k].kind, c.rules[k].value>>
             ends == {k \in taken : of(k) = key}
  <2>1. m.policy = [x \in {of(k) : k \in taken} |->
                      c.servers[Min(named(c.rules[Max({k \in taken : of(k) = x})]))].endpoint]
    BY <1>2 DEF NameserverPolicy
  <2>2. \A k \in DOMAIN c.rules : of(k) = key => k = n
    BY <1>4
  <2>3. {d.servers[i].endpoint : i \in {j \in DOMAIN d.servers : d.servers[j].tag = r.server}}
          = {c.servers[i].endpoint : i \in named(r)}
    BY <1>3 DEF PolicyName
  <2>4. CASE named(r) = {}
    <3>1. n \notin taken
      BY <2>4
    <3>2. key \notin DOMAIN m.policy
      BY <2>1, <2>2, <3>1
    <3> HIDE DEF named, key, r
    <3>3. {m.policy[k] : k \in {key} \cap DOMAIN m.policy} = {}
      BY <3>2
    <3> QED
      BY <2>3, <2>4, <3>3 DEF key, r
  <2>5. CASE named(r) # {}
    <3>1. PICK i : i \in named(r)
      BY <2>5
    <3>2. named(r) = {i}
      BY <1>1, <3>1, NamesAreUnique DEF PolicyName, Served
    <3>3. n \in taken /\ ends = {n}
      BY <1>4, <2>2, <2>5
    <3>4. key \in DOMAIN m.policy /\ m.policy[key] = c.servers[Min(named(c.rules[Max(ends)]))].endpoint
      <4>1. key \in {of(k) : k \in taken}
        BY <3>3
      <4> HIDE DEF of, taken, named, key
      <4> QED
        BY <2>1, <4>1
    <3>5. n \in Nat /\ i \in Nat
      BY <1>1, <3>1 DEF Served
    <3>6. Max(ends) = n /\ Min(named(r)) = i
      <4> HIDE DEF ends, named
      <4> QED
        BY <3>2, <3>3, <3>5 DEF Max, Min
    <3>7. m.policy[key] = c.servers[i].endpoint
      BY <3>4, <3>6
    <3> HIDE DEF named, key, r, ends
    <3>8. {m.policy[k] : k \in {key} \cap DOMAIN m.policy} = {c.servers[i].endpoint}
      BY <3>4, <3>7
    <3>9. {c.servers[k].endpoint : k \in named(r)} = {c.servers[i].endpoint}
      BY <3>2
    <3> QED
      BY <2>3, <3>8, <3>9 DEF key, r
  <2> QED
    BY <2>4, <2>5
<1>5. ASSUME NEW kind, at(kind) # {} PROVE Max(at(kind)) \in at(kind)
  <2>1. at(kind) \subseteq DOMAIN c.inbounds
    OBVIOUS
  <2> HIDE DEF at
  <2>2. IsFiniteSet(at(kind)) /\ at(kind) \subseteq Nat
    BY <1>1, <2>1, FS_Interval, FS_Subset
  <2> QED
    BY <1>5, <2>2, Greatest
<1>6. ports = [kind \in {k \in PortKinds : at(k) # {}} |-> c.inbounds[Max(at(kind))].port]
  BY DEF MihomoPorts
<1>7. \A k \in DOMAIN c.inbounds : c.inbounds[k] \in Range(c.inbounds)
  BY DEF Range
<1> HIDE DEF ports
<1>8. ASSUME NEW linux \in BOOLEAN, NEW kind \in DOMAIN ports
      PROVE  <<kind, ports[kind]>> \in listens(linux) \/ (kind = "tproxy" /\ ~linux)
  <2> DEFINE b == c.inbounds[Max(at(kind))]
  <2>1. Max(at(kind)) \in at(kind) /\ ports[kind] = b.port
    BY <1>5, <1>6
  <2>2. b \in Range(c.inbounds) /\ b.enabled /\ b.kind = kind
    BY <1>7, <2>1
  <2> HIDE DEF b
  <2> QED
    BY <2>1, <2>2 DEF SingBoxInbounds, SupportedOn
<1>9. ASSUME NEW linux \in BOOLEAN, NEW l \in listens(linux), l[1] \in PortKinds, l[2] # 0,
             \A o \in listens(linux) \ {l} : o[1] # l[1] \/ o[2] = 0
      PROVE  l[1] \in DOMAIN ports /\ ports[l[1]] = l[2]
  <2>1. PICK x \in Range(c.inbounds) : /\ x.enabled /\ SupportedOn(linux, x.kind)
                                       /\ l = <<x.kind, x.port>>
    BY <1>9 DEF SingBoxInbounds
  <2>2. at(l[1]) # {}
    BY <1>9, <2>1 DEF Range
  <2> DEFINE b == c.inbounds[Max(at(l[1]))]
             o == <<b.kind, b.port>>
  <2>3. Max(at(l[1])) \in at(l[1])
    BY <1>5, <2>2
  <2>4. b \in Range(c.inbounds) /\ b.enabled /\ b.kind = l[1] /\ b.port # 0
    BY <1>7, <2>3
  <2>5. l[1] \in DOMAIN ports /\ ports[l[1]] = b.port
    BY <1>6, <1>9, <2>2
  <2> HIDE DEF b, at
  <2>6. SupportedOn(linux, b.kind)
    BY <2>1, <2>4
  <2>7. o \in listens(linux) /\ o[1] = l[1] /\ o[2] = b.port /\ o[2] # 0
    BY <2>4, <2>6 DEF SingBoxInbounds
  <2>8. o = l
    BY <1>9, <2>7
  <2> QED
    BY <2>5, <2>7, <2>8
<1>10. ASSUME NEW linux \in BOOLEAN
       PROVE  MihomoTun(c) <=> \E l \in listens(linux) : l[1] = "tun"
  <2>1. ASSUME NEW b \in Range(c.inbounds), b.enabled, b.kind = "tun"
        PROVE  \E l \in listens(linux) : l[1] = "tun"
    <3>1. SupportedOn(linux, b.kind)
      BY <2>1 DEF SupportedOn
    <3>2. <<b.kind, b.port>> \in listens(linux) /\ <<b.kind, b.port>>[1] = "tun"
      BY <2>1, <3>1 DEF SingBoxInbounds
    <3> QED
      BY <3>2
  <2>2. ASSUME NEW l \in listens(linux), l[1] = "tun"
        PROVE  MihomoTun(c)
    <3>1. PICK x \in Range(c.inbounds) : x.enabled /\ l = <<x.kind, x.port>>
      BY <2>2 DEF SingBoxInbounds
    <3>2. x.kind = "tun"
      BY <2>2, <3>1
    <3> QED
      BY <3>1, <3>2 DEF MihomoTun
  <2>3. CASE MihomoTun(c)
    <3>1. PICK b \in Range(c.inbounds) : b.enabled /\ b.kind = "tun"
      BY <2>3 DEF MihomoTun
    <3> QED
      BY <2>1, <2>3, <3>1
  <2> QED
    BY <2>2, <2>3
<1> HIDE DEF at
<1> QED
  BY <1>4, <1>8, <1>9, <1>10 DEF CoresAgree, c, d, m, ports

\* Whatever is saved and whatever an older release left, both cores understand it alike:
\* both count the servers of a role, with and without an address, in the same way.
THEOREM CoresAlwaysAgree == ConfigSpec => []CoresAgree
<1>1. IsConfig(config) => CoresAgree
  BY BackfilledIsConfig, CoresAgreeOnConfigs DEF Current
<1> QED
  BY <1>1, ConfigCorrect, PTL

-----------------------------------------------------------------------------
(* Lists that are made step by step *)

\* A list of values, each made from the one before.
Steps(m, n, V, base, F) ==
    /\ m \in [0..n -> V] /\ m[0] = base
    /\ \A k \in 1..n : m[k] = F[<<k, m[k - 1]>>]

StepMaps(n, V) == [(1..n) \X V -> V]

\* There is such a list.
LEMMA Built ==
  ASSUME NEW n, NEW V, NEW base, NEW F,
         n \in Nat, base \in V, F \in StepMaps(n, V)
  PROVE  \E m : Steps(m, n, V, base, F)
<1> USE DEF StepMaps
<1> DEFINE Upto(j, m) == /\ m \in [0..j -> V] /\ m[0] = base
                         /\ \A k \in 1..j : m[k] = F[<<k, m[k - 1]>>]
           Missing == {j \in 0..n : \A m \in [0..j -> V] : ~Upto(j, m)}
<1>1. Missing = {}
  <2> SUFFICES ASSUME Missing # {} PROVE FALSE
    OBVIOUS
  <2>1. PICK j \in Missing : \A l \in Missing : j <= l
    <3>1. Missing \subseteq Nat
      OBVIOUS
    <3> HIDE DEF Missing
    <3> QED
      BY <3>1, Least
  <2>2. CASE j = 0
    <3> DEFINE m == [k \in 0..0 |-> base]
    <3>1. Upto(0, m) /\ m \in [0..0 -> V]
      OBVIOUS
    <3> QED
      BY <2>2, <3>1
  <2>3. CASE j # 0
    <3>1. j - 1 \in 0..n /\ j - 1 \notin Missing
      <4>1. j \in 0..n
        BY <2>1
      <4> HIDE DEF Missing
      <4>2. j - 1 \in 0..n /\ j - 1 < j
        BY <2>3, <4>1
      <4>3. j \in Nat /\ j - 1 \in Nat
        BY <4>1, <4>2
      <4> QED
        BY <2>1, <4>2, <4>3
    <3>2. PICK g \in [0..(j - 1) -> V] : Upto(j - 1, g)
      <4> HIDE DEF Upto
      <4> QED
        BY <3>1
    <3> DEFINE m == [k \in 0..j |-> IF k = j THEN F[<<j, g[j - 1]>>] ELSE g[k]]
    <3>3. g \in [0..(j - 1) -> V] /\ g[0] = base /\ \A k \in 1..(j - 1) : g[k] = F[<<k, g[k - 1]>>]
      BY <3>2
    <3>4. j \in 1..n /\ g[j - 1] \in V
      BY <2>3, <3>3
    <3>5. F[<<j, g[j - 1]>>] \in V
      BY <3>4
    <3>6. m \in [0..j -> V] /\ m[0] = base
      BY <3>3, <3>4, <3>5
    <3>7. ASSUME NEW k \in 1..j PROVE m[k] = F[<<k, m[k - 1]>>]
      <4>1. CASE k = j
        <5>1. m[k] = F[<<j, g[j - 1]>>] /\ m[k - 1] = g[j - 1]
          BY <3>4, <4>1
        <5> QED
          BY <4>1, <5>1
      <4>2. CASE k # j
        <5>1. k \in 1..(j - 1)
          BY <4>2
        <5>2. m[k] = g[k] /\ m[k - 1] = g[k - 1]
          BY <3>4, <5>1
        <5> QED
          BY <3>3, <5>1, <5>2
      <4> QED
        BY <4>1, <4>2
    <3> HIDE DEF m
    <3>8. Upto(j, m) /\ m \in [0..j -> V]
      BY <3>6, <3>7
    <3> QED
      BY <3>8
  <2> QED
    BY <2>2, <2>3
<1>2. PICK m \in [0..n -> V] : Upto(n, m)
  BY <1>1
<1> QED
  BY <1>2 DEF Steps

\* Lists are put together one after the other.
Flattening(m, seqs, R) ==
    /\ m \in [0..Len(seqs) -> Seq(R)] /\ m[0] = <<>>
    /\ \A k \in 1..Len(seqs) : m[k - 1] \in Seq(R) /\ m[k] = m[k - 1] \o seqs[k]

\* Flattened lists are put together so.
LEMMA FlattenSteps ==
  ASSUME NEW R, NEW seqs \in Seq(Seq(R))
  PROVE  \E m : Flattening(m, seqs, R) /\ FlattenSeq(seqs) = m[Len(seqs)]
<1> DEFINE n == Len(seqs)
           flatten == CHOOSE g : g = [i \in 1..n |-> IF i = 1 THEN seqs[i] ELSE g[i - 1] \o seqs[i]]
           F == [x \in (1..n) \X Seq(R) |-> x[2] \o seqs[x[1]]]
<1>1. n \in Nat /\ \A i \in 1..n : seqs[i] \in Seq(R)
  OBVIOUS
<1>2. FlattenSeq(seqs) = IF n = 0 THEN seqs ELSE flatten[n]
  BY Zenon DEF FlattenSeq
<1>3. F \in [(1..n) \X Seq(R) -> Seq(R)]
  BY <1>1
<1>4. \A k \in 1..n, v \in Seq(R) : F[<<k, v>>] = v \o seqs[k]
  OBVIOUS
<1>5. <<>> \in Seq(R)
  OBVIOUS
<1> HIDE DEF F, n, flatten
<1>6. PICK m \in [0..n -> Seq(R)] : m[0] = <<>> /\ \A k \in 1..n : m[k] = F[<<k, m[k - 1]>>]
  <2>1. \E g : Steps(g, n, Seq(R), <<>>, F)
    BY <1>1, <1>3, <1>5, Built, Zenon DEF StepMaps
  <2> QED
    BY <2>1 DEF Steps
<1>7. \A k \in 1..n : m[k - 1] \in Seq(R) /\ m[k] \in Seq(R) /\ m[k] = m[k - 1] \o seqs[k]
  <2> SUFFICES ASSUME NEW k \in 1..n
               PROVE  m[k - 1] \in Seq(R) /\ m[k] \in Seq(R) /\ m[k] = m[k - 1] \o seqs[k]
    OBVIOUS
  <2>1. k - 1 \in 0..n /\ k \in 0..n
    BY <1>1
  <2>2. m[k - 1] \in Seq(R) /\ m[k] \in Seq(R)
    BY <2>1
  <2> QED
    BY <1>4, <1>6, <2>2
<1>8. FlattenSeq(seqs) = m[n]
  <2> DEFINE g == [i \in 1..n |-> m[i]]
             body(h) == [i \in 1..n |-> IF i = 1 THEN seqs[i] ELSE h[i - 1] \o seqs[i]]
             Other == {k \in 1..n : flatten[k] # m[k]}
  <2>1. ASSUME NEW i \in 1..n PROVE m[i] = IF i = 1 THEN seqs[i] ELSE m[i - 1] \o seqs[i]
    <3>1. \A v \in Seq(R) : <<>> \o v = v
      OBVIOUS
    <3>2. CASE i = 1
      <4>1. m[i - 1] = <<>> /\ seqs[i] \in Seq(R)
        BY <1>1, <1>6, <3>2
      <4> QED
        BY <1>7, <3>1, <3>2, <4>1
    <3>3. CASE i # 1
      BY <1>7, <3>3
    <3> QED
      BY <3>2, <3>3
  <2>2. g = body(g)
    <3>1. \A i \in 1..n : i # 1 => g[i - 1] = m[i - 1]
      BY <1>1
    <3>2. \A i \in 1..n : g[i] = IF i = 1 THEN seqs[i] ELSE g[i - 1] \o seqs[i]
      BY <2>1, <3>1
    <3>3. g = [i \in 1..n |-> g[i]]
      OBVIOUS
    <3> HIDE DEF g
    <3> QED
      BY <3>2, <3>3
  <2>3. flatten = body(flatten)
    BY <2>2, Zenon DEF flatten
  <2>4. \A i \in 1..n : flatten[i] = IF i = 1 THEN seqs[i] ELSE flatten[i - 1] \o seqs[i]
    BY <2>3
  <2>5. Other = {}
    <3> SUFFICES ASSUME Other # {} PROVE FALSE
      OBVIOUS
    <3>1. PICK k \in Other : \A l \in Other : k <= l
      <4>1. Other \subseteq Nat
        BY <1>1
      <4> HIDE DEF Other
      <4> QED
        BY <4>1, Least
    <3>2. k # 1 => flatten[k - 1] = m[k - 1]
      BY <1>1, <3>1
    <3> QED
      BY <2>1, <2>4, <3>1, <3>2
  <2>6. CASE n = 0
    <3>1. seqs = <<>>
      BY <2>6 DEF n
    <3> QED
      BY <1>2, <1>6, <2>6, <3>1
  <2>7. CASE n # 0
    <3>1. n \in 1..n
      BY <1>1, <2>7
    <3> QED
      BY <1>2, <2>5, <2>7, <3>1
  <2> QED
    BY <2>6, <2>7
<1> QED
  BY <1>6, <1>7, <1>8 DEF n, Flattening

\* They are one list of the same elements.
LEMMA FlattenType ==
  ASSUME NEW R, NEW seqs \in Seq(Seq(R))
  PROVE  FlattenSeq(seqs) \in Seq(R)
<1>1. PICK m : Flattening(m, seqs, R) /\ FlattenSeq(seqs) = m[Len(seqs)]
  BY FlattenSteps
<1> QED
  BY <1>1 DEF Flattening

\* A list begins with another one.
Extends(s, t, R) == \E d \in Seq(R) : s = t \o d

\* What is added behind an addition is one addition.
LEMMA Longer ==
  ASSUME NEW R, NEW x, NEW b, NEW y, x \in Seq(R), b \in Seq(R), y \in Seq(R)
  PROVE  Extends((x \o b) \o y, x, R)
<1>1. (x \o b) \o y = x \o (b \o y)
  BY ConcatAssociative
<1>2. b \o y \in Seq(R)
  OBVIOUS
<1> QED
  BY <1>1, <1>2 DEF Extends

\* A list stands behind one of Q and before one of R.
Between(R, Q, block, s) == \E a \in Seq(Q), b \in Seq(R) : s = (a \o block) \o b

\* One of several joined lists stands between those before it and those after it.
LEMMA FlattenSplits ==
  ASSUME NEW R, NEW Q, NEW seqs, seqs \in Seq(Seq(R)), NEW u, u \in 1..Len(seqs),
         Q \subseteq R, \A j \in 1..(u - 1) : seqs[j] \in Seq(Q)
  PROVE  Between(R, Q, seqs[u], FlattenSeq(seqs))
<1> DEFINE n == Len(seqs)
<1>1. PICK m : Flattening(m, seqs, R) /\ FlattenSeq(seqs) = m[n]
  BY FlattenSteps
<1>2. /\ n \in Nat /\ u \in 1..n /\ m \in [0..n -> Seq(R)] /\ m[0] = <<>>
      /\ \A k \in 1..n : m[k - 1] \in Seq(R) /\ seqs[k] \in Seq(R) /\ m[k] = m[k - 1] \o seqs[k]
  <2>1. n \in Nat /\ u \in 1..n /\ \A k \in 1..n : seqs[k] \in Seq(R)
    OBVIOUS
  <2> QED
    BY <1>1, <2>1 DEF Flattening
<1>3. FlattenSeq(seqs) = m[n]
  BY <1>1
<1> HIDE DEF n
<1>4. \A j \in 0..(u - 1) : m[j] \in Seq(Q)
  <2> DEFINE Bad == {j \in 0..(u - 1) : m[j] \notin Seq(Q)}
  <2> SUFFICES ASSUME Bad # {} PROVE FALSE
    OBVIOUS
  <2>1. PICK j \in Bad : \A l \in Bad : j <= l
    <3>1. Bad \subseteq Nat
      OBVIOUS
    <3> HIDE DEF Bad
    <3> QED
      BY <3>1, Least
  <2>2. j # 0
    BY <1>2, <2>1
  <2>3. j \in 1..(u - 1) /\ j \in 1..n /\ j - 1 \in 0..(u - 1)
    BY <1>2, <2>1, <2>2
  <2>4. m[j - 1] \in Seq(Q)
    BY <2>1, <2>3
  <2>5. m[j] = m[j - 1] \o seqs[j] /\ seqs[j] \in Seq(Q)
    BY <1>2, <2>3
  <2>6. m[j] \in Seq(Q)
    BY <2>4, <2>5
  <2> QED
    BY <2>1, <2>6
<1>5. \A l \in u..n : Extends(m[l], m[u], R)
  <2> DEFINE Bad == {l \in u..n : ~Extends(m[l], m[u], R)}
  <2> SUFFICES ASSUME Bad # {} PROVE FALSE
    OBVIOUS
  <2>1. PICK l \in Bad : \A k \in Bad : l <= k
    <3>1. Bad \subseteq Nat
      BY <1>2
    <3> HIDE DEF Bad
    <3> QED
      BY <3>1, Least
  <2>2. m[u] \in Seq(R) /\ <<>> \in Seq(R)
    BY <1>2
  <2>3. l # u
    <3>1. Extends(m[u], m[u], R)
      BY <2>2, ConcatEmptySeq DEF Extends
    <3> QED
      BY <2>1, <3>1
  <2>4. l \in 1..n /\ l - 1 \in u..n /\ l - 1 < l
    BY <1>2, <2>1, <2>3
  <2>5. l - 1 \notin Bad
    BY <2>1, <2>4
  <2>6. PICK b \in Seq(R) : m[l - 1] = m[u] \o b
    BY <2>4, <2>5 DEF Extends
  <2>7. m[l] = (m[u] \o b) \o seqs[l] /\ seqs[l] \in Seq(R)
    BY <1>2, <2>4, <2>6
  <2>8. Extends((m[u] \o b) \o seqs[l], m[u], R)
    BY <2>2, <2>7, Longer, Zenon
  <2> QED
    BY <2>1, <2>7, <2>8
<1>6. PICK b \in Seq(R) : m[n] = m[u] \o b
  <2>1. n \in u..n
    BY <1>2
  <2> QED
    BY <1>5, <2>1 DEF Extends
<1>7. m[u - 1] \in Seq(Q) /\ m[u] = m[u - 1] \o seqs[u]
  <2>1. u - 1 \in 0..(u - 1)
    BY <1>2
  <2> QED
    BY <1>2, <1>4, <2>1
<1> QED
  BY <1>3, <1>6, <1>7 DEF Between

-----------------------------------------------------------------------------
(* Rules that are merged *)

DnsRuleOf(K, S) ==
    [keys : SUBSET K, clash : {"any", "Direct", "global"}, address : BOOLEAN,
     action : {"route", "evaluate", "respond"}, server : S]

\* What is true of two rules that are joined is true of the joined one.
JoinClosed(R) ==
    \A a, b \in R :
        a.keys # {} /\ b.keys # {} /\ [a EXCEPT !.keys = b.keys] = b
        => [a EXCEPT !.keys = a.keys \cup b.keys] \in R

\* A rule that got more keys, and had some.
Grown(a, b) ==
    a.keys \subseteq b.keys /\ (a.keys = {} => b.keys = {}) /\ b = [a EXCEPT !.keys = b.keys]

\* A list that was continued, at most its last rule having grown.
Continued(a, b) ==
    /\ Len(a) <= Len(b)
    /\ \A i \in 1..Len(a) : i < Len(a) => b[i] = a[i]
    /\ Grown(a[Len(a)], b[Len(a)])

\* Growing goes on.
LEMMA GrowsOn ==
  ASSUME NEW K, NEW S, NEW a \in DnsRuleOf(K, S), NEW b \in DnsRuleOf(K, S),
         NEW c \in DnsRuleOf(K, S), Grown(a, b), Grown(b, c)
  PROVE  Grown(a, c)
BY DEF Grown, DnsRuleOf

\* A rule has grown from itself.
LEMMA GrownItself ==
  ASSUME NEW K, NEW S, NEW a \in DnsRuleOf(K, S)
  PROVE  Grown(a, a)
BY DEF Grown, DnsRuleOf

\* A rule is joined to the last one, which grows, or put behind it.
JoinedWell(done, r, R) ==
    LET joined == Joined(done, r)
    IN  /\ joined \in Seq(R) /\ joined # <<>>
        /\ done # <<>> => Continued(done, joined)
        /\ Grown(r, joined[Len(joined)])
        /\ \A i \in 1..Len(joined) :
              i < Len(joined) => i \in 1..Len(done) /\ joined[i] = done[i]

\* Nothing else becomes of it.
LEMMA JoinedContinues ==
  ASSUME NEW K, NEW S, NEW R, R \subseteq DnsRuleOf(K, S), JoinClosed(R),
         NEW done, NEW r, done \in Seq(R), r \in R
  PROVE  JoinedWell(done, r, R)
<1> DEFINE n == Len(done)
           last == done[n]
           joins == done # <<>> /\ r.keys # {} /\ last.keys # {} /\ [last EXCEPT !.keys = r.keys] = r
           both == [last EXCEPT !.keys = last.keys \cup r.keys]
           grown == [done EXCEPT ![n] = both]
           j == Joined(done, r)
<1>1. j = IF joins THEN grown ELSE Append(done, r)
  BY DEF Joined
<1>2. n \in Nat /\ (done # <<>> => n \in 1..n /\ last \in R)
  OBVIOUS
<1>3. CASE joins
  <2>1. n \in 1..n /\ last \in R /\ both \in R /\ last \in DnsRuleOf(K, S) /\ r \in DnsRuleOf(K, S)
    BY <1>2, <1>3 DEF JoinClosed
  <2>2. Grown(last, both) /\ Grown(r, both)
    <3>1. last.keys # {} /\ r.keys # {} /\ [last EXCEPT !.keys = r.keys] = r
      BY <1>3
    <3>2. both.keys = last.keys \cup r.keys
      BY <2>1 DEF DnsRuleOf
    <3>3. both = [last EXCEPT !.keys = both.keys] /\ both = [r EXCEPT !.keys = both.keys]
      BY <2>1, <3>1, <3>2 DEF DnsRuleOf
    <3> QED
      BY <3>1, <3>2, <3>3 DEF Grown
  <2>3. grown \in Seq(R) /\ Len(grown) = n /\ grown[n] = both /\ \A i \in 1..n : i # n => grown[i] = done[i]
    <3> HIDE DEF both, last, n
    <3>1. n \in 1..Len(done)
      BY <2>1 DEF n
    <3> QED
      BY <2>1, <3>1 DEF n
  <2>4. j = grown
    BY <1>1, <1>3
  <2>5. r.keys # {} /\ last.keys # {}
    BY <1>3
  <2> HIDE DEF j, grown, both, joins
  <2> QED
    BY <1>2, <2>1, <2>2, <2>3, <2>4, <2>5 DEF j, Continued, JoinedWell
<1>4. CASE ~joins
  <2>1. j = Append(done, r)
    BY <1>1, <1>4
  <2>2. /\ j \in Seq(R) /\ Len(j) = n + 1 /\ j[n + 1] = r
        /\ \A i \in 1..n : j[i] = done[i]
    BY <2>1
  <2>3. Grown(r, r) /\ (done # <<>> => Grown(last, last))
    BY <1>2, GrownItself
  <2> HIDE DEF j, joins
  <2> QED
    BY <1>2, <2>2, <2>3 DEF j, Continued, JoinedWell
<1> QED
  BY <1>3, <1>4

Merging(m, s, R) ==
    /\ m \in [0..Len(s) -> Seq(R)] /\ m[0] = <<>>
    /\ \A k \in 1..Len(s) : m[k - 1] \in Seq(R) /\ m[k] = Joined(m[k - 1], s[k])

\* Rules are merged one after the other.
LEMMA MergeSteps ==
  ASSUME NEW K, NEW S, NEW R, R \subseteq DnsRuleOf(K, S), JoinClosed(R), NEW s \in Seq(R)
  PROVE  \E m : Merging(m, s, R) /\ Merged(s) = m[Len(s)]
<1> DEFINE n == Len(s)
           merged == CHOOSE g : g = [k \in 0..n |-> IF k = 0 THEN <<>> ELSE Joined(g[k - 1], s[k])]
           F == [x \in (1..n) \X Seq(R) |-> Joined(x[2], s[x[1]])]
<1>1. n \in Nat /\ \A i \in 1..n : s[i] \in R
  OBVIOUS
<1>2. Merged(s) = merged[n]
  BY Zenon DEF Merged
<1>3. F \in [(1..n) \X Seq(R) -> Seq(R)]
  <2>1. \A k \in 1..n, v \in Seq(R) : JoinedWell(v, s[k], R)
    BY <1>1, JoinedContinues
  <2> QED
    BY <2>1 DEF JoinedWell
<1>4. \A k \in 1..n, v \in Seq(R) : F[<<k, v>>] = Joined(v, s[k])
  OBVIOUS
<1>5. <<>> \in Seq(R)
  OBVIOUS
<1> HIDE DEF F, n, merged
<1>6. PICK m \in [0..n -> Seq(R)] : m[0] = <<>> /\ \A k \in 1..n : m[k] = F[<<k, m[k - 1]>>]
  <2>1. \E g : Steps(g, n, Seq(R), <<>>, F)
    BY <1>1, <1>3, <1>5, Built, Zenon DEF StepMaps
  <2> QED
    BY <2>1 DEF Steps
<1>7. ASSUME NEW k \in 1..n
      PROVE  m[k - 1] \in Seq(R) /\ m[k] = Joined(m[k - 1], s[k])
  <2>1. k - 1 \in 0..n
    BY <1>1
  <2>2. m[k - 1] \in Seq(R)
    BY <2>1
  <2> QED
    BY <1>4, <1>6, <2>2
<1>8. Merged(s) = m[n]
  <2> DEFINE g == [k \in 0..n |-> m[k]]
             body(h) == [k \in 0..n |-> IF k = 0 THEN <<>> ELSE Joined(h[k - 1], s[k])]
             Other == {k \in 0..n : merged[k] # m[k]}
  <2>1. ASSUME NEW k \in 0..n PROVE m[k] = IF k = 0 THEN <<>> ELSE Joined(m[k - 1], s[k])
    <3>1. k # 0 => k \in 1..n
      BY <1>1
    <3> QED
      BY <1>6, <1>7, <3>1
  <2>2. g = body(g)
    <3>1. \A k \in 0..n : k # 0 => g[k - 1] = m[k - 1]
      BY <1>1
    <3>2. \A k \in 0..n : g[k] = IF k = 0 THEN <<>> ELSE Joined(g[k - 1], s[k])
      BY <2>1, <3>1
    <3>3. g = [k \in 0..n |-> g[k]]
      OBVIOUS
    <3> HIDE DEF g
    <3> QED
      BY <3>2, <3>3
  <2>3. merged = body(merged)
    BY <2>2, Zenon DEF merged
  <2>4. \A k \in 0..n : merged[k] = IF k = 0 THEN <<>> ELSE Joined(merged[k - 1], s[k])
    BY <2>3
  <2>5. Other = {}
    <3> SUFFICES ASSUME Other # {} PROVE FALSE
      OBVIOUS
    <3>1. PICK k \in Other : \A l \in Other : k <= l
      <4>1. Other \subseteq Nat
        BY <1>1
      <4> HIDE DEF Other
      <4> QED
        BY <4>1, Least
    <3>2. k # 0 => merged[k - 1] = m[k - 1]
      BY <1>1, <3>1
    <3> QED
      BY <2>1, <2>4, <3>1, <3>2
  <2>6. n \in 0..n
    BY <1>1
  <2> QED
    BY <1>2, <2>5, <2>6
<1> QED
  BY <1>6, <1>7, <1>8 DEF n, Merging

\* What is true of rules, and of rules that are joined, is true of the merged ones.
LEMMA MergedType ==
  ASSUME NEW K, NEW S, NEW R, R \subseteq DnsRuleOf(K, S), JoinClosed(R), NEW s \in Seq(R)
  PROVE  Merged(s) \in Seq(R)
<1>1. PICK m : Merging(m, s, R) /\ Merged(s) = m[Len(s)]
  BY MergeSteps
<1> QED
  BY <1>1 DEF Merging

\* It is true of the first of them if it is true of the first rules.
LEMMA MergesFirst ==
  ASSUME NEW K, NEW S, NEW R, R \subseteq DnsRuleOf(K, S), JoinClosed(R), NEW s \in Seq(R),
         NEW m, Merging(m, s, R), NEW Q, Q \subseteq R, JoinClosed(Q),
         NEW p \in 0..Len(s), \A i \in 1..p : s[i] \in Q
  PROVE  m[p] \in Seq(Q)
<1> DEFINE Bad == {k \in 0..p : m[k] \notin Seq(Q)}
<1> SUFFICES ASSUME Bad # {} PROVE FALSE
  BY DEF Merging
<1>1. PICK k \in Bad : \A l \in Bad : k <= l
  <2>1. Bad \subseteq Nat
    OBVIOUS
  <2> HIDE DEF Bad
  <2> QED
    BY <2>1, Least
<1>2. k # 0
  BY <1>1 DEF Merging
<1>3. k \in 1..p /\ k \in 1..Len(s) /\ k - 1 \in 0..p
  BY <1>1, <1>2
<1>4. m[k - 1] \in Seq(Q) /\ s[k] \in Q
  BY <1>1, <1>3
<1>5. m[k] = Joined(m[k - 1], s[k])
  BY <1>3 DEF Merging
<1>6. Q \subseteq DnsRuleOf(K, S)
  OBVIOUS
<1>7. Joined(m[k - 1], s[k]) \in Seq(Q)
  <2> HIDE DEF Bad
  <2> QED
    BY <1>4, <1>6, JoinedContinues DEF JoinedWell
<1> QED
  BY <1>1, <1>5, <1>7

\* What was merged stays, and at most its last rule grows.
LEMMA MergeContinues ==
  ASSUME NEW K, NEW S, NEW R, R \subseteq DnsRuleOf(K, S), JoinClosed(R), NEW s \in Seq(R),
         NEW m, Merging(m, s, R), NEW p \in 1..Len(s)
  PROVE  m[p] \in Seq(R) /\ m[p] # <<>> /\ Continued(m[p], m[Len(s)])
<1> DEFINE n == Len(s)
           Bad == {k \in p..n : ~Continued(m[p], m[k])}
<1>1. \A k \in 1..n : m[k - 1] \in Seq(R) /\ s[k] \in R /\ m[k] = Joined(m[k - 1], s[k])
  BY DEF Merging
<1>2. \A k \in 1..n : m[k] \in Seq(R) /\ m[k] # <<>>
  <2> SUFFICES ASSUME NEW k \in 1..n PROVE m[k] \in Seq(R) /\ m[k] # <<>>
    OBVIOUS
  <2>1. Joined(m[k - 1], s[k]) \in Seq(R) /\ Joined(m[k - 1], s[k]) # <<>>
    <3>1. m[k - 1] \in Seq(R) /\ s[k] \in R
      BY <1>1
    <3>2. JoinedWell(m[k - 1], s[k], R)
      BY <3>1, JoinedContinues
    <3> QED
      BY <3>2 DEF JoinedWell
  <2> QED
    BY <1>1, <2>1
<1>3. \A a, b \in Seq(R) : a # <<>> /\ Continued(m[p], a) /\ Continued(a, b) => Continued(m[p], b)
  <2> SUFFICES ASSUME NEW a \in Seq(R), NEW b \in Seq(R), a # <<>>,
                      Continued(m[p], a), Continued(a, b)
               PROVE  Continued(m[p], b)
    OBVIOUS
  <2> DEFINE l == Len(m[p])
  <2>1. m[p] \in Seq(R) /\ l \in 1..l /\ l \in Nat /\ m[p][l] \in R
    BY <1>2
  <2>2. Len(a) \in Nat /\ Len(b) \in Nat /\ l <= Len(a) /\ Len(a) <= Len(b)
    BY DEF Continued
  <2>3. a[l] \in R /\ b[l] \in R
    BY <2>1, <2>2
  <2>4. Grown(m[p][l], a[l])
    BY DEF Continued
  <2>5. Grown(a[l], b[l])
    <3>1. CASE l = Len(a)
      BY <3>1 DEF Continued
    <3>2. CASE l # Len(a)
      <4>1. b[l] = a[l]
        BY <2>1, <2>2, <3>2 DEF Continued
      <4> QED
        BY <2>3, <4>1, GrownItself
    <3> QED
      BY <3>1, <3>2
  <2>6. Grown(m[p][l], b[l])
    <3>1. m[p][l] \in DnsRuleOf(K, S) /\ a[l] \in DnsRuleOf(K, S) /\ b[l] \in DnsRuleOf(K, S)
      BY <2>1, <2>3
    <3> HIDE DEF l
    <3> QED
      BY <2>4, <2>5, <3>1, GrowsOn
  <2>7. \A i \in 1..l : i < l => b[i] = m[p][i]
    BY <2>1, <2>2 DEF Continued
  <2> QED
    BY <2>1, <2>2, <2>6, <2>7 DEF Continued
<1>4. Bad = {}
  <2> SUFFICES ASSUME Bad # {} PROVE FALSE
    OBVIOUS
  <2>1. PICK k \in Bad : \A l \in Bad : k <= l
    <3>1. Bad \subseteq Nat
      OBVIOUS
    <3> HIDE DEF Bad
    <3> QED
      BY <3>1, Least
  <2>2. k # p
    <3>1. m[p] \in Seq(R) /\ m[p] # <<>>
      BY <1>2
    <3>2. m[p][Len(m[p])] \in DnsRuleOf(K, S)
      BY <3>1
    <3>3. Grown(m[p][Len(m[p])], m[p][Len(m[p])])
      BY <3>2, GrownItself
    <3>4. Continued(m[p], m[p])
      BY <3>1, <3>3 DEF Continued
    <3> QED
      BY <2>1, <3>4
  <2>3. k \in 1..n /\ k - 1 \in p..n /\ k - 1 \in 1..n /\ k - 1 < k
    BY <2>1, <2>2
  <2>4. Continued(m[p], m[k - 1])
    BY <2>1, <2>3
  <2>5. m[k - 1] \in Seq(R) /\ m[k - 1] # <<>> /\ m[k] \in Seq(R) /\ s[k] \in R /\ m[k] = Joined(m[k - 1], s[k])
    BY <1>1, <1>2, <2>3
  <2>6. Continued(m[k - 1], m[k])
    <3> HIDE DEF Bad
    <3>1. Continued(m[k - 1], Joined(m[k - 1], s[k]))
      <4>1. JoinedWell(m[k - 1], s[k], R)
        BY <2>5, JoinedContinues
      <4> QED
        BY <2>5, <4>1 DEF JoinedWell
    <3> QED
      BY <2>5, <3>1
  <2>7. Continued(m[p], m[k])
    BY <1>3, <2>4, <2>5, <2>6
  <2> QED
    BY <2>1, <2>7
<1> QED
  BY <1>2, <1>4

\* The first rule that is not among the silent ones is found behind silent ones only.
LEMMA RoutePlaced ==
  ASSUME NEW K, NEW S, NEW R, R \subseteq DnsRuleOf(K, S), JoinClosed(R), NEW s \in Seq(R),
         NEW Q, Q \subseteq R, JoinClosed(Q),
         NEW p \in 1..Len(s), \A i \in 1..(p - 1) : s[i] \in Q
  PROVE  \E j \in 1..Len(Merged(s)) :
            /\ \A i \in 1..(j - 1) : Merged(s)[i] \in Q
            /\ Grown(s[p], Merged(s)[j])
<1>1. PICK m : Merging(m, s, R) /\ Merged(s) = m[Len(s)]
  BY MergeSteps
<1> DEFINE before == m[p - 1]
           done == m[p]
           out == m[Len(s)]
           j == Len(done)
<1>2. before \in Seq(R) /\ s[p] \in R /\ done = Joined(before, s[p])
  BY <1>1 DEF Merging
<1>3. before \in Seq(Q)
  <2>1. p - 1 \in 0..Len(s)
    OBVIOUS
  <2> QED
    BY <1>1, <2>1, MergesFirst
<1>4. done \in Seq(R) /\ done # <<>> /\ Continued(done, out)
  BY <1>1, MergeContinues
<1>5. out \in Seq(R)
  <2>1. Len(s) \in 0..Len(s)
    OBVIOUS
  <2> QED
    BY <1>1, <2>1 DEF Merging
<1> HIDE DEF before, done, out
<1>6. /\ Grown(s[p], Joined(before, s[p])[Len(Joined(before, s[p]))])
      /\ \A i \in 1..Len(Joined(before, s[p])) : i < Len(Joined(before, s[p]))
            => i \in 1..Len(before) /\ Joined(before, s[p])[i] = before[i]
  <2>1. JoinedWell(before, s[p], R)
    BY <1>2, JoinedContinues, Zenon
  <2> QED
    BY <2>1 DEF JoinedWell
<1>7. Grown(s[p], done[j]) /\ \A i \in 1..j : i < j => done[i] \in Q
  BY <1>2, <1>3, <1>6
<1>8. j \in 1..j /\ j <= Len(out) /\ Len(out) \in Nat /\ j \in Nat
  BY <1>4, <1>5 DEF Continued
<1>9. \A i \in 1..(j - 1) : out[i] \in Q
  BY <1>4, <1>7, <1>8 DEF Continued
<1>10. Grown(s[p], out[j])
  <2>1. Grown(done[j], out[j])
    BY <1>4 DEF Continued
  <2>2. done[j] \in DnsRuleOf(K, S) /\ out[j] \in DnsRuleOf(K, S) /\ s[p] \in DnsRuleOf(K, S)
    BY <1>2, <1>4, <1>5, <1>8
  <2> HIDE DEF j
  <2> QED
    BY <1>7, <2>1, <2>2, GrowsOn
<1>11. j \in 1..Len(out) /\ out = Merged(s)
  BY <1>1, <1>8 DEF out
<1> QED
  BY <1>9, <1>10, <1>11

\* So are the four rules that ask the one server and then the other.
LEMMA EvaluatedPlaced ==
  ASSUME NEW K, NEW S, NEW R, R \subseteq DnsRuleOf(K, S), JoinClosed(R), NEW s \in Seq(R),
         NEW Q, Q \subseteq R, JoinClosed(Q),
         NEW p \in 1..Len(s), \A i \in 1..(p - 1) : s[i] \in Q,
         p + 3 <= Len(s), s[p + 1].keys = {}, s[p + 2].keys = {}
  PROVE  \E j \in 1..Len(Merged(s)) :
            /\ j + 3 <= Len(Merged(s))
            /\ \A i \in 1..(j - 1) : Merged(s)[i] \in Q
            /\ Grown(s[p], Merged(s)[j])
            /\ Merged(s)[j + 1] = s[p + 1] /\ Merged(s)[j + 2] = s[p + 2]
            /\ Grown(s[p + 3], Merged(s)[j + 3])
<1>1. PICK m : Merging(m, s, R) /\ Merged(s) = m[Len(s)]
  BY MergeSteps
<1> DEFINE before == m[p - 1]
           d0 == m[p]
           d1 == m[p + 1]
           d2 == m[p + 2]
           d3 == m[p + 3]
           out == m[Len(s)]
           j == Len(d0)
<1>2. /\ before \in Seq(R) /\ s[p] \in R /\ d0 = Joined(before, s[p])
      /\ d0 \in Seq(R) /\ s[p + 1] \in R /\ d1 = Joined(d0, s[p + 1])
      /\ d1 \in Seq(R) /\ s[p + 2] \in R /\ d2 = Joined(d1, s[p + 2])
      /\ d2 \in Seq(R) /\ s[p + 3] \in R /\ d3 = Joined(d2, s[p + 3])
  <2>1. /\ p \in 1..Len(s) /\ p + 1 \in 1..Len(s) /\ p + 2 \in 1..Len(s) /\ p + 3 \in 1..Len(s)
        /\ p + 1 - 1 = p /\ p + 2 - 1 = p + 1 /\ p + 3 - 1 = p + 2
    OBVIOUS
  <2>2. \A k \in 1..Len(s) : m[k - 1] \in Seq(R) /\ s[k] \in R /\ m[k] = Joined(m[k - 1], s[k])
    BY <1>1 DEF Merging
  <2> QED
    BY <2>1, <2>2
<1>3. before \in Seq(Q)
  <2>1. p - 1 \in 0..Len(s)
    OBVIOUS
  <2> QED
    BY <1>1, <2>1, MergesFirst
<1>4. d0 # <<>>
  BY <1>1, MergeContinues
<1>5. d3 \in Seq(R) /\ d3 # <<>> /\ Continued(d3, out)
  <2>1. p + 3 \in 1..Len(s)
    OBVIOUS
  <2> QED
    BY <1>1, <2>1, MergeContinues
<1>6. out \in Seq(R)
  <2>1. Len(s) \in 0..Len(s)
    OBVIOUS
  <2> QED
    BY <1>1, <2>1 DEF Merging
<1> HIDE DEF before, d0, d1, d2, d3, out
<1>7. Grown(s[p], d0[j]) /\ \A i \in 1..j : i < j => d0[i] \in Q
  <2>1. /\ Grown(s[p], Joined(before, s[p])[Len(Joined(before, s[p]))])
        /\ \A i \in 1..Len(Joined(before, s[p])) : i < Len(Joined(before, s[p]))
              => i \in 1..Len(before) /\ Joined(before, s[p])[i] = before[i]
    <3>1. JoinedWell(before, s[p], R)
      BY <1>2, JoinedContinues, Zenon
    <3> QED
      BY <3>1 DEF JoinedWell
  <2> QED
    BY <1>2, <1>3, <2>1
<1>8. ASSUME NEW d \in Seq(R), NEW e \in Seq(R), NEW r \in R, e = Joined(d, r), d # <<>>,
             r.keys = {} \/ d[Len(d)].keys = {}
      PROVE  e = Append(d, r)
  BY <1>8 DEF Joined
<1>9. d1 = Append(d0, s[p + 1])
  BY <1>2, <1>4, <1>8
<1>10. d1 # <<>> /\ Len(d1) = j + 1
  BY <1>2, <1>9
<1>11. d2 = Append(d1, s[p + 2])
  BY <1>2, <1>8, <1>10
<1>12. d2 # <<>> /\ Len(d2) = j + 2 /\ d2[Len(d2)] = s[p + 2]
  BY <1>2, <1>10, <1>11
<1>13. d3 = Append(d2, s[p + 3])
  BY <1>2, <1>5, <1>8, <1>12
<1>14. /\ Len(d3) = j + 3 /\ j \in Nat \ {0}
       /\ \A i \in 1..j : d3[i] = d0[i]
       /\ d3[j + 1] = s[p + 1] /\ d3[j + 2] = s[p + 2] /\ d3[j + 3] = s[p + 3]
  <2>1. j \in Nat \ {0}
    BY <1>2, <1>4
  <2>2. Len(d3) = j + 3 /\ d3[j + 3] = s[p + 3] /\ \A i \in 1..(j + 2) : d3[i] = d2[i]
    BY <1>2, <1>12, <1>13
  <2>3. d2[j + 2] = s[p + 2] /\ \A i \in 1..(j + 1) : d2[i] = d1[i]
    BY <1>2, <1>10, <1>11
  <2>4. d1[j + 1] = s[p + 1] /\ \A i \in 1..j : d1[i] = d0[i]
    BY <1>2, <1>9
  <2> HIDE DEF j
  <2>5. \A i \in 1..j : d3[i] = d0[i]
    <3> SUFFICES ASSUME NEW i \in 1..j PROVE d3[i] = d0[i]
      OBVIOUS
    <3>1. i \in 1..(j + 1) /\ i \in 1..(j + 2)
      BY <2>1
    <3> QED
      BY <2>2, <2>3, <2>4, <3>1
  <2>6. j + 1 \in 1..(j + 1) /\ j + 1 \in 1..(j + 2) /\ j + 2 \in 1..(j + 2)
    BY <2>1
  <2>7. d3[j + 1] = s[p + 1] /\ d3[j + 2] = s[p + 2]
    BY <2>2, <2>3, <2>4, <2>6
  <2> QED
    BY <2>1, <2>2, <2>5, <2>7
<1> HIDE DEF j
<1>15. /\ j + 3 <= Len(out) /\ Len(out) \in Nat
       /\ \A i \in 1..(j + 2) : out[i] = d3[i]
       /\ Grown(s[p + 3], out[j + 3])
  BY <1>5, <1>6, <1>14 DEF Continued
<1>16. \A i \in 1..(j - 1) : out[i] \in Q
  <2> SUFFICES ASSUME NEW i \in 1..(j - 1) PROVE out[i] \in Q
    OBVIOUS
  <2>1. i \in 1..j /\ i < j /\ i \in 1..(j + 2)
    BY <1>14
  <2> QED
    BY <1>7, <1>14, <1>15, <2>1
<1>17. Grown(s[p], out[j]) /\ out[j + 1] = s[p + 1] /\ out[j + 2] = s[p + 2]
  BY <1>7, <1>14, <1>15
<1>18. j \in 1..Len(out) /\ out = Merged(s)
  BY <1>1, <1>14, <1>15 DEF out
<1> QED
  BY <1>15, <1>16, <1>17, <1>18

-----------------------------------------------------------------------------
(* Answers *)

\* Rules that do not end a query, or only with an answer that was given before.
Silent(R, q) == {r \in R : r.action # "respond" => ~Applies(r, q)}

\* Silent rules that are joined are silent.
LEMMA SilentIsClosed ==
  ASSUME NEW K, NEW S, NEW q
  PROVE  JoinClosed(DnsRuleOf(K, S)) /\ JoinClosed(Silent(DnsRuleOf(K, S), q))
<1> DEFINE R == DnsRuleOf(K, S)
<1> SUFFICES ASSUME NEW a \in R, NEW b \in R, a.keys # {}, b.keys # {},
                    [a EXCEPT !.keys = b.keys] = b
             PROVE  LET both == [a EXCEPT !.keys = a.keys \cup b.keys]
                    IN  both \in R /\ (a \in Silent(R, q) /\ b \in Silent(R, q) => both \in Silent(R, q))
  BY DEF JoinClosed, Silent
<1> DEFINE both == [a EXCEPT !.keys = a.keys \cup b.keys]
<1>1. both \in R /\ both.keys = a.keys \cup b.keys
  BY DEF DnsRuleOf
<1>2. /\ both.action = a.action /\ both.clash = a.clash /\ both.address = a.address
      /\ b.action = a.action /\ b.clash = a.clash /\ b.address = a.address
  BY DEF DnsRuleOf
<1> HIDE DEF both
<1>3. ASSUME Applies(both, q) PROVE Applies(a, q) \/ Applies(b, q)
  BY <1>1, <1>2, <1>3 DEF Applies
<1> QED
  BY <1>1, <1>2, <1>3 DEF Silent, both

\* What has grown applies to what it applied to.
LEMMA GrownApplies ==
  ASSUME NEW K, NEW S, NEW a \in DnsRuleOf(K, S), NEW b \in DnsRuleOf(K, S), Grown(a, b), NEW q
  PROVE  /\ Applies(a, q) => Applies(b, q)
         /\ b.action = a.action /\ b.server = a.server
<1>1. /\ b.action = a.action /\ b.clash = a.clash /\ b.address = a.address /\ b.server = a.server
      /\ a.keys \subseteq b.keys /\ (a.keys = {} => b.keys = {})
  BY DEF Grown, DnsRuleOf
<1> QED
  BY <1>1 DEF Applies

\* What is not above any other is the least.
LEMMA IsMin ==
  ASSUME NEW S, S \subseteq Nat, NEW j, j \in S, \A i \in S : j <= i
  PROVE  Min(S) = j
<1>1. Min(S) \in S /\ \A x \in S : Min(S) <= x
  BY First
<1>2. Min(S) \in Nat /\ j \in Nat
  BY <1>1
<1>3. j <= Min(S) /\ Min(S) <= j
  BY <1>1
<1> QED
  BY <1>2, <1>3

\* Behind silent rules, a route that applies decides.
LEMMA RouteAnswers ==
  ASSUME NEW K, NEW S, NEW out \in Seq(DnsRuleOf(K, S)), NEW q, NEW final, NEW j \in 1..Len(out),
         \A i \in 1..(j - 1) : out[i] \in Silent(DnsRuleOf(K, S), q),
         out[j].action = "route", Applies(out[j], q)
  PROVE  AnsweredBy([rules |-> out, final |-> final], q) = out[j].server
<1> DEFINE d == [rules |-> out, final |-> final]
           asked(i) == {k \in 1..(i - 1) : d.rules[k].action = "evaluate" /\ Applies(d.rules[k], q)}
           ends == {i \in DOMAIN d.rules :
                      IF d.rules[i].action = "respond" THEN q.good /\ asked(i) # {}
                      ELSE d.rules[i].action = "route" /\ Applies(d.rules[i], q)}
           first == Min(ends)
<1>1. AnsweredBy(d, q) = IF ends = {} THEN d.final
                         ELSE IF d.rules[first].action = "respond" THEN d.rules[Max(asked(first))].server
                         ELSE d.rules[first].server
  BY Zenon DEF AnsweredBy
<1>2. d.rules = out /\ DOMAIN out = 1..Len(out) /\ Len(out) \in Nat
  OBVIOUS
<1>3. j \in ends
  BY <1>2
<1>4. ASSUME NEW i \in ends PROVE j <= i
  <2> SUFFICES ASSUME i < j PROVE FALSE
    BY <1>2
  <2>1. i \in 1..(j - 1)
    BY <1>2
  <2>2. out[i].action = "respond" \/ ~Applies(out[i], q)
    BY <2>1 DEF Silent
  <2>3. out[i].action = "respond" /\ asked(i) # {}
    BY <1>2, <2>2
  <2>4. PICK k \in 1..(i - 1) : out[k].action = "evaluate" /\ Applies(out[k], q)
    BY <1>2, <2>3
  <2>5. k \in 1..(j - 1)
    BY <2>1
  <2> QED
    BY <2>4, <2>5 DEF Silent
<1>5. first = j
  <2>1. ends \subseteq Nat
    BY <1>2
  <2> HIDE DEF ends
  <2> QED
    BY <1>3, <1>4, <2>1, IsMin
<1> HIDE DEF ends, first
<1> QED
  BY <1>1, <1>2, <1>3, <1>5 DEF d

\* So does a pair of servers that are asked: the first if its answer is good.
LEMMA EvaluatedAnswers ==
  ASSUME NEW K, NEW S, NEW out \in Seq(DnsRuleOf(K, S)), NEW q, q.good \in BOOLEAN, NEW final,
         NEW j \in 1..Len(out), j + 3 <= Len(out),
         \A i \in 1..(j - 1) : out[i] \in Silent(DnsRuleOf(K, S), q),
         out[j].action = "evaluate", Applies(out[j], q),
         out[j + 1].action = "respond", out[j + 2].action = "respond",
         out[j + 3].action = "route", Applies(out[j + 3], q)
  PROVE  AnsweredBy([rules |-> out, final |-> final], q) =
            IF q.good THEN out[j].server ELSE out[j + 3].server
<1> DEFINE d == [rules |-> out, final |-> final]
           asked(i) == {k \in 1..(i - 1) : d.rules[k].action = "evaluate" /\ Applies(d.rules[k], q)}
           ends == {i \in DOMAIN d.rules :
                      IF d.rules[i].action = "respond" THEN q.good /\ asked(i) # {}
                      ELSE d.rules[i].action = "route" /\ Applies(d.rules[i], q)}
           first == Min(ends)
           at == IF q.good THEN j + 1 ELSE j + 3
<1>1. AnsweredBy(d, q) = IF ends = {} THEN d.final
                         ELSE IF d.rules[first].action = "respond" THEN d.rules[Max(asked(first))].server
                         ELSE d.rules[first].server
  BY Zenon DEF AnsweredBy
<1>2. d.rules = out /\ DOMAIN out = 1..Len(out) /\ Len(out) \in Nat
  OBVIOUS
<1>3. asked(j + 1) = {j}
  <2>1. j \in asked(j + 1)
    BY <1>2
  <2>2. ASSUME NEW k \in asked(j + 1) PROVE k = j
    <3> SUFFICES ASSUME k # j PROVE FALSE
      OBVIOUS
    <3>1. k \in 1..(j - 1) /\ out[k].action = "evaluate" /\ Applies(out[k], q)
      BY <1>2
    <3> QED
      BY <3>1 DEF Silent
  <2> QED
    BY <2>1, <2>2
<1>4. at \in ends
  <2>1. CASE q.good
    BY <1>2, <1>3, <2>1
  <2>2. CASE ~q.good
    BY <1>2, <2>2
  <2> QED
    BY <2>1, <2>2
<1>5. ASSUME NEW i \in ends PROVE at <= i
  <2> SUFFICES ASSUME i < at PROVE FALSE
    BY <1>2
  <2>1. i \in 1..(j - 1) \/ i = j \/ (i \in {j + 1, j + 2} /\ ~q.good)
    BY <1>2
  <2>2. i \in 1..(j - 1)
    BY <1>2, <2>1
  <2>3. out[i].action = "respond" \/ ~Applies(out[i], q)
    BY <2>2 DEF Silent
  <2>4. out[i].action = "respond" /\ asked(i) # {}
    BY <1>2, <2>3
  <2>5. PICK k \in 1..(i - 1) : out[k].action = "evaluate" /\ Applies(out[k], q)
    BY <1>2, <2>4
  <2>6. k \in 1..(j - 1)
    BY <2>2
  <2> QED
    BY <2>5, <2>6 DEF Silent
<1>6. first = at
  <2>1. ends \subseteq Nat /\ at \in Nat
    BY <1>2
  <2> HIDE DEF ends, at
  <2> QED
    BY <1>4, <1>5, <2>1, IsMin
<1>7. Max({j}) = j
  BY DEF Max
<1> HIDE DEF ends, first
<1>8. CASE q.good
  <2>1. first = j + 1
    BY <1>6, <1>8
  <2>2. AnsweredBy(d, q) = out[Max(asked(j + 1))].server
    BY <1>1, <1>2, <1>4, <2>1
  <2> HIDE DEF asked, d
  <2> QED
    BY <1>3, <1>7, <1>8, <2>2 DEF d
<1>9. CASE ~q.good
  BY <1>1, <1>2, <1>4, <1>6, <1>9
<1> QED
  BY <1>8, <1>9

-----------------------------------------------------------------------------
(* The rules of a configuration *)

\* A configuration as it is read: every field is there.
IsFull(c) == IsConfig(c) /\ DOMAIN c.fields = FieldNames

\* The rules of one filter of invented addresses.
RulesOfFilter(c, f) ==
    IF FilterMode(c) = "rule" THEN FilterRule(f, DefaultServer(c))
    ELSE FilterEntry(f, IF FilterMode(c) = "whitelist" THEN FakeIP ELSE DefaultServer(c))

\* A function on the first numbers is a list.
LEMMA IsSequence ==
  ASSUME NEW n, NEW f, NEW T, n \in Nat, f \in [1..n -> T]
  PROVE  f \in Seq(T)
OBVIOUS

\* The rules of a configuration are those of its filters, of the prevention of leaks, of
\* its own rules, of the modes and of what is left.
LEMMA RulesTogether ==
  ASSUME NEW c, IsFull(c), NEW dns14, NEW R,
         FakeIPEnabled(c) => \A f \in Range(c.fields["dnsFakeIpFilters"]) : RulesOfFilter(c, f) \in Seq(R),
         LeakPreventionRules(c) \in Seq(R),
         \A r \in Range(c.rules) : UserRule(c, dns14, r) \in Seq(R),
         ClashModeRules(c) \in Seq(R), CatchAll(c) \in Seq(R)
  PROVE  /\ FakeIPRules(c) \in Seq(R) /\ UserRules(c, dns14) \in Seq(R)
         /\ FakeIPRules(c) \o LeakPreventionRules(c) \o UserRules(c, dns14)
              \o ClashModeRules(c) \o CatchAll(c) \in Seq(R)
<1> DEFINE filters == c.fields["dnsFakeIpFilters"]
           server == IF FilterMode(c) = "whitelist" THEN FakeIP ELSE DefaultServer(c)
           blocks == [i \in DOMAIN filters |->
                        IF FilterMode(c) = "rule" THEN FilterRule(filters[i], DefaultServer(c))
                                                  ELSE FilterEntry(filters[i], server)]
           users == [i \in DOMAIN c.rules |-> UserRule(c, dns14, c.rules[i])]
<1>1. filters \in Seq(Range(filters)) /\ c.rules \in Seq(Range(c.rules))
  BY DEF IsFull, IsConfig, IsList, FieldNames
<1>2. FakeIPRules(c) \in Seq(R)
  <2>1. CASE ~FakeIPEnabled(c)
    BY <2>1 DEF FakeIPRules
  <2>2. CASE FakeIPEnabled(c)
    <3>1. FakeIPRules(c) = FlattenSeq(blocks)
      BY <2>2 DEF FakeIPRules
    <3>2. \A i \in DOMAIN filters : blocks[i] = RulesOfFilter(c, filters[i]) /\ filters[i] \in Range(filters)
      BY DEF RulesOfFilter, Range
    <3>3. \A i \in DOMAIN filters : blocks[i] \in Seq(R)
      BY <2>2, <3>2
    <3>4. blocks \in Seq(Seq(R))
      <4>1. DOMAIN blocks = 1..Len(filters) /\ Len(filters) \in Nat /\ DOMAIN filters = 1..Len(filters)
        BY <1>1
      <4>2. \A i \in 1..Len(filters) : blocks[i] \in Seq(R)
        BY <3>3, <4>1
      <4>3. blocks = [i \in 1..Len(filters) |-> blocks[i]]
        BY <4>1
      <4> HIDE DEF blocks
      <4>4. blocks \in [1..Len(filters) -> Seq(R)]
        BY <4>2, <4>3
      <4> QED
        BY <4>1, <4>4, IsSequence, Zenon
    <3> HIDE DEF blocks
    <3> QED
      BY <3>1, <3>4, FlattenType
  <2> QED
    BY <2>1, <2>2
<1>3. UserRules(c, dns14) \in Seq(R)
  <2>1. UserRules(c, dns14) = FlattenSeq(users)
    BY DEF UserRules
  <2>2. \A i \in DOMAIN c.rules : users[i] \in Seq(R)
    <3>1. \A i \in DOMAIN c.rules : c.rules[i] \in Range(c.rules)
      BY DEF Range
    <3> QED
      BY <3>1
  <2>3. users \in Seq(Seq(R))
    <3>1. DOMAIN users = 1..Len(c.rules) /\ Len(c.rules) \in Nat /\ DOMAIN c.rules = 1..Len(c.rules)
      BY <1>1
    <3>2. \A i \in 1..Len(c.rules) : users[i] \in Seq(R)
      BY <2>2, <3>1
    <3>3. users = [i \in 1..Len(c.rules) |-> users[i]]
      BY <3>1
    <3> HIDE DEF users
    <3>4. users \in [1..Len(c.rules) -> Seq(R)]
      BY <3>2, <3>3
    <3> QED
      BY <3>1, <3>4, IsSequence, Zenon
  <2> HIDE DEF users
  <2> QED
    BY <2>1, <2>3, FlattenType
<1> QED
  <2> DEFINE a == FakeIPRules(c)
             b == LeakPreventionRules(c)
             e == UserRules(c, dns14)
             g == ClashModeRules(c)
             h == CatchAll(c)
  <2>1. a \in Seq(R) /\ b \in Seq(R) /\ e \in Seq(R) /\ g \in Seq(R) /\ h \in Seq(R)
    BY <1>2, <1>3
  <2> HIDE DEF a, b, e, g, h
  <2>2. a \o b \o e \o g \o h \in Seq(R)
    BY <2>1
  <2> QED
    BY <2>1, <2>2 DEF a, b, e, g, h

LeakKey == <<"rule_set", LeakTag>>

\* The rules there can be of a configuration.
Document(c) ==
    DnsRuleOf(KeysOf(c) \cup {<<"text", f.value>> : f \in Range(c.fields["dnsFakeIpFilters"])},
              {NoServer, FakeIP, DefaultServer(c), ProxyServer(c)} \cup {u.server : u \in Range(c.rules)})

\* What is written for a filter.
OfFilter(c, f, r) ==
    /\ r.clash = "any" /\ r.action = "route" /\ r.server \in {FakeIP, DefaultServer(c)} \ {NoServer}
    /\ \/ r.keys = {<<"text", f.value>>}
       \/ /\ r.keys = Keys(f) /\ (FilterMode(c) = "rule" <=> f.action # "none")
          /\ r.keys = {} => FilterMode(c) = "rule" /\ f.kind = "match"

\* What is written for a rule of the user.
OfUser(c, u, r) ==
    /\ r.clash = "any" /\ ~r.address
    /\ \/ r.action = "respond" /\ r.keys = {}
       \/ /\ r.keys = Keys(u) /\ r.keys # {}
          /\ r.server \in {DefaultServer(c), ProxyServer(c), u.server}
          /\ r.server = NoServer => DefaultServer(c) = NoServer /\ u.server = NoServer

\* What is written for the modes, and against leaks.
OfMode(c, r) ==
    /\ r.keys = {} /\ r.action = "route" /\ r.server # NoServer
    /\ \/ r.clash = "Direct" /\ r.server = DefaultServer(c)
       \/ r.clash = "global" /\ r.server = IF FakeIPEnabled(c) THEN FakeIP ELSE ProxyServer(c)

OfLeak(c, r) ==
    ~FakeIPEnabled(c) /\ ProxyServer(c) # NoServer /\ r = DnsRule({LeakKey}, ProxyServer(c))

OfRest(c, r) ==
    FakeIPEnabled(c) /\ r.keys = {} /\ r.action = "route" /\ r.server = FakeIP /\ r.clash = "any"

Written(c, r) ==
    \/ FakeIPEnabled(c) /\ \E f \in Range(c.fields["dnsFakeIpFilters"]) : OfFilter(c, f, r)
    \/ \E u \in Range(c.rules) : OfUser(c, u, r)
    \/ OfMode(c, r) \/ OfLeak(c, r) \/ OfRest(c, r)

\* A rule of keys and a server, and what becomes of one.
LEMMA RuleIsTyped ==
  ASSUME NEW K, NEW S, NEW keys, NEW server, keys \subseteq K, server \in S
  PROVE  LET r == DnsRule(keys, server)
         IN  /\ r \in DnsRuleOf(K, S) /\ r.keys = keys /\ r.clash = "any" /\ r.address = FALSE
             /\ r.action = "route" /\ r.server = server
BY DEF DnsRule, DnsRuleOf

\* One rule, or none.
LEMMA AtMostOne ==
  ASSUME NEW R, NEW condition \in BOOLEAN, NEW r, condition => r \in R
  PROVE  RulesIf(condition, r) \in Seq(R)
BY DEF RulesIf

\* The rules of a filter.
LEMMA FilterWrites ==
  ASSUME NEW c, IsFull(c), NEW f \in Range(c.fields["dnsFakeIpFilters"])
  PROVE  RulesOfFilter(c, f) \in Seq({r \in Document(c) : OfFilter(c, f, r)})
<1> DEFINE R == {r \in Document(c) : OfFilter(c, f, r)}
           text == {<<"text", f.value>>}
           servers == {FakeIP, DefaultServer(c)}
<1>1. ASSUME NEW server \in servers, server # NoServer, NEW keys,
             \/ keys = text
             \/ /\ keys = Keys(f) /\ (FilterMode(c) = "rule" <=> f.action # "none")
                /\ keys = {} => FilterMode(c) = "rule" /\ f.kind = "match"
      PROVE  DnsRule(keys, server) \in R
  <2>1. DnsRule(keys, server) \in Document(c)
    <3>1. keys \subseteq KeysOf(c) \cup {<<"text", g.value>> : g \in Range(c.fields["dnsFakeIpFilters"])}
      <4>1. Keys(f) \subseteq KeysOf(c)
        BY DEF KeysOf
      <4> QED
        BY <1>1, <4>1
    <3>2. server \in {NoServer, FakeIP, DefaultServer(c), ProxyServer(c)} \cup {u.server : u \in Range(c.rules)}
      OBVIOUS
    <3> QED
      BY <3>1, <3>2, RuleIsTyped DEF Document
  <2>2. OfFilter(c, f, DnsRule(keys, server))
    BY <1>1 DEF OfFilter, DnsRule
  <2> QED
    BY <2>1, <2>2
<1> HIDE DEF R
<1>2. CASE FilterMode(c) = "rule"
  <2> DEFINE server == ActionServer(f.action, DefaultServer(c))
             written == server # NoServer /\ (f.kind = "match" \/ Keys(f) # {})
  <2>1. RulesOfFilter(c, f) = RulesIf(written, DnsRule(Keys(f), server))
    BY <1>2 DEF RulesOfFilter, FilterRule
  <2>2. written => server \in servers /\ f.action # "none"
    BY DEF ActionServer
  <2>3. written => DnsRule(Keys(f), server) \in R
    BY <1>1, <1>2, <2>2
  <2>4. written \in BOOLEAN
    OBVIOUS
  <2> HIDE DEF written, server
  <2> QED
    BY <2>1, <2>3, <2>4, AtMostOne DEF R
<1>3. CASE FilterMode(c) # "rule"
  <2> DEFINE server == IF FilterMode(c) = "whitelist" THEN FakeIP ELSE DefaultServer(c)
             keys == IF f.action = "none" THEN Keys(f) ELSE text
             written == server # NoServer /\ keys # {}
  <2>1. RulesOfFilter(c, f) = RulesIf(written, DnsRule(keys, server))
    BY <1>3 DEF RulesOfFilter, FilterEntry
  <2>2. server \in servers
    OBVIOUS
  <2>3. written => DnsRule(keys, server) \in R
    <3> SUFFICES ASSUME written PROVE DnsRule(keys, server) \in R
      OBVIOUS
    <3>1. keys = text \/ (keys = Keys(f) /\ f.action = "none" /\ keys # {})
      OBVIOUS
    <3> HIDE DEF keys, text, servers
    <3> QED
      BY <1>1, <1>3, <2>2, <3>1
  <2>4. written \in BOOLEAN
    OBVIOUS
  <2> HIDE DEF written, server, keys
  <2> QED
    BY <2>1, <2>3, <2>4, AtMostOne DEF R
<1> QED
  BY <1>2, <1>3

\* The rules of a rule of the user.
LEMMA UserWrites ==
  ASSUME NEW c, NEW dns14, NEW u \in Range(c.rules)
  PROVE  UserRule(c, dns14, u) \in Seq({r \in Document(c) : OfUser(c, u, r)})
<1> DEFINE R == {r \in Document(c) : OfUser(c, u, r)}
           server == IF u.server = NoServer THEN DefaultServer(c) ELSE u.server
           respond == [DnsRule({}, NoServer) EXCEPT !.action = "respond"]
           K == KeysOf(c) \cup {<<"text", f.value>> : f \in Range(c.fields["dnsFakeIpFilters"])}
           S == {NoServer, FakeIP, DefaultServer(c), ProxyServer(c)} \cup {v.server : v \in Range(c.rules)}
<1>1. Keys(u) \subseteq K /\ server \in S /\ ProxyServer(c) \in S /\ NoServer \in S /\ Document(c) = DnsRuleOf(K, S)
  BY DEF Document, KeysOf
<1> HIDE DEF K, S
<1>2. ASSUME NEW to \in S, to \in {DefaultServer(c), ProxyServer(c), u.server}, Keys(u) # {},
             to = NoServer => DefaultServer(c) = NoServer /\ u.server = NoServer
      PROVE  DnsRule(Keys(u), to) \in R /\ [DnsRule(Keys(u), to) EXCEPT !.action = "evaluate"] \in R
  <2>1. /\ DnsRule(Keys(u), to) \in Document(c)
        /\ [DnsRule(Keys(u), to) EXCEPT !.action = "evaluate"] \in Document(c)
    BY <1>1 DEF DnsRule, DnsRuleOf
  <2>2. OfUser(c, u, DnsRule(Keys(u), to)) /\ OfUser(c, u, [DnsRule(Keys(u), to) EXCEPT !.action = "evaluate"])
    BY <1>2 DEF OfUser, DnsRule
  <2> QED
    BY <2>1, <2>2
<1>3. respond \in R
  <2>1. respond \in Document(c)
    BY <1>1 DEF DnsRule, DnsRuleOf
  <2>2. OfUser(c, u, respond)
    BY DEF OfUser, DnsRule
  <2> QED
    BY <2>1, <2>2
<1> HIDE DEF R
<1>4. CASE Keys(u) = {}
  BY <1>4 DEF UserRule
<1>5. CASE Keys(u) # {} /\ dns14 /\ server = DefaultServer(c) /\ server # NoServer /\ ProxyServer(c) # NoServer
  <2> DEFINE ask == [DnsRule(Keys(u), server) EXCEPT !.action = "evaluate"]
             route == DnsRule(Keys(u), ProxyServer(c))
  <2>1. UserRule(c, dns14, u) = <<ask, respond, respond, route>>
    BY <1>5 DEF UserRule, Evaluated
  <2>2. ask \in R /\ route \in R
    BY <1>1, <1>2, <1>5
  <2> HIDE DEF ask, route, respond
  <2> QED
    BY <1>3, <2>1, <2>2 DEF R
<1>6. CASE Keys(u) # {} /\ ~(dns14 /\ server = DefaultServer(c) /\ server # NoServer /\ ProxyServer(c) # NoServer)
  <2>1. UserRule(c, dns14, u) = <<DnsRule(Keys(u), server)>>
    BY <1>6 DEF UserRule
  <2>2. DnsRule(Keys(u), server) \in R
    BY <1>1, <1>2, <1>6
  <2> QED
    BY <2>1, <2>2 DEF R
<1> QED
  BY <1>4, <1>5, <1>6

\* The rules against leaks, of the modes and of the rest.
LEMMA OthersWrite ==
  ASSUME NEW c, IsFull(c)
  PROVE  /\ LeakPreventionRules(c) \in Seq({r \in Document(c) : OfLeak(c, r)})
         /\ ClashModeRules(c) \in Seq({r \in Document(c) : OfMode(c, r)})
         /\ CatchAll(c) \in Seq({r \in Document(c) : OfRest(c, r)})
<1> DEFINE K == KeysOf(c) \cup {<<"text", f.value>> : f \in Range(c.fields["dnsFakeIpFilters"])}
           S == {NoServer, FakeIP, DefaultServer(c), ProxyServer(c)} \cup {v.server : v \in Range(c.rules)}
<1>1. /\ {LeakKey} \subseteq K /\ {} \subseteq K /\ Document(c) = DnsRuleOf(K, S)
      /\ NoServer \in S /\ FakeIP \in S /\ DefaultServer(c) \in S /\ ProxyServer(c) \in S
  <2>1. LeakKey \in KeysOf(c)
    BY DEF KeysOf, LeakKey
  <2>2. Document(c) = DnsRuleOf(K, S)
    BY DEF Document
  <2> QED
    BY <2>1, <2>2
<1> HIDE DEF K, S
<1>2. FakeIPEnabled(c) \in BOOLEAN
  BY DEF IsFull, IsConfig, FakeIPEnabled, FieldNames
<1>3. LeakPreventionRules(c) \in Seq({r \in Document(c) : OfLeak(c, r)})
  <2> DEFINE R == {r \in Document(c) : OfLeak(c, r)}
             written == ~FakeIPEnabled(c) /\ ProxyServer(c) # NoServer
             rule == DnsRule({LeakKey}, ProxyServer(c))
  <2>1. written => rule \in R
    <3>1. rule \in Document(c)
      BY <1>1 DEF DnsRule, DnsRuleOf
    <3>2. written => OfLeak(c, rule)
      BY DEF OfLeak
    <3> QED
      BY <3>1, <3>2
  <2>2. LeakPreventionRules(c) = RulesIf(written, rule) /\ written \in BOOLEAN
    BY <1>2 DEF LeakPreventionRules, LeakKey
  <2> HIDE DEF written, rule, R
  <2> QED
    BY <2>1, <2>2, AtMostOne DEF R
<1>4. ClashModeRules(c) \in Seq({r \in Document(c) : OfMode(c, r)})
  <2> DEFINE R == {r \in Document(c) : OfMode(c, r)}
             global == IF FakeIPEnabled(c) THEN FakeIP ELSE ProxyServer(c)
             direct == [DnsRule({}, DefaultServer(c)) EXCEPT !.clash = "Direct"]
             other == [DnsRule({}, global) EXCEPT !.clash = "global"]
             first == DefaultServer(c) # NoServer
             second == global # NoServer
  <2>1. ASSUME first PROVE direct \in R
    <3>1. direct \in Document(c)
      BY <1>1 DEF DnsRule, DnsRuleOf
    <3>2. OfMode(c, direct)
      BY <2>1 DEF OfMode, DnsRule
    <3> QED
      BY <3>1, <3>2
  <2>2. ASSUME second PROVE other \in R
    <3>1. other \in Document(c)
      <4>1. global \in S
        BY <1>1
      <4> HIDE DEF global
      <4> QED
        BY <1>1, <4>1 DEF DnsRule, DnsRuleOf
    <3>2. OfMode(c, other)
      BY <2>2 DEF OfMode, DnsRule
    <3> QED
      BY <3>1, <3>2
  <2>3. ClashModeRules(c) = RulesIf(first, direct) \o RulesIf(second, other)
    BY DEF ClashModeRules
  <2>4. first \in BOOLEAN /\ second \in BOOLEAN
    OBVIOUS
  <2> HIDE DEF first, second, direct, other, R
  <2>5. RulesIf(first, direct) \in Seq(R) /\ RulesIf(second, other) \in Seq(R)
    BY <2>1, <2>2, <2>4, AtMostOne
  <2> QED
    BY <2>3, <2>5 DEF R
<1>5. CatchAll(c) \in Seq({r \in Document(c) : OfRest(c, r)})
  <2> DEFINE R == {r \in Document(c) : OfRest(c, r)}
             written == FakeIPEnabled(c) /\ FilterMode(c) = "blacklist"
             rule == [DnsRule({}, FakeIP) EXCEPT !.address = TRUE]
  <2>1. written => rule \in R
    <3>1. rule \in Document(c)
      BY <1>1 DEF DnsRule, DnsRuleOf
    <3>2. FakeIPEnabled(c) => OfRest(c, rule)
      BY DEF OfRest, DnsRule
    <3> QED
      BY <3>1, <3>2
  <2>2. CatchAll(c) = RulesIf(written, rule) /\ written \in BOOLEAN
    BY <1>2 DEF CatchAll
  <2> HIDE DEF written, rule, R
  <2> QED
    BY <2>1, <2>2, AtMostOne DEF R
<1> QED
  BY <1>3, <1>4, <1>5

\* What is merged: the rules of a configuration one behind the other.
AllRules(c, dns14) ==
    FakeIPRules(c) \o LeakPreventionRules(c) \o UserRules(c, dns14) \o ClashModeRules(c) \o CatchAll(c)

\* All rules of a document are written for something in the configuration.
LEMMA RulesAreWritten ==
  ASSUME NEW c, IsFull(c), NEW dns14
  PROVE  AllRules(c, dns14) \in Seq({r \in Document(c) : Written(c, r)})
<1> DEFINE R == {r \in Document(c) : Written(c, r)}
<1>1. ASSUME NEW P, P \subseteq R, NEW s \in Seq(P) PROVE s \in Seq(R)
  BY <1>1, SeqMonotonic
<1>2. ASSUME FakeIPEnabled(c), NEW f \in Range(c.fields["dnsFakeIpFilters"])
      PROVE  RulesOfFilter(c, f) \in Seq(R)
  <2>1. {r \in Document(c) : OfFilter(c, f, r)} \subseteq R
    BY <1>2 DEF Written
  <2> QED
    BY <1>1, <2>1, FilterWrites
<1>3. ASSUME NEW u \in Range(c.rules) PROVE UserRule(c, dns14, u) \in Seq(R)
  <2>1. {r \in Document(c) : OfUser(c, u, r)} \subseteq R
    BY DEF Written
  <2> QED
    BY <1>1, <2>1, UserWrites
<1>4. LeakPreventionRules(c) \in Seq(R) /\ ClashModeRules(c) \in Seq(R) /\ CatchAll(c) \in Seq(R)
  <2>1. /\ {r \in Document(c) : OfLeak(c, r)} \subseteq R
        /\ {r \in Document(c) : OfMode(c, r)} \subseteq R
        /\ {r \in Document(c) : OfRest(c, r)} \subseteq R
    BY DEF Written
  <2> HIDE DEF R
  <2> QED
    BY <1>1, <2>1, OthersWrite
<1> HIDE DEF R
<1> QED
  BY <1>2, <1>3, <1>4, RulesTogether DEF R, AllRules

-----------------------------------------------------------------------------
(* References of the rules of names *)

\* A server that is named has an address.
LEMMA NamedIsServed ==
  ASSUME NEW servers, DOMAIN servers \subseteq Nat, NEW among, among \subseteq Served(servers),
         FirstName(servers, among) # NoServer
  PROVE  \E i \in Served(servers) : FirstName(servers, among) = ServerName(servers, i)
<1>1. among # {} /\ among \subseteq Nat
  BY DEF FirstName, Served
<1>2. Min(among) \in among
  BY <1>1, First
<1> QED
  BY <1>1, <1>2 DEF FirstName

\* What refers to a server or a rule set has one.
LEMMA DnsRefersOnConfigs ==
  ASSUME TypeOK, IsFull(Current)
  PROVE  DnsReferencesDefined
<1> DEFINE c == Current
           d == SingBoxDns(c, TRUE)
           own == {c.rules[i].server : i \in DOMAIN c.rules}
           outbounds == SingBox.outbounds
           servers == DnsServers(c, Detours(Selection))
           tags == {servers[i].tag : i \in DOMAIN servers}
                     \cup (IF FakeIPEnabled(c) THEN {FakeIP} ELSE {})
           Fine(r) == /\ r.action # "respond" => r.server \in d.tags \cup own
                      /\ r.server = NoServer /\ r.action # "respond" => DefaultServer(c) = NoServer
                      /\ \A k \in r.keys : k[1] = "rule_set" /\ k[2] \in BuiltInTags => k[2] \in d.ruleSets
           R == {r \in Document(c) : Fine(r)}
<1>1. /\ d.servers = servers /\ d.tags = tags /\ d.rules = DnsRules(c, TRUE) /\ d.final = Final(c)
      /\ d.resolver = Resolver(c) /\ DnsRuleSets(c) \subseteq d.ruleSets
  BY DEF SingBoxDns
<1>2. DOMAIN c.servers \subseteq Nat /\ DOMAIN servers = Served(c.servers)
  BY DEF IsFull, IsConfig, DnsServers
<1>3. \A i \in Served(c.servers) : servers[i].tag = ServerName(c.servers, i)
  BY DEF DnsServers
<1>4. \A among \in SUBSET Served(c.servers) :
         FirstName(c.servers, among) # NoServer => FirstName(c.servers, among) \in d.tags
  <2> SUFFICES ASSUME NEW among \in SUBSET Served(c.servers), FirstName(c.servers, among) # NoServer
               PROVE  FirstName(c.servers, among) \in d.tags
    OBVIOUS
  <2> HIDE DEF servers, c, d
  <2>1. PICK i \in Served(c.servers) : FirstName(c.servers, among) = ServerName(c.servers, i)
    BY <1>2, NamedIsServed
  <2> QED
    BY <1>1, <1>2, <1>3, <2>1
<1>5. /\ DefaultServer(c) # NoServer => DefaultServer(c) \in d.tags
      /\ ProxyServer(c) # NoServer => ProxyServer(c) \in d.tags
      /\ FakeIPEnabled(c) => FakeIP \in d.tags
  <2>1. \A role : {i \in Served(c.servers) : c.servers[i].role = role} \in SUBSET Served(c.servers)
    OBVIOUS
  <2>2. FakeIPEnabled(c) => FakeIP \in d.tags
    BY <1>1
  <2> HIDE DEF d, c
  <2> QED
    BY <1>4, <2>1, <2>2 DEF DefaultServer, ProxyServer, FirstOf
<1> HIDE DEF servers, tags
<1>6. ASSUME NEW r \in Document(c), Written(c, r) PROVE Fine(r)
  <2>1. ASSUME FakeIPEnabled(c), NEW f \in Range(c.fields["dnsFakeIpFilters"]), OfFilter(c, f, r)
        PROVE  Fine(r)
    <3>1. r.server # NoServer /\ r.server \in d.tags
      BY <1>5, <2>1 DEF OfFilter
    <3>2. ASSUME NEW k \in r.keys, k[1] = "rule_set", k[2] \in BuiltInTags PROVE k[2] \in DnsRuleSets(c)
      <4>1. r.keys # {<<"text", f.value>>}
        BY <3>2
      <4>2. k \in Keys(f) /\ (FilterMode(c) = "rule" <=> f.action # "none")
        BY <2>1, <4>1 DEF OfFilter
      <4> QED
        BY <2>1, <3>2, <4>2 DEF DnsRuleSets
    <3> QED
      BY <1>1, <3>1, <3>2
  <2>2. ASSUME NEW u \in Range(c.rules), OfUser(c, u, r) PROVE Fine(r)
    <3>1. u.server \in own
      BY DEF Range
    <3>2. CASE r.action = "respond" /\ r.keys = {}
      BY <3>2
    <3>3. CASE r.keys = Keys(u) /\ r.server \in {DefaultServer(c), ProxyServer(c), u.server}
               /\ (r.server = NoServer => DefaultServer(c) = NoServer /\ u.server = NoServer)
      <4>1. r.server \in d.tags \cup own
        BY <1>5, <3>1, <3>3
      <4>2. \A k \in r.keys : k[1] = "rule_set" /\ k[2] \in BuiltInTags => k[2] \in DnsRuleSets(c)
        BY <3>3 DEF DnsRuleSets
      <4> QED
        BY <1>1, <3>3, <4>1, <4>2
    <3> QED
      BY <2>2, <3>2, <3>3 DEF OfUser
  <2>3. ASSUME OfMode(c, r) PROVE Fine(r)
    <3>1. r.server \in d.tags /\ r.server # NoServer /\ r.keys = {}
      BY <1>5, <2>3 DEF OfMode
    <3> QED
      BY <3>1
  <2>4. ASSUME OfLeak(c, r) PROVE Fine(r)
    <3>1. r.server = ProxyServer(c) /\ r.server # NoServer /\ r.keys = {LeakKey}
      BY <2>4 DEF OfLeak, DnsRule
    <3>2. LeakTag \in DnsRuleSets(c) /\ LeakKey[2] = LeakTag
      BY <2>4, LeakTagIsBuiltIn DEF OfLeak, DnsRuleSets, LeakKey
    <3> QED
      BY <1>1, <1>5, <3>1, <3>2
  <2>5. ASSUME OfRest(c, r) PROVE Fine(r)
    <3>1. r.server = FakeIP /\ r.keys = {} /\ FakeIPEnabled(c)
      BY <2>5 DEF OfRest
    <3>2. FakeIP # NoServer
      BY DEF FakeIP, NoServer
    <3> QED
      BY <1>5, <3>1, <3>2
  <2> HIDE DEF Fine
  <2> QED
    BY <1>6, <2>1, <2>2, <2>3, <2>4, <2>5 DEF Written
<1>7. d.rules \in Seq(R)
  <2>1. AllRules(c, TRUE) \in Seq({r \in Document(c) : Written(c, r)})
    BY RulesAreWritten
  <2>2. {r \in Document(c) : Written(c, r)} \subseteq R
    BY <1>6
  <2>3. AllRules(c, TRUE) \in Seq(R)
    <3> HIDE DEF R
    <3> QED
      BY <2>1, <2>2, SeqMonotonic
  <2>4. JoinClosed(R)
    <3> SUFFICES ASSUME NEW a \in R, NEW b \in R, a.keys # {}, b.keys # {},
                        [a EXCEPT !.keys = b.keys] = b
                 PROVE  [a EXCEPT !.keys = a.keys \cup b.keys] \in R
      BY DEF JoinClosed
    <3> DEFINE both == [a EXCEPT !.keys = a.keys \cup b.keys]
    <3>1. both \in Document(c)
      BY DEF Document, DnsRuleOf
    <3>2. both.keys = a.keys \cup b.keys /\ both.action = a.action /\ both.server = a.server
      BY DEF Document, DnsRuleOf
    <3>3. b.action = a.action /\ b.server = a.server
      BY DEF Document, DnsRuleOf
    <3> HIDE DEF both, d, own
    <3>4. Fine(both)
      BY <3>2, <3>3
    <3> QED
      BY <3>1, <3>4 DEF both
  <2>5. R \subseteq Document(c)
    OBVIOUS
  <2> HIDE DEF R
  <2>6. Merged(AllRules(c, TRUE)) \in Seq(R)
    BY <2>3, <2>4, <2>5, MergedType DEF Document
  <2>7. d.rules = Merged(AllRules(c, TRUE))
    BY <1>1 DEF DnsRules, AllRules
  <2> QED
    BY <2>6, <2>7
<1>8. \A i \in DOMAIN d.rules : Fine(d.rules[i])
  <2>1. \A i \in DOMAIN d.rules : d.rules[i] \in R
    <3> HIDE DEF R, d
    <3> QED
      BY <1>7
  <2> QED
    BY <2>1
<1>9. d.final \in d.tags \/ {DefaultServer(c), ProxyServer(c)} = {NoServer}
  BY <1>1, <1>5 DEF Final
<1>10. d.resolver \in d.tags \/ DOMAIN d.servers = {}
  <2>1. CASE DefaultServer(c) # NoServer
    BY <1>1, <1>5, <2>1 DEF Resolver
  <2>2. CASE DefaultServer(c) = NoServer /\ Served(c.servers) # {}
    <3>1. d.resolver = ServerName(c.servers, Min(Served(c.servers)))
      BY <1>1, <2>2 DEF Resolver, FirstName
    <3>2. Min(Served(c.servers)) \in Served(c.servers)
      BY <1>2, <2>2, First DEF Served
    <3> QED
      BY <1>1, <1>2, <1>3, <3>1, <3>2 DEF tags
  <2>3. CASE Served(c.servers) = {}
    BY <1>1, <1>2, <2>3
  <2> QED
    BY <2>1, <2>2, <2>3
<1>11. ASSUME NEW i \in DOMAIN d.servers, c.servers[i].detour = NoTag
       PROVE  d.servers[i].detours \subseteq outbounds \cup {NoTag}
  <2>1. Detours(Selection) \subseteq outbounds
    BY DetourFollows DEF DetourDefined, SingBox
  <2>2. d.servers[i].detours \in {Detours(Selection), {NoTag}}
    <3>1. i \in Served(c.servers) /\ d.servers[i] = servers[i]
      BY <1>1, <1>2
    <3>2. servers[i].detours \in {Detours(Selection), {c.servers[i].detour}}
      <4> HIDE DEF c
      <4> QED
        BY <3>1 DEF servers, DnsServers
    <3> HIDE DEF c, d
    <3> QED
      BY <1>11, <3>1, <3>2
  <2> QED
    BY <2>1, <2>2
<1> HIDE DEF d, c, own, outbounds
<1> QED
  BY <1>8, <1>9, <1>10, <1>11 DEF DnsReferencesDefined, c, d, own, outbounds

\* Whatever is saved and whatever an older release left, what the server adds to the rules
\* of names refers to something in the document.
THEOREM DnsRefersToWhatIsThere == ConfigSpec => []DnsReferencesDefined
<1>1. TypeOK /\ IsConfig(config) => DnsReferencesDefined
  BY BackfilledIsConfig, DnsRefersOnConfigs DEF Current, IsFull
<1> QED
  BY <1>1, ConfigCorrect, PTL

-----------------------------------------------------------------------------
(* What is answered *)

DocumentOf(c, dns14) == [rules |-> DnsRules(c, dns14), final |-> Final(c)]

\* The rules of a document before they are merged are rules, and so they are afterwards.
LEMMA RulesAreTyped ==
  ASSUME NEW c, IsFull(c), NEW dns14
  PROVE  /\ AllRules(c, dns14) \in Seq(Document(c))
         /\ DnsRules(c, dns14) \in Seq(Document(c)) /\ DnsRules(c, dns14) = Merged(AllRules(c, dns14))
<1>1. AllRules(c, dns14) \in Seq(Document(c))
  <2> DEFINE P == {r \in Document(c) : Written(c, r)}
  <2>1. AllRules(c, dns14) \in Seq(P) /\ P \subseteq Document(c)
    BY RulesAreWritten
  <2> HIDE DEF P
  <2> QED
    BY <2>1, SeqMonotonic
<1>2. Merged(AllRules(c, dns14)) \in Seq(Document(c))
  <2>1. JoinClosed(Document(c))
    BY SilentIsClosed DEF Document
  <2> QED
    BY <1>1, <2>1, MergedType DEF Document
<1> QED
  BY <1>1, <1>2 DEF DnsRules, AllRules

\* The first rule that is not silent answers, if it is a route.
LEMMA FirstRouteAnswers ==
  ASSUME NEW c, IsFull(c), NEW dns14, NEW q, NEW p \in 1..Len(AllRules(c, dns14)),
         \A i \in 1..(p - 1) : AllRules(c, dns14)[i] \in Silent(Document(c), q),
         AllRules(c, dns14)[p].action = "route", Applies(AllRules(c, dns14)[p], q)
  PROVE  AnsweredBy(DocumentOf(c, dns14), q) = AllRules(c, dns14)[p].server
<1> DEFINE K == KeysOf(c) \cup {<<"text", f.value>> : f \in Range(c.fields["dnsFakeIpFilters"])}
           S == {NoServer, FakeIP, DefaultServer(c), ProxyServer(c)} \cup {u.server : u \in Range(c.rules)}
           R == DnsRuleOf(K, S)
           s == AllRules(c, dns14)
           out == DnsRules(c, dns14)
           final == Final(c)
<1>1. s \in Seq(R) /\ out \in Seq(R) /\ out = Merged(s)
  BY RulesAreTyped DEF Document
<1>2. JoinClosed(R) /\ JoinClosed(Silent(R, q)) /\ Silent(R, q) \subseteq R
  BY SilentIsClosed DEF Silent
<1>3. /\ p \in 1..Len(s) /\ \A i \in 1..(p - 1) : s[i] \in Silent(R, q)
      /\ s[p].action = "route" /\ Applies(s[p], q)
  BY DEF Document
<1> HIDE DEF K, S, s, out, final
<1>4. PICK j \in 1..Len(Merged(s)) :
         /\ \A i \in 1..(j - 1) : Merged(s)[i] \in Silent(R, q)
         /\ Grown(s[p], Merged(s)[j])
  BY <1>1, <1>2, <1>3, RoutePlaced
<1>5. s[p] \in R /\ out[j] \in R /\ j \in 1..Len(out)
  BY <1>1, <1>3, <1>4
<1>6. Applies(out[j], q) /\ out[j].action = "route" /\ out[j].server = s[p].server
  BY <1>1, <1>3, <1>4, <1>5, GrownApplies
<1>7. AnsweredBy([rules |-> out, final |-> final], q) = out[j].server
  <2>1. \A i \in 1..(j - 1) : out[i] \in Silent(R, q)
    BY <1>1, <1>4
  <2> QED
    BY <1>1, <1>5, <1>6, <2>1, RouteAnswers
<1> QED
  BY <1>6, <1>7 DEF DocumentOf, out, final, s

\* No matcher is a text.
LEMMA KeysAreNoText ==
  ASSUME NEW c, NEW k \in KeysOf(c)
  PROVE  k[1] # "text"
BY DEF KeysOf, Keys

\* A proxy server has the role of one.
LEMMA ProxyIsProxy ==
  ASSUME NEW c, IsFull(c), ProxyServer(c) # NoServer
  PROVE  ProxyServer(c)[1] = "proxy"
<1> DEFINE proxies == {i \in Served(c.servers) : c.servers[i].role = "proxy"}
<1>1. ProxyServer(c) = FirstName(c.servers, proxies)
  BY DEF ProxyServer, FirstOf
<1>2. proxies # {} /\ proxies \subseteq Nat
  BY <1>1 DEF FirstName, Served, IsFull, IsConfig
<1>3. Min(proxies) \in proxies /\ ProxyServer(c) = ServerName(c.servers, Min(proxies))
  <2> HIDE DEF proxies
  <2> QED
    BY <1>1, <1>2, First DEF FirstName
<1> HIDE DEF proxies
<1>4. c.servers[Min(proxies)].role = "proxy"
  BY <1>3 DEF proxies
<1> QED
  BY <1>3, <1>4 DEF ServerName

\* What is added behind a list leaves its first element where it is.
LEMMA HeadStays ==
  ASSUME NEW R, NEW x, NEW y, x \in Seq(R), y \in Seq(R), Len(x) >= 1
  PROVE  /\ x \o y \in Seq(R) /\ Len(x \o y) \in Nat /\ Len(x \o y) >= 1
         /\ (x \o y)[1] = x[1]
OBVIOUS

\* Without invented addresses, the rule against leaks comes first.
LEMMA LeakComesFirst ==
  ASSUME NEW c, IsFull(c), NEW dns14, ~FakeIPEnabled(c), ProxyServer(c) # NoServer
  PROVE  /\ 1 \in 1..Len(AllRules(c, dns14))
         /\ AllRules(c, dns14)[1] = DnsRule({LeakKey}, ProxyServer(c))
<1> DEFINE R == {r \in Document(c) : Written(c, r)}
           a == FakeIPRules(c)
           b == LeakPreventionRules(c)
           e == UserRules(c, dns14)
           g == ClashModeRules(c)
           h == CatchAll(c)
           r1 == DnsRule({LeakKey}, ProxyServer(c))
<1>1. a = <<>> /\ b = <<r1>>
  BY DEF FakeIPRules, LeakPreventionRules, RulesIf, LeakKey
<1>2. e \in Seq(Document(c)) /\ g \in Seq(Document(c)) /\ h \in Seq(Document(c)) /\ b \in Seq(Document(c))
  <2>1. ASSUME NEW u \in Range(c.rules) PROVE UserRule(c, dns14, u) \in Seq(Document(c))
    <3> DEFINE P == {r \in Document(c) : OfUser(c, u, r)}
    <3>1. UserRule(c, dns14, u) \in Seq(P) /\ P \subseteq Document(c)
      BY UserWrites
    <3> HIDE DEF P
    <3> QED
      BY <3>1, SeqMonotonic
  <2>2. g \in Seq(Document(c)) /\ h \in Seq(Document(c)) /\ b \in Seq(Document(c))
    <3> DEFINE P1 == {r \in Document(c) : OfLeak(c, r)}
               P2 == {r \in Document(c) : OfMode(c, r)}
               P3 == {r \in Document(c) : OfRest(c, r)}
    <3>1. b \in Seq(P1) /\ g \in Seq(P2) /\ h \in Seq(P3)
      BY OthersWrite
    <3>2. P1 \subseteq Document(c) /\ P2 \subseteq Document(c) /\ P3 \subseteq Document(c)
      OBVIOUS
    <3> HIDE DEF P1, P2, P3, b, g, h
    <3> QED
      BY <3>1, <3>2, SeqMonotonic
  <2>3. e \in Seq(Document(c))
    BY <2>1, <2>2, RulesTogether
  <2> QED
    BY <2>2, <2>3
<1>3. AllRules(c, dns14) = a \o b \o e \o g \o h
  BY DEF AllRules
<1> HIDE DEF a, b, e, g, h, r1
<1>4. b[1] = r1 /\ Len(b) = 1
  BY <1>1
<1>5. <<>> \o b = b
  BY <1>2, ConcatEmptySeq
<1>6. AllRules(c, dns14) = b \o e \o g \o h
  BY <1>1, <1>3, <1>5
<1>7. Len(b \o e) >= 1 /\ (b \o e)[1] = r1 /\ b \o e \in Seq(Document(c))
  <2>1. Len(b) >= 1
    BY <1>4
  <2>2. /\ b \o e \in Seq(Document(c)) /\ Len(b \o e) >= 1
        /\ (b \o e)[1] = b[1]
    <3> DEFINE D == Document(c)
    <3>1. b \in Seq(D) /\ e \in Seq(D)
      BY <1>2
    <3> HIDE DEF D
    <3>2. b \o e \in Seq(D) /\ Len(b \o e) >= 1 /\ (b \o e)[1] = b[1]
      BY <2>1, <3>1, HeadStays
    <3> QED
      BY <3>2 DEF D
  <2> QED
    BY <1>4, <2>2
<1>8. Len(b \o e \o g) >= 1 /\ (b \o e \o g)[1] = r1 /\ b \o e \o g \in Seq(Document(c))
  BY <1>2, <1>7, HeadStays
<1>9. Len(b \o e \o g \o h) >= 1 /\ (b \o e \o g \o h)[1] = r1 /\ Len(b \o e \o g \o h) \in Nat
  BY <1>2, <1>8, HeadStays
<1> QED
  BY <1>6, <1>9 DEF r1

\* Who asks for a foreign name and said nothing of it is not answered by a default server.
LEMMA NoLeakOnConfigs ==
  ASSUME IsFull(Current)
  PROVE  NoLeak
<1> DEFINE c == Current
           filters == c.fields["dnsFakeIpFilters"]
           spoken == (UNION {Keys(c.rules[i]) : i \in DOMAIN c.rules})
                        \cup IF FakeIPEnabled(c) THEN UNION {Keys(f) : f \in Range(filters)} ELSE {}
           matchAll == FakeIPEnabled(c) /\ \E f \in Range(filters) : f.kind = "match"
<1> SUFFICES ASSUME ProxyServer(c) # NoServer, ~matchAll, NEW dns14 \in BOOLEAN, NEW q \in Queries(c),
                    LeakKey \in q.keys, q.mode # "Direct" \/ ~FakeIPEnabled(c),
                    q.keys \cap spoken = {} \/ ~FakeIPEnabled(c)
             PROVE  AnsweredBy(DocumentOf(c, dns14), q)[1] # "default"
  BY DEF NoLeak, DocumentOf, LeakKey
<1>1. q.keys \subseteq KeysOf(c)
  BY DEF Queries
<1>2. ProxyServer(c)[1] = "proxy"
  BY ProxyIsProxy
<1>3. CASE ~FakeIPEnabled(c)
  <2> DEFINE s == AllRules(c, dns14)
             r == DnsRule({LeakKey}, ProxyServer(c))
  <2>1. 1 \in 1..Len(s) /\ s[1] = r
    BY <1>3, LeakComesFirst
  <2>2. r.action = "route" /\ Applies(r, q) /\ r.server = ProxyServer(c)
    BY DEF DnsRule, Applies
  <2>3. \A i \in 1..(1 - 1) : s[i] \in Silent(Document(c), q)
    OBVIOUS
  <2> HIDE DEF s, r, c
  <2>4. AnsweredBy(DocumentOf(c, dns14), q) = s[1].server
    BY <2>1, <2>2, <2>3, FirstRouteAnswers DEF s, c
  <2> QED
    BY <1>2, <2>1, <2>2, <2>4
<1>4. CASE FakeIPEnabled(c)
  <2> DEFINE Fine(r) == r.action # "respond" /\ Applies(r, q)
                        => r.action = "route" /\ r.server[1] # "default"
             R == {r \in Document(c) : Fine(r)}
             out == DnsRules(c, dns14)
  <2>1. ASSUME NEW r \in Document(c), Written(c, r) PROVE Fine(r)
    <3>1. ASSUME NEW f \in Range(filters), OfFilter(c, f, r) PROVE ~Applies(r, q)
      <4>1. f.kind # "match"
        BY <1>4
      <4>2. r.keys # {}
        BY <3>1, <4>1 DEF OfFilter
      <4>3. r.keys \cap q.keys = {}
        <5>1. CASE r.keys = {<<"text", f.value>>}
          BY <1>1, <5>1, KeysAreNoText
        <5>2. CASE r.keys = Keys(f)
          BY <1>4, <5>2
        <5> QED
          BY <3>1, <5>1, <5>2 DEF OfFilter
      <4> QED
        BY <4>2, <4>3 DEF Applies
    <3>2. ASSUME NEW u \in Range(c.rules), OfUser(c, u, r) PROVE Fine(r)
      <4>1. CASE r.action = "respond"
        BY <4>1
      <4>2. CASE r.keys = Keys(u) /\ r.keys # {}
        <5>1. Keys(u) \subseteq spoken
          BY DEF Range
        <5>2. r.keys \cap q.keys = {}
          BY <1>4, <4>2, <5>1
        <5> QED
          BY <4>2, <5>2 DEF Applies
      <4> QED
        BY <3>2, <4>1, <4>2 DEF OfUser
    <3>3. ASSUME OfMode(c, r) PROVE Fine(r)
      <4>1. CASE r.clash = "Direct"
        BY <1>4, <4>1 DEF Applies
      <4>2. CASE r.server = FakeIP /\ r.action = "route"
        BY <4>2 DEF FakeIP
      <4> QED
        BY <1>4, <3>3, <4>1, <4>2 DEF OfMode
    <3>4. ASSUME OfRest(c, r) PROVE Fine(r)
      BY <3>4 DEF OfRest, FakeIP
    <3>5. ~OfLeak(c, r)
      BY <1>4 DEF OfLeak
    <3> HIDE DEF Fine, filters
    <3>6. (\E f \in Range(filters) : OfFilter(c, f, r)) => Fine(r)
      BY <3>1 DEF Fine
    <3> QED
      BY <2>1, <3>2, <3>3, <3>4, <3>5, <3>6 DEF Written, filters
  <2>2. JoinClosed(R) /\ R \subseteq Document(c)
    <3> SUFFICES ASSUME NEW a \in R, NEW b \in R, a.keys # {}, b.keys # {},
                        [a EXCEPT !.keys = b.keys] = b
                 PROVE  [a EXCEPT !.keys = a.keys \cup b.keys] \in R
      BY DEF JoinClosed
    <3> DEFINE both == [a EXCEPT !.keys = a.keys \cup b.keys]
    <3>1. both \in Document(c)
      BY DEF Document, DnsRuleOf
    <3>2. /\ both.keys = a.keys \cup b.keys /\ both.action = a.action /\ both.server = a.server
          /\ both.clash = a.clash /\ both.address = a.address
      BY DEF Document, DnsRuleOf
    <3>3. b.action = a.action /\ b.server = a.server /\ b.clash = a.clash /\ b.address = a.address
      BY DEF Document, DnsRuleOf
    <3> HIDE DEF both, c
    <3>4. Applies(both, q) => Applies(a, q) \/ Applies(b, q)
      BY <3>2, <3>3 DEF Applies
    <3>5. Fine(both)
      BY <3>2, <3>3, <3>4
    <3> QED
      BY <3>1, <3>5 DEF both
  <2>3. out \in Seq(R)
    <3> DEFINE P == {r \in Document(c) : Written(c, r)}
    <3>1. AllRules(c, dns14) \in Seq(P) /\ P \subseteq R
      BY <2>1, RulesAreWritten
    <3> HIDE DEF P, R
    <3>2. AllRules(c, dns14) \in Seq(R)
      BY <3>1, SeqMonotonic
    <3>3. Merged(AllRules(c, dns14)) \in Seq(R)
      BY <2>2, <3>2, MergedType DEF Document
    <3> QED
      BY <3>3, RulesAreTyped
  <2>4. \A i \in DOMAIN out : Fine(out[i])
    <3>1. \A i \in DOMAIN out : out[i] \in R
      <4> HIDE DEF R, out
      <4> QED
        BY <2>3
    <3> QED
      BY <3>1
  <2> DEFINE d == DocumentOf(c, dns14)
             asked(i) == {k \in 1..(i - 1) : d.rules[k].action = "evaluate" /\ Applies(d.rules[k], q)}
             ends == {i \in DOMAIN d.rules :
                        IF d.rules[i].action = "respond" THEN q.good /\ asked(i) # {}
                        ELSE d.rules[i].action = "route" /\ Applies(d.rules[i], q)}
             first == Min(ends)
  <2>5. AnsweredBy(d, q) = IF ends = {} THEN d.final
                           ELSE IF d.rules[first].action = "respond" THEN d.rules[Max(asked(first))].server
                           ELSE d.rules[first].server
    BY Zenon DEF AnsweredBy
  <2>6. d.rules = out /\ d.final = ProxyServer(c) /\ DOMAIN out = 1..Len(out)
    BY <2>3 DEF DocumentOf, Final
  <2>7. CASE ends = {}
    BY <1>2, <2>5, <2>6, <2>7
  <2>8. CASE ends # {}
    <3>1. first \in ends
      <4>1. ends \subseteq Nat
        BY <2>6
      <4> HIDE DEF ends
      <4> QED
        BY <2>8, <4>1, First
    <3>2. out[first].action # "respond"
      <4> SUFFICES ASSUME out[first].action = "respond" PROVE FALSE
        OBVIOUS
      <4>1. PICK k \in 1..(first - 1) : out[k].action = "evaluate" /\ Applies(out[k], q)
        BY <2>6, <3>1
      <4>2. k \in DOMAIN out
        BY <2>6, <3>1, <4>1
      <4> QED
        BY <2>4, <4>1, <4>2
    <3>3. Applies(out[first], q) /\ first \in DOMAIN out
      BY <2>6, <3>1, <3>2
    <3>4. out[first].server[1] # "default"
      BY <2>4, <3>2, <3>3
    <3> HIDE DEF ends, first
    <3> QED
      BY <2>5, <2>6, <2>8, <3>2, <3>4
  <2> QED
    BY <2>7, <2>8
<1> QED
  BY <1>3, <1>4

\* Whatever is saved, a proxy server keeps foreign names from the default servers.
THEOREM ForeignNamesDoNotLeak == ConfigSpec => []NoLeak
<1>1. IsConfig(config) => NoLeak
  BY BackfilledIsConfig, NoLeakOnConfigs DEF Current, IsFull
<1> QED
  BY <1>1, ConfigCorrect, PTL

Bracketed(x, y, z) == (x \o y) \o z = x \o (y \o z)

\* Joining lists may be bracketed either way.
LEMMA Associates ==
  ASSUME NEW R, NEW x, x \in Seq(R), NEW y, y \in Seq(R), NEW z, z \in Seq(R)
  PROVE  Bracketed(x, y, z)
BY ConcatAssociative DEF Bracketed

\* A list in the middle of others, the middle of them itself, stands between two lists.
LEMMA Regrouped ==
  ASSUME NEW R, NEW Q, Q \subseteq R, NEW f, NEW l, NEW a, NEW block, NEW b, NEW g, NEW h,
         f \in Seq(Q), l \in Seq(Q), a \in Seq(Q),
         block \in Seq(R), b \in Seq(R), g \in Seq(R), h \in Seq(R)
  PROVE  Between(R, Q, block, f \o l \o ((a \o block) \o b) \o g \o h)
<1>1. f \in Seq(R) /\ l \in Seq(R) /\ a \in Seq(R)
  BY SeqMonotonic
<1> DEFINE fl == f \o l
           x == fl \o a
           bg == b \o g
           y == bg \o h
           ab == a \o block
           abb == ab \o b
           xb == x \o block
<1>2. fl \in Seq(Q) /\ x \in Seq(Q)
  OBVIOUS
<1>3. fl \in Seq(R) /\ x \in Seq(R) /\ bg \in Seq(R) /\ y \in Seq(R)
  BY <1>1
<1>4. ab \in Seq(R) /\ abb \in Seq(R) /\ xb \in Seq(R)
  BY <1>1, <1>3
<1>5. fl \o abb = (fl \o ab) \o b
  <2> HIDE DEF fl, ab
  <2>1. Bracketed(fl, ab, b)
    BY <1>3, <1>4, Associates, Zenon
  <2> QED
    BY <2>1 DEF Bracketed, abb
<1>6. fl \o ab = xb
  <2> HIDE DEF fl
  <2>1. Bracketed(fl, a, block)
    BY <1>1, <1>3, Associates, Zenon
  <2> QED
    BY <2>1 DEF Bracketed, ab, x, xb
<1>7. (fl \o abb) \o g = xb \o bg
  <2> HIDE DEF fl, ab, abb, xb
  <2>1. (fl \o abb) \o g = (xb \o b) \o g
    BY <1>5, <1>6, Zenon
  <2>2. Bracketed(xb, b, g)
    BY <1>4, Associates, Zenon
  <2> QED
    BY <2>1, <2>2 DEF Bracketed, bg
<1>8. ((fl \o abb) \o g) \o h = xb \o y
  <2> HIDE DEF fl, ab, abb, xb, bg
  <2>1. Bracketed(xb, bg, h)
    BY <1>3, <1>4, Associates, Zenon
  <2> QED
    BY <1>7, <2>1 DEF Bracketed, y
<1> QED
  <2>1. x \in Seq(Q) /\ y \in Seq(R) /\ f \o l \o ((a \o block) \o b) \o g \o h = (x \o block) \o y
    BY <1>2, <1>3, <1>8
  <2> HIDE DEF x, y
  <2> QED
    BY <2>1, Zenon DEF Between

\* The elements of two lists are those of the joined one.
GoingOn(R, x, y) ==
    /\ x \o y \in Seq(R) /\ Len(x) \in Nat /\ Len(y) \in Nat
    /\ Len(x \o y) = Len(x) + Len(y)
    /\ \A i \in 1..Len(x) : (x \o y)[i] = x[i]
    /\ \A k \in 1..Len(y) : (x \o y)[Len(x) + k] = y[k]

\* A list goes on where the one it continues ends.
LEMMA GoesOn ==
  ASSUME NEW R, NEW x, x \in Seq(R), NEW y, y \in Seq(R)
  PROVE  GoingOn(R, x, y)
BY DEF GoingOn

\* A list stands in another behind n of its elements.
Placed(n, block, s) ==
    /\ n \in Nat /\ Len(s) \in Nat /\ n + Len(block) <= Len(s)
    /\ \A k \in 1..Len(block) : s[n + k] = block[k]

\* It does between two others, and the first of them stays where it is.
Amid(x, block, y) ==
    LET s == (x \o block) \o y
    IN  Placed(Len(x), block, s) /\ \A i \in 1..Len(x) : s[i] = x[i]

\* The elements of a list between two others are behind those of the first.
LEMMA Places ==
  ASSUME NEW R, NEW x, NEW block, NEW y, x \in Seq(R), block \in Seq(R), y \in Seq(R)
  PROVE  Amid(x, block, y)
<1> DEFINE t == x \o block
           s == t \o y
<1>1. /\ t \in Seq(R) /\ Len(t) = Len(x) + Len(block) /\ Len(x) \in Nat /\ Len(block) \in Nat
      /\ \A i \in 1..Len(x) : t[i] = x[i]
      /\ \A k \in 1..Len(block) : t[Len(x) + k] = block[k]
  <2>1. GoingOn(R, x, block)
    BY GoesOn, Zenon
  <2> QED
    BY <2>1, Zenon DEF GoingOn
<1> HIDE DEF t
<1>2. /\ Len(s) = Len(t) + Len(y) /\ Len(y) \in Nat
      /\ \A i \in 1..Len(t) : s[i] = t[i]
  <2>1. GoingOn(R, t, y)
    BY <1>1, GoesOn, Zenon
  <2> QED
    BY <2>1, Zenon DEF GoingOn
<1> HIDE DEF s
<1>3. Len(x) + Len(block) <= Len(s) /\ Len(s) \in Nat
  BY <1>1, <1>2
<1>4. \A i \in 1..Len(x) : s[i] = x[i]
  BY <1>1, <1>2
<1>5. \A k \in 1..Len(block) : s[Len(x) + k] = block[k]
  BY <1>1, <1>2
<1>6. Placed(Len(x), block, s)
  BY <1>1, <1>3, <1>5 DEF Placed
<1> QED
  BY <1>4, <1>6 DEF s, t, Amid

\* The rules of the first rule that speaks of a name stand behind silent ones, unless a
\* filter or the prevention of leaks speaks of it.
LEMMA SpeakingPlaced ==
  ASSUME NEW c, IsFull(c), NEW dns14, NEW q, q.keys \subseteq KeysOf(c),
         FakeIPEnabled(c) => /\ \A f \in Range(c.fields["dnsFakeIpFilters"]) : Keys(f) \cap q.keys = {}
                             /\ FilterMode(c) = "rule" => \A f \in Range(c.fields["dnsFakeIpFilters"]) : f.kind # "match",
         ~FakeIPEnabled(c) /\ ProxyServer(c) # NoServer => LeakKey \notin q.keys,
         NEW u \in DOMAIN c.rules,
         \A j \in DOMAIN c.rules : j < u => Keys(c.rules[j]) \cap q.keys = {}
  PROVE  LET s == AllRules(c, dns14)
             block == UserRule(c, dns14, c.rules[u])
         IN  \E n \in Nat :
                /\ Placed(n, block, s)
                /\ \A i \in 1..n : s[i] \in Silent(Document(c), q)
<1> DEFINE R == Document(c)
           Q == Silent(Document(c), q)
           filters == c.fields["dnsFakeIpFilters"]
           users == [i \in DOMAIN c.rules |-> UserRule(c, dns14, c.rules[i])]
           block == UserRule(c, dns14, c.rules[u])
           s == AllRules(c, dns14)
<1>1. Q \subseteq R
  BY DEF Silent
<1>2. c.rules \in Seq(Range(c.rules)) /\ filters \in Seq(Range(filters))
  BY DEF IsFull, IsConfig, IsList, FieldNames
<1>3. \A i \in DOMAIN c.rules : c.rules[i] \in Range(c.rules)
  BY DEF Range
<1>4. ASSUME NEW r \in Range(c.rules) PROVE UserRule(c, dns14, r) \in Seq(R)
  <2> DEFINE P == {x \in Document(c) : OfUser(c, r, x)}
  <2>1. UserRule(c, dns14, r) \in Seq(P) /\ P \subseteq R
    BY UserWrites
  <2> HIDE DEF P, R
  <2> QED
    BY <2>1, SeqMonotonic
<1>5. ASSUME NEW j \in DOMAIN c.rules, j < u PROVE UserRule(c, dns14, c.rules[j]) \in Seq(Q)
  <2> DEFINE P == {x \in Document(c) : OfUser(c, c.rules[j], x)}
  <2>1. UserRule(c, dns14, c.rules[j]) \in Seq(P)
    BY <1>3, UserWrites
  <2>2. P \subseteq Q
    <3> SUFFICES ASSUME NEW x \in Document(c), OfUser(c, c.rules[j], x), x.action # "respond"
                 PROVE  ~Applies(x, q)
      BY DEF Silent
    <3>1. x.keys = Keys(c.rules[j]) /\ x.keys # {}
      BY DEF OfUser
    <3>2. x.keys \cap q.keys = {}
      BY <1>5, <3>1
    <3> QED
      BY <3>1, <3>2 DEF Applies
  <2> HIDE DEF P, Q
  <2> QED
    BY <2>1, <2>2, SeqMonotonic
<1>6. FakeIPRules(c) \in Seq(Q) /\ LeakPreventionRules(c) \in Seq(Q)
  <2>1. ASSUME FakeIPEnabled(c), NEW f \in Range(filters) PROVE RulesOfFilter(c, f) \in Seq(Q)
    <3> DEFINE P == {x \in Document(c) : OfFilter(c, f, x)}
    <3>1. RulesOfFilter(c, f) \in Seq(P)
      BY FilterWrites
    <3>2. P \subseteq Q
      <4> SUFFICES ASSUME NEW x \in Document(c), OfFilter(c, f, x) PROVE ~Applies(x, q)
        BY DEF Silent
      <4>1. CASE x.keys = {<<"text", f.value>>}
        <5>1. x.keys \cap q.keys = {}
          BY <4>1, KeysAreNoText
        <5> QED
          BY <4>1, <5>1 DEF Applies
      <4>2. CASE x.keys = Keys(f) /\ (x.keys = {} => FilterMode(c) = "rule" /\ f.kind = "match")
        <5>1. x.keys # {} /\ x.keys \cap q.keys = {}
          BY <2>1, <4>2
        <5> QED
          BY <5>1 DEF Applies
      <4> QED
        BY <4>1, <4>2 DEF OfFilter
    <3> HIDE DEF P, Q
    <3> QED
      BY <3>1, <3>2, SeqMonotonic
  <2>2. LeakPreventionRules(c) \in Seq(Q)
    <3> DEFINE P == {x \in Document(c) : OfLeak(c, x)}
    <3>1. LeakPreventionRules(c) \in Seq(P)
      BY OthersWrite
    <3>2. P \subseteq Q
      <4> SUFFICES ASSUME NEW x \in Document(c), OfLeak(c, x) PROVE ~Applies(x, q)
        BY DEF Silent
      <4>1. x.keys = {LeakKey} /\ LeakKey \notin q.keys
        BY DEF OfLeak, DnsRule
      <4> QED
        BY <4>1 DEF Applies
    <3> HIDE DEF P, Q
    <3> QED
      BY <3>1, <3>2, SeqMonotonic
  <2>3. FakeIPRules(c) \in Seq(Q)
    <3>1. CASE ~FakeIPEnabled(c)
      BY <3>1 DEF FakeIPRules
    <3>2. CASE FakeIPEnabled(c)
      <4> DEFINE server == IF FilterMode(c) = "whitelist" THEN FakeIP ELSE DefaultServer(c)
                 blocks == [i \in DOMAIN filters |->
                              IF FilterMode(c) = "rule" THEN FilterRule(filters[i], DefaultServer(c))
                                                        ELSE FilterEntry(filters[i], server)]
      <4>1. FakeIPRules(c) = FlattenSeq(blocks)
        BY <3>2 DEF FakeIPRules
      <4>2. \A i \in DOMAIN filters : blocks[i] = RulesOfFilter(c, filters[i]) /\ filters[i] \in Range(filters)
        BY DEF RulesOfFilter, Range
      <4>3. \A i \in DOMAIN filters : blocks[i] \in Seq(Q)
        <5> HIDE DEF blocks, filters, Q
        <5> QED
          BY <2>1, <3>2, <4>2
      <4>4. blocks \in Seq(Seq(Q))
        <5>1. Len(filters) \in Nat /\ DOMAIN filters = 1..Len(filters) /\ DOMAIN blocks = 1..Len(filters)
          BY <1>2
        <5>2. blocks = [i \in 1..Len(filters) |-> blocks[i]]
          BY <5>1
        <5> HIDE DEF blocks, filters, Q
        <5>3. blocks \in [1..Len(filters) -> Seq(Q)]
          BY <4>3, <5>1, <5>2
        <5> QED
          BY <5>1, <5>3, IsSequence, Zenon
      <4> HIDE DEF blocks, Q
      <4> QED
        BY <4>1, <4>4, FlattenType
    <3> QED
      BY <3>1, <3>2
  <2> QED
    BY <2>2, <2>3
<1>7. ClashModeRules(c) \in Seq(R) /\ CatchAll(c) \in Seq(R)
  <2> DEFINE P2 == {r \in Document(c) : OfMode(c, r)}
             P3 == {r \in Document(c) : OfRest(c, r)}
  <2>1. ClashModeRules(c) \in Seq(P2) /\ CatchAll(c) \in Seq(P3)
    BY OthersWrite
  <2>2. P2 \subseteq R /\ P3 \subseteq R
    OBVIOUS
  <2> HIDE DEF P2, P3, R
  <2> QED
    BY <2>1, <2>2, SeqMonotonic
<1>8. users \in Seq(Seq(R)) /\ u \in 1..Len(users) /\ users[u] = block /\ block \in Seq(R)
      /\ \A j \in 1..(u - 1) : users[j] \in Seq(Q)
  <2>1. Len(c.rules) \in Nat /\ DOMAIN c.rules = 1..Len(c.rules) /\ DOMAIN users = 1..Len(c.rules)
    BY <1>2
  <2>2. \A i \in 1..Len(c.rules) : users[i] = UserRule(c, dns14, c.rules[i])
    BY <2>1
  <2>3. users = [i \in 1..Len(c.rules) |-> users[i]]
    BY <2>1
  <2>4. block \in Seq(R) /\ users[u] = block
    BY <1>3, <1>4
  <2> HIDE DEF users, R, Q, block
  <2>5. users \in [1..Len(c.rules) -> Seq(R)]
    BY <1>3, <1>4, <2>1, <2>2, <2>3
  <2>6. users \in Seq(Seq(R))
    BY <2>1, <2>5, IsSequence, Zenon
  <2>7. Len(users) = Len(c.rules)
    BY <2>1, <2>6
  <2>8. ASSUME NEW j \in 1..(u - 1) PROVE users[j] \in Seq(Q)
    <3>1. j \in 1..Len(c.rules) /\ j < u
      BY <2>1
    <3> QED
      BY <1>5, <2>1, <2>2, <3>1
  <2> QED
    BY <2>1, <2>4, <2>6, <2>7, <2>8
<1>9. UserRules(c, dns14) = FlattenSeq(users)
  BY DEF UserRules
<1>10. s = FakeIPRules(c) \o LeakPreventionRules(c) \o UserRules(c, dns14) \o ClashModeRules(c) \o CatchAll(c)
  BY DEF AllRules
<1> HIDE DEF users, R, Q, block, s
<1>11. Between(R, Q, block, FlattenSeq(users))
  <2>1. Between(R, Q, users[u], FlattenSeq(users))
    BY <1>1, <1>8, FlattenSplits, Zenon
  <2> QED
    BY <1>8, <2>1, Zenon
<1>12. Between(R, Q, block, s)
  <2> DEFINE f == FakeIPRules(c)
             l == LeakPreventionRules(c)
             g == ClashModeRules(c)
             h == CatchAll(c)
  <2>1. PICK a \in Seq(Q), b \in Seq(R) : FlattenSeq(users) = (a \o block) \o b
    BY <1>11 DEF Between
  <2>2. s = f \o l \o ((a \o block) \o b) \o g \o h
    BY <1>9, <1>10, <2>1, Zenon
  <2>3. f \in Seq(Q) /\ l \in Seq(Q) /\ g \in Seq(R) /\ h \in Seq(R)
    BY <1>6, <1>7
  <2> HIDE DEF f, l, g, h
  <2>4. a \in Seq(Q) /\ b \in Seq(R) /\ block \in Seq(R)
    BY <1>8, <2>1
  <2>5. Between(R, Q, block, f \o l \o ((a \o block) \o b) \o g \o h)
    BY <1>1, <2>3, <2>4, Regrouped, Zenon
  <2> QED
    BY <2>2, <2>5, Zenon
<1>13. PICK x \in Seq(Q), y \in Seq(R) : s = (x \o block) \o y
  BY <1>12 DEF Between
<1>14. x \in Seq(R) /\ y \in Seq(R) /\ block \in Seq(R)
  BY <1>1, <1>8, <1>13, SeqMonotonic
<1>15. Amid(x, block, y)
  BY <1>14, Places, Zenon
<1>16. Placed(Len(x), block, s) /\ \A i \in 1..Len(x) : s[i] = x[i]
  BY <1>13, <1>15, Zenon DEF Amid
<1>17. Len(x) \in Nat /\ \A i \in 1..Len(x) : s[i] \in Q
  BY <1>13, <1>16
<1> QED
  BY <1>16, <1>17 DEF s, block, Q

\* A rule that asks two servers answers with the one or with the other.
LEMMA FirstEvaluatedAnswers ==
  ASSUME NEW c, IsFull(c), NEW dns14, NEW q, q.good \in BOOLEAN, NEW n, n \in Nat,
         NEW keys, NEW server, NEW fallback, keys \cap q.keys # {},
         Placed(n, Evaluated(keys, server, fallback), AllRules(c, dns14)),
         \A i \in 1..n : AllRules(c, dns14)[i] \in Silent(Document(c), q)
  PROVE  AnsweredBy(DocumentOf(c, dns14), q) = IF q.good THEN server ELSE fallback
<1> DEFINE K == KeysOf(c) \cup {<<"text", f.value>> : f \in Range(c.fields["dnsFakeIpFilters"])}
           S == {NoServer, FakeIP, DefaultServer(c), ProxyServer(c)} \cup {u.server : u \in Range(c.rules)}
           R == DnsRuleOf(K, S)
           Q == Silent(R, q)
           s == AllRules(c, dns14)
           out == DnsRules(c, dns14)
           final == Final(c)
           p == n + 1
<1>1. s \in Seq(R) /\ out \in Seq(R) /\ out = Merged(s)
  BY RulesAreTyped DEF Document
<1>2. JoinClosed(R) /\ JoinClosed(Q) /\ Q \subseteq R
  BY SilentIsClosed DEF Silent
<1>3. n + 4 <= Len(s) /\ Len(s) \in Nat
      /\ s[n + 1] = [DnsRule(keys, server) EXCEPT !.action = "evaluate"]
      /\ s[n + 2] = [DnsRule({}, NoServer) EXCEPT !.action = "respond"]
      /\ s[n + 3] = [DnsRule({}, NoServer) EXCEPT !.action = "respond"]
      /\ s[n + 4] = DnsRule(keys, fallback)
  <2> DEFINE block == Evaluated(keys, server, fallback)
  <2>1. /\ Len(block) = 4
        /\ block[1] = [DnsRule(keys, server) EXCEPT !.action = "evaluate"]
        /\ block[2] = [DnsRule({}, NoServer) EXCEPT !.action = "respond"]
        /\ block[3] = [DnsRule({}, NoServer) EXCEPT !.action = "respond"]
        /\ block[4] = DnsRule(keys, fallback)
    BY DEF Evaluated
  <2> HIDE DEF block, s
  <2>2. Placed(n, block, s)
    BY DEF block, s
  <2>3. n + 4 <= Len(s) /\ Len(s) \in Nat /\ \A k \in 1..4 : s[n + k] = block[k]
    BY <2>1, <2>2 DEF Placed
  <2> QED
    BY <2>1, <2>3
<1>4. \A i \in 1..n : s[i] \in Q
  BY DEF Document
<1> HIDE DEF K, S, Q, s, out, final
<1>5. /\ p \in 1..Len(s) /\ p - 1 = n /\ p + 3 <= Len(s)
      /\ p + 1 = n + 2 /\ p + 2 = n + 3 /\ p + 3 = n + 4
  BY <1>3
<1>6. /\ s[p].keys = keys /\ s[p].action = "evaluate" /\ s[p].server = server /\ Applies(s[p], q)
      /\ s[p + 1].keys = {} /\ s[p + 1].action = "respond"
      /\ s[p + 2].keys = {} /\ s[p + 2].action = "respond"
      /\ s[p + 3].keys = keys /\ s[p + 3].action = "route" /\ s[p + 3].server = fallback /\ Applies(s[p + 3], q)
  BY <1>3, <1>5 DEF DnsRule, Applies
<1> HIDE DEF p
<1>7. PICK j \in 1..Len(Merged(s)) :
         /\ j + 3 <= Len(Merged(s))
         /\ \A i \in 1..(j - 1) : Merged(s)[i] \in Q
         /\ Grown(s[p], Merged(s)[j])
         /\ Merged(s)[j + 1] = s[p + 1] /\ Merged(s)[j + 2] = s[p + 2]
         /\ Grown(s[p + 3], Merged(s)[j + 3])
  BY <1>1, <1>2, <1>4, <1>5, <1>6, EvaluatedPlaced
<1>8. /\ j \in 1..Len(out) /\ j + 3 <= Len(out)
      /\ \A i \in 1..(j - 1) : out[i] \in Q
      /\ Grown(s[p], out[j]) /\ Grown(s[p + 3], out[j + 3])
      /\ out[j + 1] = s[p + 1] /\ out[j + 2] = s[p + 2]
  BY <1>1, <1>7
<1>9. s[p] \in R /\ s[p + 3] \in R /\ out[j] \in R /\ out[j + 3] \in R
  <2>1. p + 3 \in 1..Len(s) /\ j + 3 \in 1..Len(out)
    BY <1>1, <1>5, <1>8
  <2> QED
    BY <1>1, <1>5, <1>8, <2>1
<1>10. /\ Applies(out[j], q) /\ out[j].action = "evaluate" /\ out[j].server = server
       /\ Applies(out[j + 3], q) /\ out[j + 3].action = "route" /\ out[j + 3].server = fallback
  BY <1>6, <1>8, <1>9, GrownApplies
<1>11. AnsweredBy([rules |-> out, final |-> final], q) = IF q.good THEN out[j].server ELSE out[j + 3].server
  BY <1>1, <1>6, <1>8, <1>10, EvaluatedAnswers DEF Q
<1> QED
  BY <1>10, <1>11 DEF DocumentOf, out, final

\* What the first rule that speaks of a name says is what is answered.
LEMMA RulesDecideOnConfigs ==
  ASSUME IsFull(Current)
  PROVE  RulesDecide
<1> DEFINE c == Current
           filters == c.fields["dnsFakeIpFilters"]
           before == IF FakeIPEnabled(c) THEN UNION {Keys(f) : f \in Range(filters)}
                     ELSE IF ProxyServer(c) # NoServer THEN {LeakKey} ELSE {}
           matchAll == FakeIPEnabled(c) /\ FilterMode(c) = "rule"
                         /\ \E f \in Range(filters) : f.kind = "match"
<1> SUFFICES ASSUME ~matchAll, NEW dns14 \in BOOLEAN, NEW q \in Queries(c), q.keys \cap before = {}
             PROVE  LET speaking == {i \in DOMAIN c.rules : Keys(c.rules[i]) \cap q.keys # {}}
                        rule == c.rules[Min(speaking)]
                        server == IF rule.server = NoServer THEN DefaultServer(c) ELSE rule.server
                    IN  speaking # {} =>
                          IF dns14 /\ ~q.good /\ server = DefaultServer(c) /\ server # NoServer
                             /\ ProxyServer(c) # NoServer
                          THEN AnsweredBy(DocumentOf(c, dns14), q) = ProxyServer(c)
                          ELSE AnsweredBy(DocumentOf(c, dns14), q) = server
  BY Zenon DEF RulesDecide, DocumentOf, LeakKey
<1> DEFINE speaking == {i \in DOMAIN c.rules : Keys(c.rules[i]) \cap q.keys # {}}
           u == Min(speaking)
           rule == c.rules[u]
           server == IF rule.server = NoServer THEN DefaultServer(c) ELSE rule.server
           both == dns14 /\ server = DefaultServer(c) /\ server # NoServer /\ ProxyServer(c) # NoServer
           answer == AnsweredBy(DocumentOf(c, dns14), q)
<1> SUFFICES ASSUME speaking # {}
             PROVE  answer = IF both /\ ~q.good THEN ProxyServer(c) ELSE server
  OBVIOUS
<1>1. q.keys \subseteq KeysOf(c) /\ q.good \in BOOLEAN
  BY DEF Queries
<1>2. /\ FakeIPEnabled(c) => /\ \A f \in Range(filters) : Keys(f) \cap q.keys = {}
                             /\ FilterMode(c) = "rule" => \A f \in Range(filters) : f.kind # "match"
      /\ ~FakeIPEnabled(c) /\ ProxyServer(c) # NoServer => LeakKey \notin q.keys
  OBVIOUS
<1>3. u \in DOMAIN c.rules /\ Keys(rule) \cap q.keys # {}
      /\ \A j \in DOMAIN c.rules : j < u => Keys(c.rules[j]) \cap q.keys = {}
  <2>1. speaking \subseteq Nat
    BY DEF IsFull, IsConfig, IsList
  <2>2. u \in speaking /\ \A j \in speaking : u <= j
    <3> HIDE DEF speaking
    <3> QED
      BY <2>1, First
  <2>3. ASSUME NEW j \in DOMAIN c.rules, j < u PROVE Keys(c.rules[j]) \cap q.keys = {}
    <3> SUFFICES ASSUME j \in speaking PROVE FALSE
      OBVIOUS
    <3> HIDE DEF speaking, u
    <3>1. u <= j /\ u \in Nat /\ j \in Nat
      BY <2>1, <2>2
    <3> QED
      BY <2>3, <3>1
  <2> QED
    BY <2>2, <2>3
<1> HIDE DEF speaking, u, before, matchAll
<1>4. PICK n \in Nat :
         /\ Placed(n, UserRule(c, dns14, rule), AllRules(c, dns14))
         /\ \A i \in 1..n : AllRules(c, dns14)[i] \in Silent(Document(c), q)
  BY <1>1, <1>2, <1>3, SpeakingPlaced
<1>5. UserRule(c, dns14, rule) =
        IF both THEN Evaluated(Keys(rule), server, ProxyServer(c)) ELSE <<DnsRule(Keys(rule), server)>>
  BY <1>3 DEF UserRule
<1> HIDE DEF server, rule, c
<1>6. CASE both
  <2>1. Placed(n, Evaluated(Keys(rule), server, ProxyServer(c)), AllRules(c, dns14))
    BY <1>4, <1>5, <1>6
  <2>2. IsFull(c)
    BY DEF c
  <2>3. answer = IF q.good THEN server ELSE ProxyServer(c)
    BY <1>1, <1>3, <1>4, <2>1, <2>2, FirstEvaluatedAnswers
  <2> QED
    BY <1>6, <2>3
<1>7. CASE ~both
  <2> DEFINE s == AllRules(c, dns14)
             r == DnsRule(Keys(rule), server)
  <2>1. Placed(n, <<r>>, s)
    BY <1>4, <1>5, <1>7
  <2>2. n + 1 \in 1..Len(s) /\ s[n + 1] = r /\ (n + 1) - 1 = n
    <3> HIDE DEF r, s
    <3> QED
      BY <2>1 DEF Placed
  <2>3. r.action = "route" /\ r.server = server /\ Applies(r, q)
    BY <1>3 DEF DnsRule, Applies
  <2>4. IsFull(c)
    BY DEF c
  <2>5. \A i \in 1..((n + 1) - 1) : s[i] \in Silent(Document(c), q)
    BY <1>4, <2>2
  <2> HIDE DEF r
  <2>6. answer = s[n + 1].server
    BY <2>2, <2>3, <2>4, <2>5, FirstRouteAnswers
  <2> QED
    BY <1>7, <2>2, <2>3, <2>6
<1> QED
  BY <1>6, <1>7

\* Whatever is saved, the first rule of the user that speaks of a name decides.
THEOREM RulesAlwaysDecide == ConfigSpec => []RulesDecide
<1>1. IsConfig(config) => RulesDecide
  BY BackfilledIsConfig, RulesDecideOnConfigs DEF Current, IsFull
<1> QED
  BY <1>1, ConfigCorrect, PTL
=============================================================================
