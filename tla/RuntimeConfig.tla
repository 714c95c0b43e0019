---------------------------- MODULE RuntimeConfig ----------------------------
(***************************************************************************)
(* The global configuration (internal/repository/store.go) and what both   *)
(* cores are given of it: name servers, rules of names and inbounds        *)
(* (internal/api/runtime.go).  It extends RuntimeCompile: the rule sets a  *)
(* rule of names refers to, and the detours its servers go through, are    *)
(* those of the same document.                                             *)
(*                                                                         *)
(* A name is what matches it: a query carries the keys it satisfies.  The  *)
(* name of a server is its role with its place among the servers of that   *)
(* role, since saving clears what a user calls it.  A server is its role,  *)
(* endpoint and detour, at a position of which only the order counts;      *)
(* ports, subnets, strategies and timeouts are left out, as is every field *)
(* of the configuration that decides nothing here.                         *)
(***************************************************************************)
EXTENDS RuntimeCompile, SequencesExt, FiniteSetsExt

CONSTANTS
    GeositeTags,      \* the built-in rule set of each geosite code
    LeakTag,          \* geosite of everything outside the country
    DefaultServers,   \* endpoints of the default servers
    DefaultProxies,   \* and of the default proxy servers
    DefaultFields,    \* defaultGlobalConfigFields
    DefaultInbounds,  \* defaultGlobalInbounds
    ConfigChoices     \* the configurations a user may save

ASSUME LeakTagIsBuiltIn == LeakTag \in BuiltInTags
ASSUME GeositesAreBuiltIn == \A c \in DOMAIN GeositeTags : GeositeTags[c] \in BuiltInTags
ASSUME ProxiesAreNotLegacy == DefaultProxies # DefaultServers /\ DefaultServers # <<>>

FieldNames == {"dnsMode", "dnsFakeIpEnabled", "dnsFakeIpFilterMode", "dnsFakeIpFilters"}

IsList(s) == s \in Seq(Range(s))

\* A configuration: fields that are switches and lists where they have to be, servers at
\* positions, lists of rules and of inbounds.
IsConfig(c) ==
    /\ c = [fields |-> c.fields, servers |-> c.servers, rules |-> c.rules, inbounds |-> c.inbounds]
    /\ DOMAIN c.fields \subseteq FieldNames
    /\ "dnsFakeIpEnabled" \in DOMAIN c.fields => c.fields["dnsFakeIpEnabled"] \in BOOLEAN
    /\ "dnsFakeIpFilters" \in DOMAIN c.fields => IsList(c.fields["dnsFakeIpFilters"])
    /\ IsFiniteSet(DOMAIN c.servers) /\ DOMAIN c.servers \subseteq Nat \ {0}
    /\ IsList(c.rules) /\ IsList(c.inbounds)

ASSUME ChoicesAreConfigs == \A c \in ConfigChoices : IsConfig(c)
ASSUME DefaultsAreAConfig ==
    /\ IsConfig([fields |-> DefaultFields, servers |-> <<>>, rules |-> <<>>,
                 inbounds |-> DefaultInbounds])
    /\ DOMAIN DefaultFields = FieldNames
    /\ IsList(DefaultServers) /\ IsList(DefaultProxies)

VARIABLE config       \* the stored configuration

configVars == <<vars, config>>

NoEndpoint == "no endpoint"
NoServer == <<"none", 0>>
FakeIP == <<"fakeip", 0>>     \* the server of invented addresses

-----------------------------------------------------------------------------
(* The stored configuration *)

\* What is not stored reads like an empty one.
Nothing == [fields |-> [n \in {} |-> ""], servers |-> <<>>, rules |-> <<>>, inbounds |-> <<>>]

ConfigInit == Init /\ config = Nothing

DefaultNamed(role, endpoints) ==
    [i \in DOMAIN endpoints |-> [role |-> role, endpoint |-> endpoints[i], detour |-> NoTag]]

ProxyDefaults == DefaultNamed("proxy", DefaultProxies)

AllDefaults == DefaultNamed("default", DefaultServers) \o ProxyDefaults

\* An inbound without a kind is a mixed one ...
WithKinds(inbounds) ==
    [i \in DOMAIN inbounds |->
        IF inbounds[i].kind = "" THEN [inbounds[i] EXCEPT !.kind = "mixed"] ELSE inbounds[i]]

\* ... and an empty role the default one.
Normalized(c) ==
    LET named(s) == [s EXCEPT !.role = IF s.role = "" THEN "default" ELSE s.role]
    IN  [c EXCEPT !.servers = [i \in DOMAIN c.servers |-> named(c.servers[i])],
                  !.inbounds = WithKinds(c.inbounds)]

OfRole(servers, role) == {i \in DOMAIN servers : servers[i].role = role}

\* The number of a server among those of its role.
Ordinal(servers, i) == Cardinality({j \in OfRole(servers, servers[i].role) : j <= i})

\* Servers of an older release: its proxy servers were the default ones.
Legacy(servers) ==
    LET proxies == OfRole(servers, "proxy")
    IN  /\ Cardinality(proxies) = Len(DefaultServers)
        /\ \A i \in proxies : servers[i].endpoint = DefaultServers[Ordinal(servers, i)]

\* Without its proxy servers, and with the default ones behind the others.
Replaced(servers) ==
    LET kept == DOMAIN servers \ OfRole(servers, "proxy")
        last == Max(DOMAIN servers)
    IN  [i \in kept \cup {last + k : k \in DOMAIN ProxyDefaults} |->
            IF i \in kept THEN servers[i] ELSE ProxyDefaults[i - last]]

Filled(fields) ==
    [n \in FieldNames |-> IF n \in DOMAIN fields THEN fields[n] ELSE DefaultFields[n]]

Backfilled(c) ==
    [fields |-> Filled(c.fields),
     servers |-> CASE DOMAIN c.servers = {} -> AllDefaults
                   [] DOMAIN c.servers # {} /\ Legacy(c.servers) -> Replaced(c.servers)
                   [] OTHER -> c.servers,
     rules |-> c.rules,
     inbounds |-> IF c.inbounds = <<>> THEN DefaultInbounds ELSE c.inbounds]

\* What a read returns, and leaves stored.
Current == Backfilled(config)

ReadConfig == config' = Current /\ UNCHANGED vars

UpdateGlobalConfig ==
    /\ \E c \in ConfigChoices : config' = Normalized(c)
    /\ UNCHANGED vars

UpdateGlobalInbounds ==
    /\ \E c \in ConfigChoices : config' = [Current EXCEPT !.inbounds = WithKinds(c.inbounds)]
    /\ UNCHANGED vars

ConfigNext ==
    \/ Next /\ UNCHANGED config
    \/ ReadConfig
    \/ UpdateGlobalConfig
    \/ UpdateGlobalInbounds

ConfigSpec == ConfigInit /\ [][ConfigNext]_configVars

-----------------------------------------------------------------------------
(* Names of servers *)

ServerName(servers, i) == <<servers[i].role, Ordinal(servers, i)>>

Served(servers) == {i \in DOMAIN servers : servers[i].endpoint # NoEndpoint}

FirstName(servers, among) == IF among = {} THEN NoServer ELSE ServerName(servers, Min(among))

FirstOf(servers, role) == FirstName(servers, {i \in Served(servers) : servers[i].role = role})

DefaultServer(c) == FirstOf(c.servers, "default")
ProxyServer(c) == FirstOf(c.servers, "proxy")

-----------------------------------------------------------------------------
(* Rules of names for sing-box *)

FakeIPEnabled(c) == c.fields["dnsMode"] = "fake-ip" /\ c.fields["dnsFakeIpEnabled"]
FilterMode(c) == c.fields["dnsFakeIpFilterMode"]

\* A matcher sing-box has no counterpart for has no key.
Keys(m) ==
    CASE m.kind = "domain" -> {<<"domain", m.value>>}
      [] m.kind = "geosite" -> {<<"rule_set", GeositeTags[m.value]>>}
      [] m.kind = "rule_set" -> {<<"rule_set", m.value>>}
      [] OTHER -> {}

\* One rule of the document: keys one of which must match, a mode, a type of query.
DnsRule(keys, server) ==
    [keys |-> keys, clash |-> "any", address |-> FALSE, action |-> "route", server |-> server]

RulesIf(condition, rule) == IF condition THEN <<rule>> ELSE <<>>

ActionServer(action, default) ==
    CASE action = "fake-ip" -> FakeIP
      [] action = "real-ip" -> default
      [] OTHER -> NoServer

\* A filter that is a whole rule: type, value and action.  MATCH has no value.
FilterRule(f, default) ==
    LET server == ActionServer(f.action, default)
    IN  RulesIf(server # NoServer /\ (f.kind = "match" \/ Keys(f) # {}), DnsRule(Keys(f), server))

\* A filter that only matches; a whole rule is taken for a name, which nobody has.
FilterEntry(f, server) ==
    LET keys == IF f.action = "none" THEN Keys(f) ELSE {<<"text", f.value>>}
    IN  RulesIf(server # NoServer /\ keys # {}, DnsRule(keys, server))

FakeIPRules(c) ==
    LET filters == c.fields["dnsFakeIpFilters"]
        server == IF FilterMode(c) = "whitelist" THEN FakeIP ELSE DefaultServer(c)
    IN  IF ~FakeIPEnabled(c) THEN <<>>
        ELSE FlattenSeq([i \in DOMAIN filters |->
                IF FilterMode(c) = "rule" THEN FilterRule(filters[i], DefaultServer(c))
                                          ELSE FilterEntry(filters[i], server)])

LeakPreventionRules(c) ==
    RulesIf(~FakeIPEnabled(c) /\ ProxyServer(c) # NoServer,
            DnsRule({<<"rule_set", LeakTag>>}, ProxyServer(c)))

Evaluated(keys, server, fallback) ==
    LET respond == [DnsRule({}, NoServer) EXCEPT !.action = "respond"]
    IN  <<[DnsRule(keys, server) EXCEPT !.action = "evaluate"], respond, respond,
          DnsRule(keys, fallback)>>

\* From sing-box 1.14 on, the default server is asked first and the proxy server after it.
UserRule(c, dns14, r) ==
    LET server == IF r.server = NoServer THEN DefaultServer(c) ELSE r.server
    IN  IF Keys(r) = {} THEN <<>>
        ELSE IF dns14 /\ server = DefaultServer(c) /\ server # NoServer /\ ProxyServer(c) # NoServer
             THEN Evaluated(Keys(r), server, ProxyServer(c))
        ELSE <<DnsRule(Keys(r), server)>>

UserRules(c, dns14) ==
    FlattenSeq([i \in DOMAIN c.rules |-> UserRule(c, dns14, c.rules[i])])

ClashModeRules(c) ==
    LET global == IF FakeIPEnabled(c) THEN FakeIP ELSE ProxyServer(c)
    IN  RulesIf(DefaultServer(c) # NoServer,
                [DnsRule({}, DefaultServer(c)) EXCEPT !.clash = "Direct"])
        \o RulesIf(global # NoServer, [DnsRule({}, global) EXCEPT !.clash = "global"])

CatchAll(c) ==
    RulesIf(FakeIPEnabled(c) /\ FilterMode(c) = "blacklist",
            [DnsRule({}, FakeIP) EXCEPT !.address = TRUE])

\* Mutant: a rule joins any earlier one that differs in nothing but its keys.
MergedMutant(rules) ==
    FoldLeft(LAMBDA done, r :
        LET like == {i \in DOMAIN done : done[i].keys # {} /\ [done[i] EXCEPT !.keys = r.keys] = r}
        IN  IF r.keys # {} /\ like # {} THEN [done EXCEPT ![Min(like)].keys = @ \cup r.keys]
                                       ELSE Append(done, r), <<>>, rules)

\* Neighbours that differ in nothing but their keys are joined.
Joined(done, r) ==
    LET last == done[Len(done)]
    IN  IF done # <<>> /\ r.keys # {} /\ last.keys # {} /\ [last EXCEPT !.keys = r.keys] = r
        THEN [done EXCEPT ![Len(done)] = [last EXCEPT !.keys = last.keys \cup r.keys]]
        ELSE Append(done, r)

\* mergeAdjacentSingBoxDNSRules
Merged(rules) ==
    LET merged[k \in 0..Len(rules)] == IF k = 0 THEN <<>> ELSE Joined(merged[k - 1], rules[k])
    IN  merged[Len(rules)]

DnsRules(c, dns14) ==
    Merged(FakeIPRules(c) \o LeakPreventionRules(c) \o UserRules(c, dns14)
             \o ClashModeRules(c) \o CatchAll(c))

\* Mutant: what no rule matches goes to the default server.
FinalMutant(c) == DefaultServer(c)

Final(c) == IF ProxyServer(c) # NoServer THEN ProxyServer(c) ELSE DefaultServer(c)

Resolver(c) ==
    IF DefaultServer(c) # NoServer THEN DefaultServer(c)
                                   ELSE FirstName(c.servers, Served(c.servers))

\* Mutant: the filters of invented addresses are forgotten.
DnsRuleSetsMutant(c) ==
    BuiltInTags \cap
      (({LeakTag} \cap (IF FakeIPEnabled(c) \/ ProxyServer(c) = NoServer THEN {} ELSE {LeakTag}))
         \cup UNION {{k[2] : k \in Keys(c.rules[i])} : i \in DOMAIN c.rules})

\* The built-in rule sets that rules of names refer to, for the route to define.
DnsRuleSets(c) ==
    LET filters == c.fields["dnsFakeIpFilters"]
        read == {f \in Range(filters) : FilterMode(c) = "rule" <=> f.action # "none"}
        named == UNION {Keys(m) : m \in Range(c.rules) \cup (IF FakeIPEnabled(c) THEN read ELSE {})}
        leak == IF FakeIPEnabled(c) \/ ProxyServer(c) = NoServer THEN {} ELSE {LeakTag}
    IN  BuiltInTags \cap (leak \cup {k[2] : k \in {n \in named : n[1] = "rule_set"}})

\* A proxy server without a detour goes through one of those of the rule sets.
DnsServers(c, detours) ==
    [i \in Served(c.servers) |->
        LET s == c.servers[i]
            fill == s.role = "proxy" /\ s.detour = NoTag /\ detours # {}
        IN  [tag |-> ServerName(c.servers, i), endpoint |-> s.endpoint,
             detours |-> IF fill THEN detours ELSE {s.detour}]]

\* singBoxInboundSupportedOnCurrentOS
SupportedOn(linux, kind) == kind = "tproxy" => linux

\* Each enabled inbound listens, with a port of its own if it has one.
SingBoxInbounds(c, linux) ==
    {<<b.kind, b.port>> : b \in {x \in Range(c.inbounds) : x.enabled /\ SupportedOn(linux, x.kind)}}

SingBoxDns(c, dns14) ==
    LET servers == DnsServers(c, Detours(Selection))
    IN  [servers |-> servers,
         tags |-> {servers[i].tag : i \in DOMAIN servers}
                     \cup (IF FakeIPEnabled(c) THEN {FakeIP} ELSE {}),
         rules |-> DnsRules(c, dns14), final |-> Final(c), resolver |-> Resolver(c),
         ruleSets |-> RenderedRuleSets(Input.rules) \cup DnsRuleSets(c)]

-----------------------------------------------------------------------------
(* The same for mihomo *)

EndpointsOf(c, role) ==
    [i \in Served(c.servers) \cap OfRole(c.servers, role) |-> c.servers[i].endpoint]

\* Mutant: a server without an address does not count.
PolicyNameMutant(servers, i) ==
    <<servers[i].role,
      Cardinality({j \in OfRole(servers, servers[i].role) \cap Served(servers) : j <= i})>>

PolicyName(servers, i) == ServerName(servers, i)

\* mihomoNameserverPolicy: a map, so of two rules of one value the later counts.  Rules
\* to a default server are left to the fallback.
NameserverPolicy(c) ==
    LET named(r) == {i \in Served(c.servers) : PolicyName(c.servers, i) = r.server}
        taken == {n \in DOMAIN c.rules :
                    named(c.rules[n]) # {} /\ c.rules[n].server[1] # "default"}
        of(n) == <<c.rules[n].kind, c.rules[n].value>>
    IN  [key \in {of(n) : n \in taken} |->
            c.servers[Min(named(c.rules[Max({n \in taken : of(n) = key})]))].endpoint]

PortKinds == {"http", "socks", "mixed", "redirect", "tproxy"}

\* One port for each of these kinds of inbounds: the last counts.
MihomoPorts(c) ==
    LET at(kind) == {i \in DOMAIN c.inbounds :
                       LET b == c.inbounds[i] IN b.enabled /\ b.kind = kind /\ b.port # 0}
    IN  [kind \in {k \in PortKinds : at(k) # {}} |-> c.inbounds[Max(at(kind))].port]

MihomoTun(c) == \E b \in Range(c.inbounds) : b.enabled /\ b.kind = "tun"

MihomoDns(c) ==
    LET given(first, other) == IF EndpointsOf(c, first) # <<>> THEN EndpointsOf(c, first)
                                                               ELSE EndpointsOf(c, other)
    IN  [nameserver |-> EndpointsOf(c, "default"),
         fallback |-> given("fallback", "proxy"),
         proxyServer |-> given("bootstrap", "default"),
         policy |-> NameserverPolicy(c)]

-----------------------------------------------------------------------------
(* What sing-box answers.  It takes the first rule that matches; evaluate asks and goes  *)
(* on, respond ends with what was answered if that is good.                             *)

Applies(r, q) ==
    /\ r.keys # {} => r.keys \cap q.keys # {}
    /\ r.clash \in {"any", q.mode}
    /\ r.address => q.address

AnsweredBy(d, q) ==
    LET asked(i) == {j \in 1..(i - 1) : d.rules[j].action = "evaluate" /\ Applies(d.rules[j], q)}
        ends == {i \in DOMAIN d.rules :
                   IF d.rules[i].action = "respond" THEN q.good /\ asked(i) # {}
                   ELSE d.rules[i].action = "route" /\ Applies(d.rules[i], q)}
        first == Min(ends)
    IN  IF ends = {} THEN d.final
        ELSE IF d.rules[first].action = "respond" THEN d.rules[Max(asked(first))].server
        ELSE d.rules[first].server

-----------------------------------------------------------------------------
(* Properties *)

KeysOf(c) ==
    LET filters == c.fields["dnsFakeIpFilters"]
    IN  (UNION {Keys(m) : m \in Range(c.rules) \cup Range(filters)}) \cup {<<"rule_set", LeakTag>>}

Queries(c) ==
    [keys : SUBSET KeysOf(c), mode : {"Rule", "Direct", "global"}, address : BOOLEAN, good : BOOLEAN]

\* Whatever was saved, and whatever an older release left, what the server adds to the
\* document of sing-box refers to something in it: the rules it writes, the final server
\* and the resolver to a server, a built-in rule set to one the route downloads, the
\* detour it fills in to an outbound.  A user's rule may name a server that is not there,
\* and lacks one only if there is no default server.
DnsReferencesDefined ==
    LET c == Current
        d == SingBoxDns(c, TRUE)
        own == {c.rules[i].server : i \in DOMAIN c.rules}
        outbounds == SingBox.outbounds
    IN  /\ \A i \in DOMAIN d.rules :
              LET r == d.rules[i]
              IN  /\ r.action # "respond" => r.server \in d.tags \cup own
                  /\ r.server = NoServer /\ r.action # "respond" => DefaultServer(c) = NoServer
                  /\ \A k \in r.keys : k[1] = "rule_set" /\ k[2] \in BuiltInTags => k[2] \in d.ruleSets
        /\ d.final \in d.tags \/ {DefaultServer(c), ProxyServer(c)} = {NoServer}
        /\ d.resolver \in d.tags \/ DOMAIN d.servers = {}
        /\ \A i \in DOMAIN d.servers :
              c.servers[i].detour = NoTag => d.servers[i].detours \subseteq outbounds \cup {NoTag}

\* With a proxy server, a foreign name is never put to a default server unless the user
\* said so: by Direct mode, by a rule or by a filter.  (In "rule" mode the filters may
\* end in MATCH; then they have spoken of every name.)
NoLeak ==
    LET c == Current
        filters == c.fields["dnsFakeIpFilters"]
        spoken == (UNION {Keys(c.rules[i]) : i \in DOMAIN c.rules})
                    \cup IF FakeIPEnabled(c) THEN UNION {Keys(f) : f \in Range(filters)} ELSE {}
        matchAll == FakeIPEnabled(c) /\ \E f \in Range(filters) : f.kind = "match"
    IN  ProxyServer(c) # NoServer /\ ~matchAll =>
        \A dns14 \in BOOLEAN :
        LET d == [rules |-> DnsRules(c, dns14), final |-> Final(c)]
        IN  \A q \in Queries(c) :
              /\ <<"rule_set", LeakTag>> \in q.keys
              /\ q.mode # "Direct" \/ ~FakeIPEnabled(c)
              /\ q.keys \cap spoken = {} \/ ~FakeIPEnabled(c)
              => AnsweredBy(d, q)[1] # "default"

\* runtime_test.go, BlacklistCatchAllStaysAfterUserRules and PrioritizesDefaultLeak-
\* Prevention: a name is answered as the first rule that speaks of it says, in every
\* mode and before any invented address, unless a filter or the prevention of leaks
\* speaks of it too.  Merging rules changes no answer.
RulesDecide ==
    LET c == Current
        filters == c.fields["dnsFakeIpFilters"]
        before == IF FakeIPEnabled(c) THEN UNION {Keys(f) : f \in Range(filters)}
                  ELSE IF ProxyServer(c) # NoServer THEN {<<"rule_set", LeakTag>>} ELSE {}
        matchAll == FakeIPEnabled(c) /\ FilterMode(c) = "rule"
                      /\ \E f \in Range(filters) : f.kind = "match"
    IN  ~matchAll => \A dns14 \in BOOLEAN :
        LET d == [rules |-> DnsRules(c, dns14), final |-> Final(c)]
        IN  \A q \in {x \in Queries(c) : x.keys \cap before = {}} :
              LET speaking == {i \in DOMAIN c.rules : Keys(c.rules[i]) \cap q.keys # {}}
                  rule == c.rules[Min(speaking)]
                  server == IF rule.server = NoServer THEN DefaultServer(c) ELSE rule.server
              IN  speaking # {} =>
                    IF dns14 /\ ~q.good /\ server = DefaultServer(c) /\ server # NoServer
                       /\ ProxyServer(c) # NoServer
                    THEN AnsweredBy(d, q) = ProxyServer(c)
                    ELSE AnsweredBy(d, q) = server

\* Both cores understand a configuration alike: a value that one rule sends to a server
\* that is not a default one goes to the same endpoint.  Where mihomo listens sing-box does,
\* but for tproxy, which it has on Linux only; where sing-box listens on a port mihomo does
\* if it has a port for that kind and no other of the kind listens.
CoresAgree ==
    LET c == Current
        d == SingBoxDns(c, FALSE)
        m == MihomoDns(c)
        ports == MihomoPorts(c)
    IN  /\ \A n \in DOMAIN c.rules :
              LET r == c.rules[n]
                  alone == \A k \in DOMAIN c.rules \ {n} : c.rules[k].value # r.value
              IN  alone /\ Keys(r) # {} /\ r.server[1] # "default"
                  => {d.servers[i].endpoint : i \in {j \in DOMAIN d.servers : d.servers[j].tag = r.server}}
                       = {m.policy[k] : k \in {<<r.kind, r.value>>} \cap DOMAIN m.policy}
        /\ \A linux \in BOOLEAN :
              LET listens == SingBoxInbounds(c, linux)
                  alone(l) == \A o \in listens \ {l} : o[1] # l[1] \/ o[2] = 0
              IN  /\ \A k \in DOMAIN ports : <<k, ports[k]>> \in listens \/ (k = "tproxy" /\ ~linux)
                  /\ \A l \in listens : l[1] \in PortKinds /\ l[2] # 0 /\ alone(l)
                                          => l[1] \in DOMAIN ports /\ ports[l[1]] = l[2]
                  /\ MihomoTun(c) <=> \E l \in listens : l[1] = "tun"
=============================================================================
