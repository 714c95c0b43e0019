--------------------------- MODULE MCRuntimeConfig ---------------------------
(* RuntimeConfig for TLC, over the stores of MCRuntimeCompile: the configurations  *)
(* users save.                                                                     *)
EXTENDS MCRuntimeCompile, RuntimeConfig

MCGeositeTags == [c \in {"gfw"} |-> "geosite"]
MCDefaultServers == <<"home1", "home2">>
MCDefaultProxies == <<"abroad">>

Match(kind, value) == [kind |-> kind, value |-> value]
Filter(kind, value, action) == [kind |-> kind, value |-> value, action |-> action]
By(kind, value, server) == [kind |-> kind, value |-> value, server |-> server]
At(role, endpoint, detour) == [role |-> role, endpoint |-> endpoint, detour |-> detour]
Listen(kind, port, enabled) == [kind |-> kind, port |-> port, enabled |-> enabled]

Fields(mode, enabled, filterMode, filters) ==
    [dnsMode |-> mode, dnsFakeIpEnabled |-> enabled, dnsFakeIpFilterMode |-> filterMode,
     dnsFakeIpFilters |-> filters]

MCDefaultFields == Fields("fake-ip", TRUE, "blacklist", <<Filter("domain", "lan", "none")>>)
MCDefaultInbounds == <<Listen("mixed", 1, TRUE), Listen("tproxy", 9, TRUE), Listen("tun", 0, TRUE)>>

\* Nothing saved of them; invented addresses off; the filters of each mode, lines of
\* the other mode among them.
FieldChoices ==
    {[n \in {} |-> ""], [n \in {"dnsFakeIpEnabled"} |-> FALSE], [n \in {"dnsMode"} |-> "fakeip"]}
    \cup {Fields("fake-ip", TRUE, mode,
            <<Filter("geosite", "gfw", "none"), Filter("domain", "lan", "none"),
              Filter("geosite", "gfw", "fake-ip"), Filter("rule_set", "own", "real-ip")>>) :
              mode \in {"blacklist", "whitelist", "rule"}}
    \cup {Fields("fake-ip", TRUE, "rule",
            <<Filter("domain", "lan", "fake-ip"), Filter("match", "", "real-ip")>>)}

\* None; those of an older release; a default server without an address before one with;
\* proxy servers only; servers of other roles only.
ServerChoices ==
    {<<>>,
     <<At("default", "mine", NoTag), At("proxy", "home1", NoTag), At("proxy", "home2", NoTag)>>,
     <<At("", NoEndpoint, NoTag), At("default", "mine", NoTag), At("proxy", NoEndpoint, NoTag),
       At("proxy", "far", NoTag), At("policy", NoEndpoint, NoTag), At("policy", "work", "a")>>,
     <<At("proxy", "far", "old")>>,
     <<At("bootstrap", "boot", NoTag), At("policy", "work", NoTag)>>}

\* None; one name to different servers; rule sets, one of them foreign names, to a server
\* named, left open, or gone.
RuleListChoices ==
    {<<>>,
     <<By("domain", "lan", <<"policy", 2>>), By("domain", "site", <<"proxy", 2>>),
       By("rule_set", "own", <<"proxy", 2>>)>>,
     <<By("domain", "lan", <<"policy", 1>>), By("domain", "site", NoServer),
       By("domain", "lan", NoServer), By("geosite", "gfw", <<"policy", 1>>)>>,
     <<By("geosite", "gfw", <<"default", 2>>), By("rule_set", "own", <<"default", 1>>),
       By("domain", "site", <<"proxy", 1>>)>>}

\* None; one of each kind, one that mihomo does not know, and without a port or a kind.
InboundChoices ==
    {<<>>, <<Listen("http", 2, TRUE), Listen("http", 3, FALSE), Listen("", 7, TRUE),
             Listen("mixed", 0, TRUE), Listen("socks", 4, TRUE), Listen("socks", 5, TRUE),
             Listen("tproxy", 6, TRUE), Listen("tun", 0, TRUE), Listen("vless", 8, TRUE)>>}

MCConfigChoices ==
    [fields : FieldChoices, servers : ServerChoices, rules : RuleListChoices, inbounds : InboundChoices]

\* A configuration is saved over stores of at most one group set and nothing else.
SmallStore ==
    /\ picked = {}
    /\ \A n \in Names : ruleSets[n] = <<>> /\ nodeSets[n] = {}
    /\ \A r \in Repositories : mappings[r] = "absent"
    /\ \A t \in RuleSetTags : sources[t] = "none"
    /\ Cardinality({n \in Names : DOMAIN groupSets[n] # {}}) <= 1

MCNext ==
    \/ config = Nothing /\ Next /\ UNCHANGED config
    \/ SmallStore /\ ConfigNext /\ SmallStore'

MCSpec == ConfigInit /\ [][MCNext]_configVars
=============================================================================
