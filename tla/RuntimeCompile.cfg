SPECIFICATION MCSpec
CONSTANTS
    Names = {daily, travel}
    Tags = {"a", "b", "g", "h"}
    NoTag = "no tag"
    RuleSetTags = {"own", "geosite"}
    BuiltInTags = {"geosite"}
    LeakTag = "geosite"
    Repositories = {"repo"}
    NodeChoices <- MCNodeChoices
    GroupChoices <- MCGroupChoices
    RuleChoices <- MCRuleChoices
    GeositeTags <- MCGeositeTags
    DefaultServers <- MCDefaultServers
    DefaultProxies <- MCDefaultProxies
    DefaultFields <- MCDefaultFields
    DefaultInbounds <- MCDefaultInbounds
    ConfigChoices <- MCConfigChoices
SYMMETRY Symmetry
INVARIANTS
    ReferencesDefined
    KnownTargetsKept
    NoCatchAllByAccident
    OnlyLostRepositories
    DnsReferencesDefined
    NoLeak
    RulesDecide
    CoresAgree
