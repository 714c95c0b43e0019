SPECIFICATION Spec
CONSTANTS
    Names = {daily, travel}
    Tags = {"a", "b", "g", "h"}
    NoTag = "no tag"
    RuleSetTags = {"own", "geosite"}
    BuiltInTags = {"geosite"}
    Repositories = {"repo"}
    NodeChoices <- MCNodeChoices
    GroupChoices <- MCGroupChoices
    RuleChoices <- MCRuleChoices
INVARIANT RuleSetsDefined
