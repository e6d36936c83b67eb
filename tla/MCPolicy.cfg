SPECIFICATION Spec
CONSTANTS
    Token <- MCToken
    GlobHits <- MCGlobHits
    RegexHits <- MCRegexHits
    GlobMeta = {"*", "["}
    Star = "*"
    Config <- MCConfig
    Query <- MCQuery
INVARIANTS IInv MostSpecificWins ConflictOnlyOfPatterns DenyHolds ExplainAgrees
