SPECIFICATION Spec
CONSTANTS
    d1 = d1
    d2 = d2
    d3 = d3
    k1 = k1
    k2 = k2
    Kids <- MCKids
    Keys <- MCKeys
    Ttls <- MCTtls
    Longest = 2
    MaxTokens = 2
    None = None
    Corrupt = Corrupt
    NotJson = NotJson
    Down = Down
SYMMETRY Interchangeable
INVARIANTS
    TypeOK
    TokensVerify
    LostEntriesLoseOnlyTheirTokens
