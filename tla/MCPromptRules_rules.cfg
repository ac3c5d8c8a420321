\* Two administrators' edits and a failed load around two requests.
SPECIFICATION FairSpec
CONSTANTS
    g = g
    m = m
    n = n
    p = p
    q = q
    Rules <- Three
    NameOf <- OneName
    Groups = {g}
    Models = {m}
    Providers = {p}
    ProviderOf <- Owner
    FirstRules <- One
    FirstClaims <- JustG
    FirstInherit = {}
    Readers = {r1}
    Admins = {a1, a2}
    Names = {"x"}
    None = None
    MaxAsks = 2
    MaxEdits = 2
    MaxFaults = 1
INVARIANTS
    OneRulePerTarget
    CacheIsCurrent
    ResolutionsFollowTheRules
PROPERTIES
    CallsReturn
CHECK_DEADLOCK FALSE
