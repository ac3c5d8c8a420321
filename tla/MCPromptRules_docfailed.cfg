\* Two requests, no edit, one load that fails.
SPECIFICATION Spec
CONSTANTS
    g = g
    m = m
    n = n
    p = p
    q = q
    Rules <- Pair
    NameOf <- TwoNames
    Groups = {g}
    Models = {m, n}
    Providers = {p, q}
    ProviderOf <- Owners
    FirstRules <- Pair
    FirstClaims <- Claims
    FirstInherit = {1}
    Readers = {r1, r2}
    Admins = {a1}
    Names = {"x", "y"}
    None = None
    MaxAsks = 2
    MaxEdits = 0
    MaxFaults = 1
INVARIANTS
    RulesAddTheirPrompts
CHECK_DEADLOCK FALSE
