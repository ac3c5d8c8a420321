\* One resolution with two edits between its steps, or four by two callers.
SPECIFICATION Spec
CONSTANTS
    p1 = p1
    p2 = p2
    Providers = {p1, p2}
    Models = {1, 2, 3}
    Keys = {11, 12, 13}
    Members = {21, 22, 23}
    ProviderOf <- MixedOwners
    ModelOf <- MixedMembers
    Prefixes = {oa, an}
    Names = {a, b}
    Policies = {"first", "round_robin"}
    Callers = {c1, c2}
    None = None
    MaxCalls = 4
    MaxEdits = 2
CONSTRAINT EditsOrCalls
SYMMETRY Symmetry
INVARIANTS
    TypeOK
    CredentialsStayHome
    ResolvesTheCatalog
    RotationIsFair
CHECK_DEADLOCK FALSE
