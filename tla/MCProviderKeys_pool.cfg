CONSTANTS
    Callers = {c1, c2}
    Batches <- MCBatches
    Lines <- MCLines
    MaxSeeds = 3
    MaxKeys = 5
    MaxCalls = 4
SPECIFICATION Spec
CHECK_DEADLOCK FALSE
SYMMETRY AnyCaller
INVARIANTS SecretsAreUnique PrimaryStaysFirst ImportIsWholeOrNothing
PROPERTY UndisturbedCallsAreExact
