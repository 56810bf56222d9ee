SPECIFICATION Spec
CONSTANTS
    Keys = {k1}
    Policies = {"never"}
    Calls = {c1}
    Conns = {n1}
    MaxRuns = 1
    MaxAsks = 1
    None = None
INVARIANTS
    LockedVaultSignsNothing
