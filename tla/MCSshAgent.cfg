\* Three policies, two commands, two connections, each as far as the scenes go.
SPECIFICATION SceneSpec
CONSTANTS
    c1 = c1
    c2 = c2
    n1 = n1
    n2 = n2
    Keys = {k1}
    Policies = {"never", "session", "always"}
    Calls = {c1, c2}
    Conns = {n1, n2}
    MaxRuns = 2
    MaxAsks = 3
    None = None
CONSTRAINT InScene
INVARIANTS
    TypeOK
    SignedWithConsent
    DoorHasAHandle
    ParkedIsAwaited
    NoPromptIsStranded
PROPERTY
    EveryAskEnds
