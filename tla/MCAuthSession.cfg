\* Every command, two of them in flight.  Two accounts, or one account and the
\* Yubikey.
SPECIFICATION Spec
CONSTANTS
    a1 = a1
    a2 = a2
    c1 = c1
    c2 = c2
    Accounts = {a1, a2}
    ServerOf <- OneServer
    Calls = {c1, c2}
    Commands = {"login", "unlock", "enroll", "disenroll", "export", "api"}
    MaxSeq = 1
    ExportKey = ExportKey
    Clear = Clear
    None = None
SYMMETRY Symmetry
CONSTRAINT YubikeyMeetsOneAccount
INVARIANTS
    TypeOK
    SessionIsOneAccount
    FileIsOneAccount
PROPERTIES
    ImplementsWriteGate
    PlaintextNeverReturns
