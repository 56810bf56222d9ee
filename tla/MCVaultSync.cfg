\* Two accounts, one edit, and two commands in flight.
SPECIFICATION Spec
CONSTANTS
    Accounts = {a1, a2}
    Calls = {c1, c2}
    Edits = {e1}
    ExportKey = ExportKey
    None = None
INVARIANTS
    TypeOK
    CacheStaysCleared
    ShowsOnlyAccepted
