\* A refresh answered after an export file took the slot.
SPECIFICATION Spec
CONSTANTS
    a1 = a1
    c1 = c1
    c2 = c2
    Accounts = {a1}
    ServerOf <- OneServer
    Calls = {c1, c2}
    Commands = {"unlock", "export", "api"}
    MaxSeq = 1
    ExportKey = ExportKey
    Clear = Clear
    None = None
INVARIANT StoredTokenOpens
