\* A sign-in that awaits the server while the user logs out, in an app that found
\* the account of an earlier run.
SPECIFICATION SpecWithAccount
CONSTANTS
    Accounts = {a1}
    Calls = {c1, c2}
    Edits = {e1}
    ExportKey = ExportKey
    None = None
INVARIANT LogoutIsFinal
