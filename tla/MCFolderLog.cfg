\* The instance of MCFolders.cfg.
SPECIFICATION Spec
CONSTANTS
    f1 = f1
    f2 = f2
    f3 = f3
    c1 = c1
    c2 = c2
    Segments = {"s", "t"}
    Typed <- TypedPaths
    Paths <- AllPaths
    Folders = {f1, f2, f3}
    Items = {i1}
    Calls = {c1, c2}
    MaxCommands = 2
    StartNames <- Tree
    None = None
SYMMETRY Symmetry
INVARIANT LogIsEncrypted
