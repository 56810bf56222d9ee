\* The instance of MCCiphers.cfg.
SPECIFICATION Spec
CONSTANTS
    i1 = i1
    i2 = i2
    o1 = o1
    o2 = o2
    own1 = own1
    own2 = own2
    f1 = f1
    f2 = f2
    c1 = c1
    c2 = c2
    coll1 = coll1
    coll2 = coll2
    Texts = {"", "a", "b"}
    Empty = ""
    Orgs = {o1, o2}
    Held = {o1}
    UserKey = UserKey
    VaultKey = VaultKey
    OwnKeys = {own1, own2}
    Colls = {coll1, coll2}
    OrgOf <- Collections
    FileIds = {f1, f2}
    HistoryCap = 2
    None = None
    Gone = Gone
    FilePasswords = {"p", "q"}
    Damages = {"none", "format", "salt", "weak", "cost", "auth", "key", "data"}
    CostFloor = 2
    FolderLists <- InFolders
    CollectionLists <- InCollections
    Breached = {"b"}
    PrefixOf <- Prefixes
    ItemIds = {i1, i2}
    Calls = {c1, c2}
    Inputs <- Typed
    Starts <- StartItems
    MaxCommands = 2
    MaxOthers = 1
SYMMETRY Symmetry
INVARIANT SharedFilesOpen
