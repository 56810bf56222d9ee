\* One account, a file of three rows, a folder, one sync at a time.
SPECIFICATION Spec
CONSTANTS
    mail = mail
    untitled = untitled
    placeholder = placeholder
    work = work
    None = None
    Ids = {mail, untitled, placeholder}
    Groups = {work}
    Files <- OneFile
    Named <- Untitled
    Syncs = {s1}
    MaxRetries = 2
    FirstPace = 200
    MaxPace = 500
    MaxCopies = 2
INVARIANTS
    TypeOK
    NothingTwice
PROPERTIES
    ImplementsPacedWriter
    RunEnds
