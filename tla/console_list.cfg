SPECIFICATION ConsoleFairSpec
CONSTANTS
    d = d
    k = k
    d1 = d1
    k1 = k1
    small = small
    empty = empty
    broken = broken
    NoId = NoId
    NoCorpus = NoCorpus
    Daemons = {d}
    Clis = {}
    Tasks = {d1}
    Owner <- MCOwner
    Ids = {1}
    Corpora = {small}
    Docs <- MCDocs
    Readable <- MCReadable
    JournalEvery = 2
    Faults = {}
    MaxBuilds = 1
    Server = d
    MaxStream = 1
    MaxCalls = 2
    ReadsFail = FALSE
PROPERTIES
    ListFollowsManifest
CHECK_DEADLOCK FALSE
