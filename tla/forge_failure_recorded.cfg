SPECIFICATION Spec
CONSTANTS
    d = d
    k = k
    d1 = d1
    d2 = d2
    k1 = k1
    small = small
    big = big
    empty = empty
    broken = broken
    NoId = NoId
    NoCorpus = NoCorpus
    Daemons = {d}
    Clis = {k}
    Tasks = {d1, d2, k1}
    Owner <- MCOwner
    Ids = {1}
    Corpora = {small}
    Docs <- MCDocs
    Readable <- MCReadable
    JournalEvery = 2
    Faults = {}
    MaxBuilds = 2
PROPERTIES
    FailureRecorded
CHECK_DEADLOCK FALSE
