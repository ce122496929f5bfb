SPECIFICATION HealthSpec
CONSTANTS
    d = d
    k = k
    d1 = d1
    k1 = k1
    small = small
    NoId = NoId
    NoCorpus = NoCorpus
    Daemons = {d}
    Clis = {k}
    Tasks = {d1, k1}
    Owner <- MCOwner
    Ids = {1}
    Corpora = {small}
    Docs <- MCDocs
    Readable <- MCReadable
    JournalEvery = 1
    Faults = {"crash"}
    MaxBuilds = 1
    Prober = d
INVARIANTS
    ManifestAtomic
