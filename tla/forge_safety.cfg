SPECIFICATION Spec
CONSTANTS
    d = d
    k = k
    d1 = d1
    d2 = d2
    k1 = k1
    small = small
    big = big
    empty = empty
    broken = broken
    NoId = NoId
    NoCorpus = NoCorpus
    Daemons = {d}
    Clis = {k}
    Tasks = {d1, d2, k1}
    Owner <- MCOwner
    Ids = {1, 2}
    Corpora = {small, big, broken}
    Docs <- MCDocs
    Readable <- MCReadable
    JournalEvery = 2
    Faults = {"io", "crash"}
    MaxBuilds = 3
SYMMETRY ThreadSymmetry
INVARIANTS
    TypeOK
    OneBuilder
    NoLostUpdate
    UniqueEntries
    EntriesMatchIndex
PROPERTIES
    NeverForgotten
    ImplementsCatalogue
