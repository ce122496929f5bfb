SPECIFICATION SeqSpec
CONSTANTS
    Lines <- MCLines
    Headers <- MCHeaders
    MaxLines = 5
    JournalEvery = 2
    Leftovers <- MCLeftovers
    Size = 7
    PageSize = 2
    Ceilings = {1, 3, 4}
    Offsets <- MCOffsets
    Lengths <- MCLengths
    MaxTouches = 5
    MaxLength = 7
INVARIANTS
    IndexerTypeOK
    EveryDocumentOnce
    ResultOrder
    SourceOrderKept
    JournalKeepsUp
    TypeOK
    PagesExact
    AnswerExact
    XReadHonest
    CeilingHeld
    LeastRecentlyUsedGoes
    StatsAddUp
    QueryValid
    LettersKept
    PhrasesSurvive
PROPERTIES
    ReadsTheSource
CHECK_DEADLOCK FALSE
