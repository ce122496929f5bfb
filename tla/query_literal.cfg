SPECIFICATION QueryOnly
CONSTANTS
    Lines <- MCLines
    Headers <- MCHeaders
    MaxLines = 0
    JournalEvery = 2
    Leftovers <- MCLeftovers
    Size = 7
    PageSize = 2
    Ceilings = {1, 3, 4}
    Offsets <- MCOffsets
    Lengths <- MCLengths
    MaxTouches = 5
    MaxLength = 3
INVARIANTS
    WordsKept
CHECK_DEADLOCK FALSE
