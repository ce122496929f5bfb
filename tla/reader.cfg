SPECIFICATION Spec
CONSTANTS
    Texts = {none, one, two}
    Short = none
    NoTimer = NoTimer
    MaxPicks = 3
    none = none
    one = one
    two = two
INVARIANTS
    TypeOK
    OneInit
    AnswersTheBox
PROPERTIES
    LastPickWins
    PicksSettle
CHECK_DEADLOCK FALSE
