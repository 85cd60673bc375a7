CONSTANTS
    MaxSelector = 1
    BufCap = 2
    Chunk = 2
    ReadTimeout = 2
    WriteTimeout = 1
    Answers = {0, 3}
    MaxAnswer = 3
    NotFoundSize = 1
    Window = 1
    MaxBytes = 4
CHECK_DEADLOCK FALSE
SPECIFICATION FairSpec
INVARIANTS TypeOK OneLine AnswerComplete HoldWithin
PROPERTY Returns
