CONSTANTS
    Base = 4
    Letters <- MCLetters
    Ids <- MCIds
    Commands <- MCCommands
    MaxArgs = 7
    MaxAnswered = 1
    MaxText = 8
SPECIFICATION Spec
CHECK_DEADLOCK FALSE
INVARIANTS
    CommandArrives
    AnswerArrives
