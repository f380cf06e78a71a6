SPECIFICATION Spec
CONSTANTS
    Commands <- MCCommands
    Answers <- MCAnswers
    MaxLine = 14
    MaxCalls = 2
    Cuts = {0, 1, 4}
INVARIANTS
    AnswersOwn
    BetweenResponses
    CommandAsMeant
CHECK_DEADLOCK FALSE
