SPECIFICATION MCSpec
CONSTANTS
    h1 = h1
    h2 = h2
    e1 = e1
    e2 = e2
    None = None
    Handler = {h1, h2}
    Execution = {e1, e2}
    MaxFiles <- MCMaxFiles
INVARIANTS
    CalledOnce
    AnswersAreTrue
    TelemetryIsSent
CHECK_DEADLOCK FALSE
PROPERTIES
    Answers
