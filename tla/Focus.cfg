SPECIFICATION Spec
CONSTANTS
    None = None
    Outputs = {"DP-1"}
INVARIANTS
    TypeOK
    AnswerIsTheSessions
    FailsOnlyWithoutFocus
