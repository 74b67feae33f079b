SPECIFICATION Spec
CONSTANTS
    c1 = c1
    c2 = c2
    Callers = {c1, c2}
    Fronts = {"gateway", "local"}
    Users <- MCUsers
    Calls <- MCCalls
    Missing = Missing
    JsonReads <- MCJsonReads
    NoToken = NoToken
    NoAuth = NoAuth
    None = None
INVARIANTS TypeOK AnswersDeclared ResultsTyped BlameIsRight LogsAreOwn IdentitySurvives
CHECK_DEADLOCK FALSE
