SPECIFICATION Spec
CONSTANTS
    sv = sv
    dev = dev
    r = r
    x = x
    Surveyor = sv
    Device = dev
    Stranger = x
    Respondents = {r}
    Conns <- MCConns
    From <- MCFrom
    To <- MCTo
    Rogues = {"near"}
    Fragile = {"far"}
    KeySpace = 4
    MaxTTL = 2
    MaxSurveys = 2
INVARIANTS NoAbort AnswersThisSurvey HeardOnce EndIsReported
PROPERTY SurveyEnds
CHECK_DEADLOCK FALSE
