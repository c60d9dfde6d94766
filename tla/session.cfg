\* Two callers that call again and again; logins and posts may fail in every way.
SPECIFICATION Spec
CONSTANTS
    Callers = {c1, c2}
    NoCaller = NoCaller
    FETCH_RETRIES = 3
    MaxTokens = 4
INVARIANTS
    TypeOK
    OneLogin
    RefusedNotReused
    TasksBounded
PROPERTIES
    EveryCallSettles
