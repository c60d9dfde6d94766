\* One caller: a create-task whose answer is lost.
SPECIFICATION Spec
CONSTANTS
    Callers = {c1}
    NoCaller = NoCaller
    FETCH_RETRIES = 3
    MaxTokens = 2
INVARIANTS
    OneTaskPerCall
