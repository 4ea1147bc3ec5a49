CONSTANTS
    Proc = {p1, p2}
    Crashes = FALSE
    Errors = FALSE
SPECIFICATION Spec
INVARIANT Mutex
