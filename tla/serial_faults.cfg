CONSTANTS
    Ws = {w1}
    Repo = {r1}
    Proc = {p1}
    MaxNote = 0
    Modes = {TRUE, FALSE}
    Commands <- MCAll
    Errors <- MCAll
    Crashes <- MCAll
    Serial = TRUE
    UserEdits = TRUE
SPECIFICATION Spec
INVARIANT Exclusive
PROPERTY RefinesLifecycle
PROPERTY PurgeRecoverable
