CONSTANTS
    Ws = {w1}
    Repo = {r1}
    Proc = {p1}
    MaxNote = 0
    Modes = {TRUE, FALSE}
    Commands <- MCAll
    Errors <- MCNone
    Crashes <- MCNone
    Serial = TRUE
    UserEdits = FALSE
SPECIFICATION Spec
PROPERTY CloseIsCommitted
