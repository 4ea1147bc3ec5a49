CONSTANTS
    Ws = {w1}
    Repo = {r1, r2}
    Proc = {p1, p2}
    MaxNote = 0
    Modes = {FALSE}
    Commands <- MCAll
    Errors <- MCAll
    Crashes <- MCAll
    Serial = FALSE
    UserEdits = TRUE
SPECIFICATION Spec
SYMMETRY MCSymmetry
ACTION_CONSTRAINT MCOverlap
INVARIANT TreesHaveEntries
INVARIANT TypeOK
