CONSTANTS
    Ws = {w1}
    Repo = {r1, r2}
    Proc = {p1}
    MaxNote = 0
    Modes = {FALSE}
    Commands <- MCAll
    Errors <- MCAll
    Crashes <- MCAll
    Serial = TRUE
    UserEdits = TRUE
SPECIFICATION Spec
SYMMETRY MCRepoSymmetry
INVARIANT FailuresLeaveMetadataRight
PROPERTY BindingsKept
PROPERTY ArchivedReopenable
