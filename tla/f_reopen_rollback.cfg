CONSTANTS
    Ws = {w1}
    Repo = {r1, r2}
    Proc = {p1}
    MaxNote = 0
    Modes = {TRUE, FALSE}
    Commands <- MCAll
    Errors <- MCReopen
    Crashes <- MCNone
    Serial = TRUE
    UserEdits = FALSE
SPECIFICATION Spec
INVARIANT ArchivesWithoutRepos
