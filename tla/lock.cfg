CONSTANTS
    Proc = {p1, p2, p3}
    Crashes = TRUE
    Errors = TRUE
SPECIFICATION FairSpec
CHECK_DEADLOCK FALSE
PROPERTY RefusedOnlyByOthers
PROPERTY AcquireEnds
PROPERTY DoctorSparesTheLiving
