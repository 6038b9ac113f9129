SPECIFICATION BothFairSpec
CONSTANTS
    Runs = {c1}
    Controllers = {k1}
    MaxUid = 2
    Forms = {"inline", "byname"}
    NamesCollide = FALSE
    Loads <- MCLoads
INVARIANTS
    BothTypeOK
    TaskRunsOnce
    RunningIsBacked
PROPERTIES
    SuccessIsFinal
    TasksHandedOff
    RunsEndUnlessNameTaken
