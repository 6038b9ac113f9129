SPECIFICATION FairSpec
CONSTANTS
    Restores = {r1}
    Sweeps = {}
    Pvcs = {p1}
    JobIds = {j1, j2}
    MaxRestarts = 1
    Nobody = Nobody
CHECK_DEADLOCK FALSE
PROPERTIES
    RestoresEnd
