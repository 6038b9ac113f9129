SPECIFICATION Spec
CONSTANTS
    Restores = {r1, r2}
    Sweeps = {}
    Pvcs = {p1}
    JobIds = {j1, j2}
    MaxRestarts = 0
    Nobody = Nobody
CHECK_DEADLOCK FALSE
INVARIANTS
    RestoresExclude
