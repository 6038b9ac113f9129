SPECIFICATION Spec
CONSTANTS
    Restores = {r1}
    Sweeps = {s1}
    Pvcs = {p1}
    JobIds = {j1, j2}
    MaxRestarts = 1
    Nobody = Nobody
SYMMETRY ResticSymmetry
CHECK_DEADLOCK FALSE
INVARIANTS
    TypeOK
    SuccessIsReal
    FreeBeforeRestore
    OneWriterEach
    JobsAreDeleted
