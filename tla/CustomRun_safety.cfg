SPECIFICATION Spec
CONSTANTS
    Runs = {c1}
    Controllers = {k1, k2}
    MaxUid = 1
    Forms = {"inline", "incomplete", "byname", "other", "missing"}
    NamesCollide = TRUE
INVARIANTS
    TypeOK
    ScriptRunsOnce
    SuccessIsReal
