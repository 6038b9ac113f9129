SPECIFICATION JobSpec
CONSTANTS
    Jobs = {j1, j2}
    JobIds = {i1, i2}
    Streams = {"stdout"}
    Lines = 0
    NoJob = NoJob
    NoCall = NoCall
    NoId = NoId
    ChannelCapacity = 1
    BackoffCap = 1
SYMMETRY JobSymmetry
INVARIANTS
    RunsOwnScripts
