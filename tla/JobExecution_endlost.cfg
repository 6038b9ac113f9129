SPECIFICATION JobSpec
CONSTANTS
    Jobs = {j1}
    JobIds = {i1}
    Streams = {"stdout"}
    Lines = 1
    NoJob = NoJob
    NoCall = NoCall
    NoId = NoId
    ChannelCapacity = 1
    BackoffCap = 1
INVARIANTS
    EndBeforeReply
