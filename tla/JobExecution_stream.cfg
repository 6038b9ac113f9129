SPECIFICATION JobFairSpec
CONSTANTS
    Jobs = {j1}
    JobIds = {i1}
    Streams = {"stdout", "stderr"}
    Lines = 2
    NoJob = NoJob
    NoCall = NoCall
    NoId = NoId
    ChannelCapacity = 1
    BackoffCap = 1
PROPERTIES
    StreamOrder
    JobsReturn
