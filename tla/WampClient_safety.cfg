SPECIFICATION Spec
CONSTANTS
    Calls = {c1, c2}
    Publishes = {p1}
    Rpcs = {r1}
    CorrIds = {i1, i2}
    NoCall = NoCall
    NoId = NoId
    ChannelCapacity = 1
    BackoffCap = 1
SYMMETRY ClientSymmetry
INVARIANTS
    TypeOK
    WaiterIsRegistered
    LeaksOnlyOnSendError
    OwnReply
