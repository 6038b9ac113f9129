SPECIFICATION ProgramFairSpec
CONSTANTS
    Ssl = {s1, s2, s3}
    Domains = {dom1, dom2}
    Scripts = {h1}
    Updates = {u1, u2}
    s1 = s1
    s2 = s2
    s3 = s3
    h1 = h1
    u1 = u1
    u2 = u2
    Workers = 2
    Nobody = Nobody
    Channels = {a, b}
    NoChannel = NoChannel
    MaxTroubles = 3
    Loads <- MCLoads
    Commands = {c1, c2}
    c1 = c1
    c2 = c2
    Dirs = {root, k1, sub, k2}
    root = root
    sub = sub
    Up <- MCUp
    Clusters = {k1, k2}
    k1 = k1
    k2 = k2
    Inherited = Inherited
    Platform <- MCPlatform
    Absent = Absent
    Benches <- MCBenches
    Loaders = {l1, l2}
    Databases = {d1}
    d1 = d1
    Fixtures <- MCFixtures
    Uploads = {up1}
    Size = 4
    Chunk = 3
    RpcCalls = {r1}
    MaxLogs = 2
    Installs = {i1, i2}
    i1 = i1
    i2 = i2
    Namespaces = {ns1, ns2}
    ns1 = ns1
    ns2 = ns2
    Secrets = {key1, key2}
    key1 = key1
    key2 = key2
    Nothing = Nothing
    Wants <- MCWants
CHECK_DEADLOCK FALSE
INVARIANTS
    ProgramTypeOK
    OneCertificate
    JammedByLoadOnly
    StaleCallsBounded
    RolloutIsWhole
    OnceMeansOnce
    InstallsThePlanned
    Accounted
    UploadIsWhole
    RpcIsFaithful
    InstalledWorks
PROPERTIES
    HandlersReturn
    AnnouncedAgain
    CommandsReturn
