CONSTANTS
    PartNames = {"cache", "tools", "channel", "run", "tree"}
    Commands = {c1, c2}
    Contents = {pinned, altered}
    Pinned = pinned
    NoFile = NoFile
    FirstHost = h1
    RedirectHosts = {h1, h2}
    Hosts = {h1, h2, h3}
    MaxRedirects = 1
    Servers = {"s1", "s2"}
    Requests <- MCRequests
    Promises = {p1, p2}
    NoPromise = NoPromise
    DamagedStart = TRUE
    Units <- MCUnits
    Minimum = 2
    MaxLate = 1
    Offsets = {0, 6, 2}
    Changes = {6, 10}
    Never = Never
    Unannounced = FALSE
    Skews = {"loses", "gains"}
    MaxSkew = 1
    MaxTime = 18
    MaxChunks = 2
    MaxFrames = 3
    Unit = 4
    Rate = 2
    Burst = 3
    MaxU64 = 17
    MaxNow = 9
    TestCalls = {t1}
    MaxEdits = 2
    NoTest = NoTest
    Labels = {"a", "b", "c", "p"}
    Handles = {"a", "p"}
    Domains <- MCDomains
    Ids <- MCIds
    House = "p"
    HouseDomain <- MCHouse
    MaxPublishers = 2
    Widgets = {"w1", "w2"}
    Versions = {1, 2}
    Features = {"key", "future"}
    OlderFeatures = {}
    NewerFeatures = {"key"}
    MaxEntries = 2
    Lengths = {0, 1, 2, 3, 4, 5}
    FixedHeader = 1
    Descriptors = {1, 2}
    MaxZipEntries = 3
    Components = {"a", "A", "b"}
    Lower <- MCLower
    MaxNames = 3
    MaxDepth = 2
    Players = {alice, bob}
    Games = {g1}
    Nobody = Nobody
    Checks = {k1}
    GoalRoutes = {"goals"}
    Accounts = {a1, a2}
    NoValue = NoValue
    Waits = Waits
    NoAnswer = NoAnswer
    Elsewhere = Elsewhere
    EventWindow = 1
    MaxChanges = 1
    MaxEvents = 2
    Names = {"a"}
    Numbers = {"1"}
    Levels <- MCLevels
    MaxTreeDepth = 3
    MaxItems = 2
    MaxTokens = 5
    Hidden = {".h"}
    LeftOutFolders = {"dist", "__MACOSX"}
    LeftOutFiles = {"key"}
    NotPortable = {"non-ascii"}
    Forbidden = {"a:b"}
    SourcePaths <- MCSourcePaths
    Wrappers = {"w", "src", "dist", ".h"}
    MaxFiles = 3
    MaxFolders = 2
    ScopeNames = {"x", "y"}
    LogicFunctions = {"f"}
    NoRef = NoRef
    MaxNodes = 3
SPECIFICATION PartsFairSpec
INVARIANTS CacheInv AdoptedStays InStep ValidatorAgrees InstancesSound
PROPERTIES WorkEnds StoppedTreeGoes GainsOnlyPinned NeverHalfWritten SaysWhy
CHECK_DEADLOCK FALSE
