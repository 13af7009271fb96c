SPECIFICATION FilesSpec
CONSTANTS
    r1 = r1
    r2 = r2
    r3 = r3
    s1 = s1
    s2 = s2
    user = user
    cart = cart
    token = token
    a = a
    b = b
    Requests = {r1, r2}
    Sessions = {s1, s2}
    Keys = {user, cart}
    User = user
    Token = token
    Paths = {a, b}
    Unset = Unset
    MaxChanges = 2
    Procs = {1, 2}
    Names = {"a", "b"}
    Versions = {"1", "2", "latest"}
    Latest = "latest"
    No = No
    None = None
    Jps <- MCJp
    Zips <- MCZip
    Legacy <- MCLegacy
    Needs <- MCNeeds
    Sealed <- MCSealed
    Commands <- MCCommands
    Initially <- MCInitially
    MaxCommands = 2
    MaxTroubles = 1
    Updaters = {1, 2}
    NoFileHere = NoFileHere
    Releases <- MCReleases
    MaxUpdates = 3
    MaxFaults = 2
    Tables = {"a", "b", "c", "d"}
    LogName = "migration"
    NoTable = NoTable
    Ups <- MCUps
    MaxRuns = 3
    MaxFailures = 2
SYMMETRY Symmetric
INVARIANT SavedSurvives
INVARIANT SerialRequests
INVARIANT InstalledIsWhole
INVARIANT ExecutableSurvives
INVARIANT SchemaIsWanted
PROPERTY InstallIsComplete
PROPERTY LockIsClosed
CHECK_DEADLOCK FALSE
