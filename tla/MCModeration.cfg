\* One component at a time; calls, clocks and budgets run out, so it stops.
SPECIFICATION ModerationSpec
CONSTANTS
    Calls = {j1, j2, j3}
    Pair = {p1, p2}
    MaxLapses = 1
    WarnDefault = 3
    WarnLimits = {2}
    MaxDeaths = 1
    Users = {"u", "v"}
    AdminSender = "admin"
    FloodLimit = 2
    MaxMessages = 4
    MaxCrashes = 1
    None = None
    Rights <- MCRights
    WelcomeRights <- MCWelcomeRights
    InitialMembers <- MCInitialMembers
    AdminPerms <- MCAdminPerms
    DefaultPerms <- MCDefaultPerms
    Commands = {"mute", "restrict", "unmute", "ban"}
    MuteDurations = {1}
    AdminDurations = {5}
    RacingAdmin = FALSE
    BodyTimeout = 3
    Margin = 4
    TelegramForever = 2
    CallLatency = 2
    MaxTime = 5
    MaxCommands = 3
    MaxChanges = 1
    MaxFaults = 1
SYMMETRY Symmetry
CONSTRAINT FewEvents
CHECK_DEADLOCK FALSE
INVARIANTS
    ModerationTypeOK
    NoOrphanMute
    BaselineKept
    NeverForever
    WhitelistHolds
    NobodyAtLimit
    BansInForce
    FloodJudged
    RulesHold
    
PROPERTIES
    RestoresNoMoreThanOriginal
    NewerAdminChangeKept
