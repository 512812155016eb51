\* Liveness, with administrators acting in the middle of operations.
SPECIFICATION SchedulerSpec
CONSTANTS
    None = None
    Rights <- MCRights
    WelcomeRights <- MCWelcomeRights
    InitialMembers <- MCFewMembers
    AdminPerms <- MCOneAdminPerm
    DefaultPerms <- MCOneDefault
    Commands = {"mute", "restrict", "unmute", "kick"}
    MuteDurations = {1}
    AdminDurations = {5}
    RacingAdmin = TRUE
    BodyTimeout = 3
    Margin = 4
    TelegramForever = 2
    CallLatency = 2
    MaxTime = 5
    MaxCommands = 2
    MaxChanges = 1
    MaxFaults = 1
CHECK_DEADLOCK FALSE
INVARIANTS
    BansListed
PROPERTIES
    TimedMuteEnds
    TasksEnd
