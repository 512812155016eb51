\* A restore request that takes as long as the 45-second body allows.
SPECIFICATION Spec
CONSTANTS
    None = None
    Rights <- MCRights
    WelcomeRights <- MCWelcomeRights
    InitialMembers <- MCInitialMembers
    AdminPerms <- MCAdminPerms
    DefaultPerms <- MCDefaultPerms
    Commands = {"mute", "restrict", "unmute", "ban"}
    MuteDurations = {1}
    AdminDurations = {5}
    RacingAdmin = FALSE
    BodyTimeout = 3
    Margin = 4
    TelegramForever = 2
    CallLatency = 3
    MaxTime = 6
    MaxCommands = 2
    MaxChanges = 1
    MaxFaults = 1
CHECK_DEADLOCK FALSE
INVARIANT
    NeverForever
