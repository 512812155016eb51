\* One component at a time; calls, clocks and budgets run out, so it stops.
SPECIFICATION ServicesSpec
CONSTANTS
    Workers = {w1, w2}
    Calls = {j1, j2, j3}
    Pair = {p1, p2}
    Others = {q1, q2}
    None = None
    FlagDefault <- MCFlagDefault
    FlagValues <- MCFlagValues
    Bucket = 50
    Percentages = {50}
    Durations = {2}
    MaxDay = 1
    MaxDeaths = 1
    Nobody = Nobody
    AcquireTimeout = 1
    BodyTimeout = 2
    Lease = 4
    MaxTime = 8
    MaxTokens = 3
    MaxResponses = 2
    MaxParts = 2
    MaxFaults = 1
    Default = 1
    Limits = {0, 2}
    Boosts = {0, 1}
    MaxMonth = 2
    LastMessage = 4
    Batch = 2
    MaxActs = 1
    MaxLive = 2
    MaxAged = 1
    LastChat = 2
    Hours = 2
    HourOf <- MCHourOf
    MaxHour = 3
    OpCommands = {op}
    Cron = cron
SYMMETRY Symmetry
CHECK_DEADLOCK FALSE
INVARIANTS
    ServicesTypeOK
    MutualExclusion
    LeaseOutlivesBody
    FlagsHold
    ContextHolds
    ModelsHold
    ReplyShown
    QuotaHolds
    SummariesHold
    BatchesHold
PROPERTIES
    ImplementsMutex
    TurnsKept
