\* One component at a time; messages, clocks and budgets run out, so it stops.
SPECIFICATION WelcomeSpec
CONSTANTS
    Entries = {"join"}
    WelcomeMute = TRUE
    Faults = {"refusal"}
    MaxMessages = 3
    MaxFaults = 1
    MaxRepeats = 1
    Pair = {p1, p2}
    Others = {q1, q2}
    None = None
    Items = {1, 2, 3}
    FlushDelay = 2
    FlushTtl = 3
    LastTick = 4
    Chats = {"c"}
    Handlers = {"j", "k"}
    FedLimit = 2
    MaxRequests = 3
    AdminTtl = 1
    AdminIds = {1, 2}
    AdminTime = 2
    AdminChanges = 1
    AdminFaults = 1
    Private = "p"
    InGroups = {"g"}
    LinkLifetime = 2
    LinkTtl = 1
    LinkTime = 3
    LinkUpdates = 3
    LinkChanges = 1
SYMMETRY Symmetry
CONSTRAINT FewDeliveries
CHECK_DEADLOCK FALSE
INVARIANTS
    WelcomeTypeOK
    SweepKeepsSession
    HeldIsPending
    AlbumHandled
    RegistryHolds
    AccessHolds
PROPERTIES
    NewerStayKept
    ReleasedSpared
    LateStaysLate
