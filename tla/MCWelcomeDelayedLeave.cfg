\* A delayed leave and a rejoin, without faults.
SPECIFICATION Spec
CONSTANTS
    Entries = {"join"}
    WelcomeMute = FALSE
    Faults = {}
    MaxMessages = 3
    MaxFaults = 0
    MaxRepeats = 0
CHECK_DEADLOCK FALSE
INVARIANTS
    HeldHasRecord
