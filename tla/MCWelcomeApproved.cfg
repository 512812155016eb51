\* A solved join request, without faults.
SPECIFICATION Spec
CONSTANTS
    Entries = {"request"}
    WelcomeMute = FALSE
    Faults = {}
    MaxMessages = 2
    MaxFaults = 0
    MaxRepeats = 0
CHECK_DEADLOCK FALSE
INVARIANTS
    VerifiedLetAlone
