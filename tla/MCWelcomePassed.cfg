\* A verified member leaves and rejoins, without faults.
SPECIFICATION Spec
CONSTANTS
    Entries = {"join"}
    WelcomeMute = FALSE
    Faults = {}
    MaxMessages = 3
    MaxFaults = 0
    MaxRepeats = 0
CHECK_DEADLOCK FALSE
PROPERTIES
    PassedStaysPassed
