\* A lookup enters a rollout while an override is set, without faults.
SPECIFICATION Spec
CONSTANTS
    Calls = {j1, j2}
    None = None
    Default <- MCDefault
    Values <- MCValues
    Bucket = 50
    Percentages = {50, 100}
    Durations = {2}
    MaxDay = 1
    MaxDeaths = 0
CHECK_DEADLOCK FALSE
PROPERTIES
    ManualOverridePrevails
