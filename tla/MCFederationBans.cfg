\* An unban overtakes a ban of the same user, without faults.
SPECIFICATION Spec
CONSTANTS
    Feds = {"f", "s"}
    Chats = {"c1", "c2", "c3"}
    None = None
    FedOf <- MCFedOf
    Subscribed <- MCSubscribed
    Present = {"c1", "c2", "c3"}
    Jobs = {1, 2}
    MaxBans = 3
    Faults = {}
CHECK_DEADLOCK FALSE
INVARIANT
    LiftedStaysLifted
