\* One schedule, one request at a time, two crashes; no client forces "processing".
SPECIFICATION FairSpec
CONSTANTS
    Schedules = {s1}
    Slots = {1, 2}
    Requests = {1}
    PatchStatuses = {"pending", "cancelled"}
    AccountStates = {"connected", "missing"}
    Sizes = {0, 1}
    MaxTimeout = 10
    MaxTime = 2
    MaxRequests = 3
    MaxCrashes = 2
    MaxFaults = 0

PROPERTY EventuallySettled
CHECK_DEADLOCK FALSE
