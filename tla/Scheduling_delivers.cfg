\* A connected account, no crash, no fault, no PATCH of the status.
SPECIFICATION Spec
CONSTANTS
    Schedules = {s1}
    Slots = {1, 2}
    Requests = {1, 2}
    PatchStatuses = {}
    AccountStates = {"connected"}
    Sizes = {0, 1}
    MaxTimeout = 10
    MaxTime = 2
    MaxRequests = 3
    MaxCrashes = 0
    MaxFaults = 0
INVARIANT ConnectedAccountDelivers
CHECK_DEADLOCK FALSE
