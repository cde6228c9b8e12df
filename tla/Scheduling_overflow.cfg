\* Schedules two ticks away and a setTimeout of one: no crash, no fault, no PATCH of the status.
SPECIFICATION Spec
CONSTANTS
    Schedules = {s1}
    Slots = {1, 2}
    Requests = {1}
    PatchStatuses = {}
    AccountStates = {"connected"}
    Sizes = {0, 1}
    MaxTimeout = 1
    MaxTime = 2
    MaxRequests = 2
    MaxCrashes = 0
    MaxFaults = 0
INVARIANT NotBeforeFirstDue
CHECK_DEADLOCK FALSE
