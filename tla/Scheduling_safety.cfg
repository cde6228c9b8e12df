\* One schedule, two concurrent requests, a crash and a fault.
SPECIFICATION Spec
CONSTANTS
    Schedules = {s1}
    Slots = {1, 2}
    Requests = {1, 2}
    PatchStatuses = {"pending", "processing"}
    AccountStates = {"connected", "missing"}
    Sizes = {0, 1}
    MaxTimeout = 10
    MaxTime = 2
    MaxRequests = 3
    MaxCrashes = 1
    MaxFaults = 1
INVARIANTS TypeOK RunsExclusive ClaimBudget NotBeforeFirstDue ProcessingHasOwner
PROPERTIES DeletedStaysDeleted KeepsLedger
CHECK_DEADLOCK FALSE
