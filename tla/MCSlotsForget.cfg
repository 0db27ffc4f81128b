\* One job that yields at once, a second one, one slot.
SPECIFICATION SlotsSpec
CONSTANTS
    SlotJob = {j1, j2}
    MaxWorkers = 1
    ImageOnly = FALSE
    Outages = FALSE
    MaxRuns = 4
PROPERTIES ClaimsHaveRoom
CHECK_DEADLOCK FALSE
