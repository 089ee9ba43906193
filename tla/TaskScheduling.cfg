SPECIFICATION FairSpec
CONSTANTS
    Fixtures = {"switch", "preempt", "wakeup", "queue", "wait", "wait_dirty", "wait_checkpoint"}
    Faults = {"worker", "watchdog", "preflight", "restore"}
INVARIANTS
    BlockedTaskNeverRuns
    ContextsBelong
    GuestMeetsModel
PROPERTIES
    SchedulingReturns
CHECK_DEADLOCK FALSE
