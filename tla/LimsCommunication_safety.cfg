SPECIFICATION CommSpec
CONSTANTS
    c1 = c1  r1 = r1  r2 = r2
    Completions = {}
    Receipts = {r1, r2}
    MaxRevision = 1
    MaxCrashes = 1
    Journaling = TRUE
    Rejected <- NoneRejected
    Faults = {"http_failure", "lost_ack", "missed", "link_failure", "in_gap"}
    BatchSize = 1
    Commands = {"acknowledge", "check"}
INVARIANTS AttemptsAreCounted AlarmMatchesFault
PROPERTIES CriticalUntilOnline OnlineMeansReconciled
