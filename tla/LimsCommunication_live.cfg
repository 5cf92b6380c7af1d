SPECIFICATION CommFairSpec
CONSTANTS
    c1 = c1  r1 = r1  r2 = r2
    Completions = {c1}
    Receipts = {r1}
    MaxRevision = 1
    MaxCrashes = 1
    Journaling = TRUE
    Rejected <- NoneRejected
    Faults = {"missed", "lost_ack"}
    BatchSize = 1
    Commands = {}
PROPERTIES EventuallyStored EventuallyOnline
