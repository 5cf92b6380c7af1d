SPECIFICATION FairSpec
CONSTANTS
    c1 = c1  c2 = c2  r1 = r1
    Completions = {c1}
    Receipts = {r1}
    MaxRevision = 3
    MaxCrashes = 2
    Journaling = FALSE
    Rejected <- FirstRejected
    Faults = {"http_failure", "lost_ack"}
INVARIANTS NothingLost RecordIsTruthful
PROPERTIES RelayRefinement EventuallyStored
