SPECIFICATION SaltSpec
CONSTANTS
    g = g
    h = h
    Pages = {g, h}
    Kinds = {"completion", "abnormal"}
    MaxPauses = 1
    MaxCommands = 2
    Faults = {"crash", "lost", "unsure"}
    MaxFaults = 1
SYMMETRY PagesAlike
INVARIANT InterruptedIsRetryable
CHECK_DEADLOCK FALSE
