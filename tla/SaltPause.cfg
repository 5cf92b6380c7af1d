SPECIFICATION SaltSpec
CONSTANTS
    g = g
    h = h
    Pages = {g, h}
    Kinds = {"completion", "abnormal"}
    MaxPauses = 2
    MaxCommands = 3
    Faults = {"crash", "lost", "unsure"}
    MaxFaults = 1
SYMMETRY PagesAlike
INVARIANTS PauseMatchesRun QuietMeansAgreed NextIsAccepted ShiftedOnce TraysFollowRun
CHECK_DEADLOCK FALSE
