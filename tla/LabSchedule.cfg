SPECIFICATION Spec
CONSTANTS
    Ids = {1, 2, 3}
    Pages = {p, q}
    Planned <- MCPlanned
    Delivered = {1, 2}
    SaltSpray = {1}
    Maintenance <- MCMaintenance
    Buffer = 1
    Durations = {1, 2}
    Horizon = 4
    MaxNow = 2
    MaxRequests = 2
SYMMETRY PageSymmetry
VIEW ReadState
CHECK_DEADLOCK FALSE
INVARIANTS OverlapHasCause CascadeIsLeast
PROPERTY ComparedStays
