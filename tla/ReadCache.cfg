SPECIFICATION FairCacheSpec
CONSTANTS
    Keys = {"w"}
    Origins = {"other"}
    Readers = {r1, r2}
    Helpers = {h1, h2}
    MaxEvents = 2
    Faults = {"restart", "read_failure"}
CHECK_DEADLOCK FALSE
INVARIANTS CacheIsCurrent SingleFlight
PROPERTY ReadRefinement
