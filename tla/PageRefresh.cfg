SPECIFICATION FairPageSpec
CONSTANTS
    w = w
    u = u
    Keys = {w, u}
    Watched = {w}
    Origins = {"own", "tab", "other"}
    Kinds = {"app", "editor"}
    Readers = {"refresh", "direct"}
    QueueSize = 1
    MaxEvents = 2
    Faults = {"disconnect", "restart", "read_failure", "reply_lost"}
CHECK_DEADLOCK FALSE
INVARIANTS NoLostWakeup QuietMeansFresh
PROPERTY EventuallyFresh
