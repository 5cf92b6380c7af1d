SPECIFICATION Spec
CONSTANTS
    m1 = m1  m2 = m2  q1 = q1  q2 = q2  k1 = k1
    NoRequest = NoRequest  Unreadable = Unreadable
    Messages = {m1, m2}  Requests = {q1, q2}  Codes = {k1}
    Carried <- TwiceOrTaken  CodeOf <- SameCode
    Invalid = {}
    Handlers = {1, 2}
    DeliveryLimit = 1
    MaxCrashes = 1
    Guards = {TRUE, FALSE}
    Faults = {"db_error", "reconnect"}
INVARIANTS IntakeCodesUnique NoSilentDiscard OneOutcome LedgerTruthful AcceptedHasTask
CHECK_DEADLOCK FALSE
