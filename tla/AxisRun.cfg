SPECIFICATION FairSpec
CONSTANTS
    N = 3
    Operators = {o1, o2}
    Settings <- Environments
CHECK_DEADLOCK FALSE
INVARIANTS CompletionIsPhysical AxesInOrder ReadyGate RunAgreesWithAxes WaitingHasCommand
PROPERTIES CompletedAxisIsFinal RepeatedEndIsIdempotent RunCompletes
