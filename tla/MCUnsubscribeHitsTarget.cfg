CONSTANTS
    MaxSubrs = 2
    MaxUnsubs = 1
    NoSubr = NoSubr
SPECIFICATION Spec
INVARIANT UnsubscribeHitsTarget
CHECK_DEADLOCK FALSE
