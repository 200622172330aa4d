CONSTANTS
    MaxSubrs = 2
    MaxUnsubs = 1
    NoSubr = NoSubr
SPECIFICATION Spec
INVARIANT TreeReleasedOnce
CHECK_DEADLOCK FALSE
