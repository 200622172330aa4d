CONSTANTS
    MaxSubrs = 2
    MaxUnsubs = 1
    NoSubr = NoSubr
SPECIFICATION Spec
INVARIANT NoLeakedSubscription
CHECK_DEADLOCK FALSE
