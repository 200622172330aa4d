\* Sequence continuity feeder: two feeds, numbers 1..5, one Clear().
CONSTANTS
    F1 = F1
    F2 = F2
    Feeds <- MCFeeds
    MaxSeq = 5
    Span <- MCSpan
    MaxDays = 1
SPECIFICATION Spec
INVARIANT TypeOK
INVARIANT DeliveredInOrder
INVARIANT NothingAheadDiscarded
INVARIANT LostAccounting
PROPERTY GapsResolved
\* An idle feeder waits for packets: once every feed has sent its packets
\* and the day's Clear() is done, nothing more happens.
CHECK_DEADLOCK FALSE
