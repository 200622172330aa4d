\* Three subscribe requests and one "<u>" request of one session: enough
\* for a ticket to be superseded twice, for the session to unsubscribe the
\* replaced subr while its ticket is inside OnFoundTree, and for a "<u>"
\* to race a newer subscribe.
CONSTANTS
    MaxSubrs = 3
    MaxUnsubs = 1
    NoSubr = NoSubr
SPECIFICATION Spec
INVARIANT TypeOK
INVARIANT CurrentStaysSubscribed
\* A session that has made all its requests stops; so does the model.
CHECK_DEADLOCK FALSE
