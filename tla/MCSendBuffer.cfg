\* Two sending threads, two messages each: enough for a send to queue
\* behind a write, to be posted while the op queue is busy, and for a
\* partial write to leave data in Sending_ when Queue_ is moved behind it.
CONSTANTS
    s1 = s1
    s2 = s2
    Senders <- MCSenders
    MsgsEach = 2
    MaxOpTasks = 2
SPECIFICATION Spec
INVARIANT TypeOK
INVARIANT OneWriteAtATime
INVARIANT SendFIFO
PROPERTY NothingStranded
\* When every message is sent, or the buffer is cleared, nothing is left to do.
CHECK_DEADLOCK FALSE
