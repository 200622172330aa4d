\* Three tokens from: a 5-byte and a 6-byte packet (after which the handler
\* asks FeedBuffer to stop), a packet with a bad checksum, a 4-byte
\* candidate, a stray leader, a stray byte; read a byte at a time and fed
\* at any point, by a stream receiver and by a datagram receiver.
CONSTANTS
    Leader = Leader
    CR = CR
    LF = LF
    Bad = Bad
    PkHeadSize = 2
    MaxPacketSize = 7
    DgramModes = {FALSE, TRUE}
    StopSize = 6
    Tokens <- MCTokens
    MaxTokens = 3
    FixedPkSize = 3
SPECIFICATION Spec
INVARIANT TypeOK
INVARIANT ByteAccounting
INVARIANT ChunkingInvariance
INVARIANT FixedSizeFraming
\* Once the peer has sent its tokens and all is fed, nothing is left to do.
CHECK_DEADLOCK FALSE
