\* Does the length test accept a candidate of PkHeadSize + 2 bytes?
CONSTANTS
    Leader = Leader
    CR = CR
    LF = LF
    Bad = Bad
    PkHeadSize = 2
    MaxPacketSize = 7
    DgramModes = {FALSE}
    StopSize = 6
    Tokens <- MCTokens
    MaxTokens = 3
    FixedPkSize = 3
SPECIFICATION Spec
INVARIANT AcceptsContractLengths
\* Once the peer has sent its tokens and all is fed, nothing is left to do.
CHECK_DEADLOCK FALSE
