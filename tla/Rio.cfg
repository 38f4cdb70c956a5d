CONSTANTS
    Bytes = {"a", "nl"}
    Newline = "nl"
    Unset = "unset"
    LineSizes <- MCLineSizes
    BlockSizes <- MCBlockSizes
    Messages <- MCMessages
    RIO_BUFSIZE = 2
    MaxIn = 4
    MaxOut = 3
SPECIFICATION FairSpec
INVARIANT BufferHoldsNext
PROPERTY ImplementsStream ReadsReturn
CHECK_DEADLOCK FALSE
