CONSTANTS
    Kids = {k1, k2}
    NoPid = NoPid
    Smash = Smash
    MaxFds = 6
    PipeSize = 1
    Output = 2
SPECIFICATION FairSpec
INVARIANT StdoutRestored LeaksAccounted EachHasItsEnd JobsAreChildren
PROPERTY PipeEnds
