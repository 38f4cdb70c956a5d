SPECIFICATION FairSpec
CONSTANTS
    MaxPid = 4
    Values <- SmallValues
    HALF = 4
INVARIANT WeightsInv
PROPERTIES HeaviestIfHeavier WalkEnds
