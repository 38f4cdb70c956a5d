SPECIFICATION Spec
CONSTANTS
    Cmds = {c1, c2, c3}
    NoCmd = NoCmd
    MaxJobId = 3
SYMMETRY Symmetry
INVARIANTS JobListInv EveryChildTracked JobIdKept StoppedMark
