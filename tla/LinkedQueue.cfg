SPECIFICATION QueueSpec
CONSTANTS
    Nodes = {n1, n2, n3, n4}
    HeadNode = HeadNode
    EndNode = EndNode
    NULL = NULL
    Fds = {f1, f2, f3}
    NoFd = NoFd
SYMMETRY Symmetry
INVARIANTS
    ListInv
PROPERTIES
    ImplementsFifo
